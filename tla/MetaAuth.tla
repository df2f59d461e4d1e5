------------------------------ MODULE MetaAuth ------------------------------
(***************************************************************************)
(* How two daemons authenticate a meta connection                          *)
(* (tinc-runtime/src/meta.rs and legacy_meta.rs, tincd/src/state.rs).      *)
(* Which protocol a connection speaks follows from the settings of both    *)
(* daemons and from the keys each holds of the other: SPTPS with Ed25519   *)
(* keys, the legacy protocol with RSA keys, the legacy protocol used once  *)
(* to exchange Ed25519 keys (the upgrade), or none at all (BypassSecurity).*)
(*                                                                         *)
(* A connection is named by the daemon that opens it; each daemon has at   *)
(* most one connection of its own at a time.  Keys, challenges and         *)
(* signatures are abstracted to whether the key they were made for is the  *)
(* right one.                                                              *)
(***************************************************************************)
EXTENDS Integers, Sequences, SequencesExt, FiniteSets

CONSTANTS
    Daemon,     \* the two daemons
    AuthWorlds, \* the settings to try, see AuthInit
    MaxGiveUps, \* how often a connection breaks or is given up
    Weight      \* Weight[d]: the weight d gives to the connection

VARIABLES
    setting,    \* what the daemons are configured with
    knows,      \* knows[d]: the Ed25519 key d has of the other
    conn,       \* conn[i][d]: d's end of the connection that i opened
    wire,       \* wire[i][d]: what is on its way to that end
    giveUps

authVars == <<setting, knows, conn, wire, giveUps>>

(* There are two daemons, and a weight is a number (local_weight_for_peer). *)
TwoDaemons == \E a, b \in Daemon : a # b /\ Daemon = {a, b}
ASSUME AuthAssumption == TwoDaemons /\ Weight \in [Daemon -> Int]

Peer(d) == CHOOSE p \in Daemon : p # d

LegacyMinor == 0      \* LEGACY_META_PROTOCOL_MINOR
UpgradeMinor == 1     \* LEGACY_META_UPGRADE_PROTOCOL_MINOR
ProtMinor == 7        \* PROT_MINOR

Experimental(d) == setting.mode[d] # "legacy"
Bypass(d) == setting.mode[d] = "bypass"

Msg(type) == [type |-> type, minor |-> 0, good |-> TRUE, weight |-> 0, options |-> {}]
Id(minor) == [Msg("ID") EXCEPT !.minor = minor]
(* Made with the key that d takes for the other's.                         *)
Sealed(type, key) == [Msg(type) EXCEPT !.good = (key = "right")]
Eof == Msg("EOF")

(* The driver of an end; minor is the one its ID carries.                  *)
End(driver, minor, upgrade, force) ==
    [driver |-> driver, state |-> "ExpectId", minor |-> minor, upgrade |-> upgrade, force |-> force,
     negotiated |-> 0, good |-> TRUE, closing |-> FALSE, weight |-> 0, options |-> {}]
NoEnd == End("none", 0, FALSE, FALSE)
Closed == End("closed", 0, FALSE, FALSE)
Pending == End("pending", 0, FALSE, FALSE)

-----------------------------------------------------------------------------
(* Choosing a driver.                                                      *)

(* legacy_meta_driver_for_peer_with_options                                *)
LegacyDriver(d, minor, upgrade) ==
    IF setting.rsa[d] = "none" THEN NoEnd
    ELSE IF Experimental(d) THEN End("legacy", minor, upgrade, FALSE)
    ELSE End("legacy", LegacyMinor, upgrade, TRUE)

(* legacy_meta_upgrade_driver_for_peer: without experimental protocol no   *)
(* Ed25519 private key is loaded.                                          *)
UpgradeDriver(d, minor) == IF Experimental(d) THEN LegacyDriver(d, minor, TRUE) ELSE NoEnd

(* meta_driver_for_peer                                                    *)
DriverForPeer(d, outgoing) ==
    IF ~Experimental(d) THEN LegacyDriver(d, LegacyMinor, FALSE)
    ELSE IF Bypass(d) THEN End("bypass", LegacyMinor, FALSE, FALSE)
    ELSE IF knows[d] # "none" THEN End("modern", ProtMinor, FALSE, FALSE)
    ELSE IF outgoing THEN UpgradeDriver(d, UpgradeMinor)
    ELSE NoEnd

(* meta_driver_for_incoming_peer                                           *)
DriverForIncomingUnguarded(d, minor) ==
    IF Bypass(d) \/ minor >= 2 THEN DriverForPeer(d, FALSE)
    ELSE IF minor = LegacyMinor THEN LegacyDriver(d, LegacyMinor, FALSE)
    ELSE UpgradeDriver(d, ProtMinor)

DriverForIncoming(d, minor) ==
    IF ~Bypass(d) /\ minor < UpgradeMinor /\ knows[d] # "none"
    THEN NoEnd
    ELSE DriverForIncomingUnguarded(d, minor)

-----------------------------------------------------------------------------
(* What an end makes of a message: the new end, what it sends, the key it  *)
(* learns ("none" for none).  Fail closes the connection.                  *)

Step(end, sends) == [end |-> end, sends |-> sends, learned |-> FALSE]
Fail == Step(Closed, <<>>)

(* negotiated_weight, negotiated_connection_options                        *)
NegotiatedOwnPmtu(d, end, m) ==
    [end EXCEPT !.state = "Activated",
                !.weight = (Weight[d] + m.weight) \div 2,
                !.options = setting.options[d] \union (m.options \ {"pmtu"})]

Negotiated(d, end, m) ==
    LET mine == setting.options[d]
        both == mine \intersect m.options
        pmtu == IF "pmtu" \in both THEN {} ELSE {"pmtu"}
    IN  [end EXCEPT !.state = "Activated",
                    !.weight = (Weight[d] + m.weight) \div 2,
                    !.options = (mine \union m.options) \ pmtu]

AckConnection(d) == [Msg("ACK") EXCEPT !.weight = Weight[d], !.options = setting.options[d]]
AckKey == Msg("ACK_KEY")

(* MetaConnectionAuth: receive_id, receive_sptps_record, receive_ack       *)
ModernReceive(i, d, end, m) ==
    CASE m.type = "ID" /\ end.state = "ExpectId" /\ end.driver = "bypass" ->
            Step([end EXCEPT !.state = "ExpectAck"], <<AckConnection(d)>>)
      [] m.type = "ID" /\ end.state = "ExpectId" /\ end.driver = "modern" /\ m.minor >= 2 ->
            Step([end EXCEPT !.state = "Handshake"], <<Msg("KEX")>>)
      [] m.type = "KEX" /\ end.state = "Handshake" ->
            Step(end, IF i = d THEN <<Msg("SIG")>> ELSE <<>>)
      [] m.type = "SIG" /\ end.state = "Handshake" /\ knows[d] = "right" ->
            Step([end EXCEPT !.state = "ExpectAck"],
                 (IF i = d THEN <<>> ELSE <<Msg("SIG")>>) \o <<AckConnection(d)>>)
      [] m.type = "ACK" /\ end.state = "ExpectAck" ->
            Step(Negotiated(d, end, m), <<>>)
      [] OTHER -> Fail

(* LegacyMetaAuth: receive_id                                              *)
LegacyReceiveId(i, d, end, m) ==
    LET remote == IF end.force THEN LegacyMinor ELSE m.minor
    IN  IF remote # LegacyMinor /\ ~end.upgrade THEN Fail
        ELSE Step([end EXCEPT !.state = "ExpectMetaKey",
                              !.negotiated = IF remote = LegacyMinor THEN LegacyMinor ELSE UpgradeMinor],
                  (IF i = d THEN <<>> ELSE <<Id(end.minor)>>) \o <<Sealed("METAKEY", setting.rsa[d])>>)

(* receive_ack and ack_message: a connection, or a key when upgrading      *)
LegacyAck(d, end) == IF end.negotiated = UpgradeMinor THEN AckKey ELSE AckConnection(d)

LegacyReceiveAck(d, end, m) ==
    CASE end.negotiated = UpgradeMinor /\ m.type = "ACK_KEY" ->
            [end |-> [end EXCEPT !.state = "UpgradeTerminating", !.closing = TRUE],
             sends |-> <<Msg("TERMREQ")>>, learned |-> TRUE]
      [] end.negotiated = LegacyMinor /\ m.type = "ACK" -> Step(Negotiated(d, end, m), <<>>)
      [] OTHER -> Fail

(* receive_metakey, receive_challenge, receive_challenge_reply,            *)
(* receive_terminate_request.  Everything after METAKEY is enciphered with *)
(* the key in it: an end that could not open METAKEY reads garbage.        *)
LegacyReceive(i, d, end, m) ==
    CASE m.type = "ID" /\ end.state = "ExpectId" -> LegacyReceiveId(i, d, end, m)
      [] m.type = "METAKEY" /\ end.state = "ExpectMetaKey" ->
            Step([end EXCEPT !.state = "ExpectChallenge", !.good = m.good],
                 <<Sealed("CHALLENGE", setting.rsa[d])>>)
      [] end.good /\ m.type = "CHALLENGE" /\ end.state = "ExpectChallenge" ->
            Step([end EXCEPT !.state = "ExpectChallengeReply"],
                 IF i = d THEN <<Sealed("CHAL_REPLY", setting.rsa[d])>> ELSE <<>>)
      [] end.good /\ m.type = "CHAL_REPLY" /\ end.state = "ExpectChallengeReply" ->
            Step([end EXCEPT !.state = "ExpectAck"],
                 (IF i = d THEN <<>> ELSE <<Sealed("CHAL_REPLY", setting.rsa[d])>>)
                    \o <<LegacyAck(d, end)>>)
      [] end.good /\ m.type \in {"ACK", "ACK_KEY"} /\ end.state = "ExpectAck" ->
            LegacyReceiveAck(d, end, m)
      [] end.good /\ m.type = "TERMREQ" /\ end.state = "UpgradeTerminating" -> Step(end, <<>>)
      [] OTHER -> Fail

(* handle_pending_incoming_bytes: the ID of the peer decides the driver.   *)
(* A modern driver sends its own ID before it reads the peer's.            *)
PendingReceive(i, d, m) ==
    LET driver == DriverForIncoming(d, m.minor)
        step == IF driver.driver = "legacy" THEN LegacyReceive(i, d, driver, m)
                ELSE ModernReceive(i, d, driver, m)
    IN  IF m.type # "ID" \/ driver = NoEnd THEN Fail
        ELSE IF driver.driver = "legacy" \/ step = Fail THEN step
        ELSE [step EXCEPT !.sends = <<Id(driver.minor)>> \o @]

Received(i, d, end, m) ==
    CASE end.driver = "pending" -> PendingReceive(i, d, m)
      [] end.driver = "legacy" -> LegacyReceive(i, d, end, m)
      [] end.driver \in {"modern", "bypass"} -> ModernReceive(i, d, end, m)

-----------------------------------------------------------------------------
Ends == Daemon \X Daemon

(* close_meta_connection: the peer reads what was sent, then the end.      *)
CloseEnds(closed) ==
    /\ conn' = [i \in Daemon |-> [d \in Daemon |-> IF <<i, d>> \in closed THEN Closed ELSE conn[i][d]]]
    /\ wire' = [i \in Daemon |-> [d \in Daemon |->
                  IF <<i, d>> \in closed THEN <<>>
                  ELSE IF <<i, Peer(d)>> \in closed /\ conn[i][d] # Closed
                  THEN Append(wire[i][d], Eof) ELSE wire[i][d]]]

(* connect_peer: not while a connection bears the peer's name.             *)
Connect(i) ==
    /\ i \in setting.initiators
    /\ conn[i] = [d \in Daemon |-> Closed]
    /\ \A j \in Daemon : conn[j][i] \in {Closed, Pending}
    /\ DriverForPeer(i, TRUE) # NoEnd
    /\ conn' = [conn EXCEPT ![i] = [d \in Daemon |-> IF d = i THEN DriverForPeer(i, TRUE) ELSE Pending]]
    /\ wire' = [wire EXCEPT ![i][Peer(i)] = <<Id(DriverForPeer(i, TRUE).minor)>>]
    /\ UNCHANGED <<setting, knows, giveUps>>

(* accept_legacy_ed25519_upgrade: a key that contradicts the one known is  *)
(* refused.                                                                *)
LearnKeyForgets(d, step) == [step EXCEPT !.learned = FALSE]

LearnKey(d, step) ==
    IF step.learned /\ knows[d] = "wrong" THEN Fail ELSE step

(* apply_meta_step; an activated connection replaces an earlier one        *)
(* (close_existing_connection_for_new_ack).                                *)
ApplyStep(i, d, step) ==
    LET duplicate == {j \in Daemon \ {i} : step.end.state = "Activated"
                                           /\ conn[j][d].state = "Activated"}
    IN  /\ conn' = [j \in Daemon |-> [e \in Daemon |->
                      IF j = i /\ e = d THEN step.end
                      ELSE IF j \in duplicate /\ e = d THEN Closed
                      ELSE conn[j][e]]]
        /\ wire' = [j \in Daemon |-> [e \in Daemon |->
                      IF j = i /\ e = d THEN Tail(wire[i][d])
                      ELSE IF j = i THEN IF conn[i][e] = Closed THEN <<>> ELSE wire[i][e] \o step.sends
                      ELSE IF j \in duplicate /\ e = d THEN <<>>
                      ELSE IF j \in duplicate /\ conn[j][e] # Closed THEN Append(wire[j][e], Eof)
                      ELSE wire[j][e]]]
        /\ knows' = IF step.learned THEN [knows EXCEPT ![d] = "right"] ELSE knows

(* read_meta_connection_once                                               *)
Receive(i, d) ==
    LET step == LearnKey(d, Received(i, d, conn[i][d], Head(wire[i][d])))
    IN  /\ wire[i][d] # <<>>
        /\ conn[i][d] # Closed
        /\ IF Head(wire[i][d]) = Eof \/ step = Fail
           THEN CloseEnds({<<i, d>>}) /\ UNCHANGED knows
           ELSE ApplyStep(i, d, step)
        /\ UNCHANGED <<setting, giveUps>>

(* close_requested once the output is drained                              *)
FinishClose(i, d) ==
    /\ conn[i][d].closing
    /\ CloseEnds({<<i, d>>})
    /\ UNCHANGED <<setting, knows, giveUps>>

(* send_meta_keepalives_at: an end that is not activated is given up after *)
(* PingTimeout.                                                            *)
GiveUp(i, d) ==
    /\ giveUps < MaxGiveUps
    /\ conn[i][d] # Closed /\ conn[i][d].state # "Activated"
    /\ CloseEnds({<<i, d>>})
    /\ giveUps' = giveUps + 1
    /\ UNCHANGED <<setting, knows>>

(* The network loses the connection with what is on its way.               *)
Break(i) ==
    /\ giveUps < MaxGiveUps
    /\ \E d \in Daemon : conn[i][d] # Closed
    /\ wire' = [wire EXCEPT ![i] = [d \in Daemon |-> IF conn[i][d] = Closed THEN <<>> ELSE <<Eof>>]]
    /\ giveUps' = giveUps + 1
    /\ UNCHANGED <<setting, knows, conn>>

AuthInit ==
    /\ \E world \in AuthWorlds :
        /\ setting = [mode |-> world.mode, rsa |-> world.rsa, options |-> world.options,
                      initiators |-> world.initiators]
        /\ knows = [d \in Daemon |-> IF world.mode[d] = "modern" THEN world.ed[d] ELSE "none"]
    /\ conn = [i \in Daemon |-> [d \in Daemon |-> Closed]]
    /\ wire = [i \in Daemon |-> [d \in Daemon |-> <<>>]]
    /\ giveUps = 0

AuthNext == \/ \E i, d \in Daemon : Receive(i, d) \/ FinishClose(i, d) \/ GiveUp(i, d)
            \/ \E i \in Daemon : Connect(i) \/ Break(i)

(* The event loop serves every connection; the retry timer opens one anew. *)
AuthFairness == /\ \A i, d \in Daemon : WF_authVars(Receive(i, d)) /\ WF_authVars(FinishClose(i, d))
                /\ \A i \in Daemon : WF_authVars(Connect(i))

-----------------------------------------------------------------------------
Up(i) == \A d \in Daemon : conn[i][d].state = "Activated"

(* Invariant: the two ends of an activated connection have agreed: they    *)
(* speak the same protocol, give the edge the same weight and options, and *)
(* each holds the right key of the other for that protocol.                *)
EndsAgree ==
    \A i \in Daemon : Up(i) =>
        LET mine == conn[i][i]
            his == conn[i][Peer(i)]
        IN  /\ mine.driver = his.driver /\ mine.negotiated = his.negotiated
            /\ mine.weight = his.weight /\ mine.options = his.options
            /\ mine.driver = "modern" => \A d \in Daemon : knows[d] = "right"
            /\ mine.driver = "legacy" => \A d \in Daemon : setting.rsa[d] = "right"

(* Action property: a daemon that holds an Ed25519 key of its peer does    *)
(* not start to talk to it by the legacy protocol for good; only the       *)
(* upgrade, which ends in a new connection, may still use it.              *)
NoDriverRollsBack ==
    \A i, d \in Daemon :
        conn'[i][d].driver = "legacy" /\ conn[i][d].driver # "legacy" /\ knows[d] # "none"
            => conn'[i][d].negotiated # LegacyMinor
NoRollback ==
    [][NoDriverRollsBack]_authVars

(* Whether what the daemons know now lets i reach the other: the reference *)
(* for HasConnected.                                                       *)
CanConnect(i) ==
    LET p == Peer(i)
        rsa == \A d \in Daemon : setting.rsa[d] = "right"
    IN  IF Bypass(i) \/ Bypass(p) THEN Bypass(i) /\ Bypass(p)
        ELSE IF ~Experimental(i) THEN rsa /\ knows[p] = "none"
        ELSE IF ~Experimental(p) THEN FALSE
        ELSE IF knows[i] = "none" THEN rsa /\ knows[p] # "wrong"
        ELSE knows[i] = "right" /\ knows[p] = "right"

(* Liveness, for daemons of which one opens the connections: in the end    *)
(* they are connected or the keys forbid it.  In particular an upgrade is  *)
(* followed by a connection that uses the keys it exchanged, unless it was *)
(* cut after one of the two had its key.                                   *)
HasConnected ==
    Cardinality(setting.initiators) = 1 =>
        \A i \in setting.initiators : Up(i) \/ ~CanConnect(i)

=============================================================================
