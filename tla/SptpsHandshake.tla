--------------------------- MODULE SptpsHandshake ---------------------------
(***************************************************************************)
(* A session of the SPTPS protocol (SptpsHandshakeSession of               *)
(* tinc-runtime/src/sptps.rs) as a value, and what its operations do to    *)
(* it.  The two ends exchange ephemeral keys (KEX), sign both (SIG) and    *)
(* derive a key for each direction; a later, secondary exchange is         *)
(* encrypted with the old keys and ends with an ACK each, after which that *)
(* direction uses the new key.                                             *)
(*                                                                         *)
(* An ephemeral key with its nonce is a number that no other exchange      *)
(* uses.  Cryptography is perfect: a signature verifies only against what  *)
(* was signed, and a record opens only with the key it was sealed with.    *)
(***************************************************************************)
EXTENDS Naturals, Sequences

NoKex == 0
NoKey == <<>>

(* What a handshake record carries.                                        *)
Kex(kex) == [type |-> "KEX", kex |-> kex]
Sig(initiator, mine, his, label) ==
    [type |-> "SIG", initiator |-> initiator, mine |-> mine, his |-> his,
     label |-> label]
Ack == [type |-> "ACK"]
AppData == [type |-> "DATA"]

(* SptpsKeyMaterial: a key for each direction, from both ephemeral keys.   *)
Material(s) ==
    IF s.initiator THEN <<s.my_kex, s.his_kex, s.label>>
                   ELSE <<s.his_kex, s.my_kex, s.label>>

(* The key that the initiator (or the responder) seals its records with.   *)
SealedBy(initiator, material) == Append(material, initiator)
OutKey(s, material) == SealedBy(s.initiator, material)
InKey(s, material) == SealedBy(~s.initiator, material)

(* The ephemeral keys of which a trace is left in a key or a payload.      *)
KexIn(key) == IF key = NoKey THEN {} ELSE {key[1], key[2]}

KexOf(payload) ==
    CASE payload.type = "KEX" -> {payload.kex}
      [] payload.type = "SIG" -> {payload.mine, payload.his}
      [] OTHER -> {}

(* encode: only records in plaintext are told apart by their number, for   *)
(* the others see SptpsReplayWindow.                                       *)
Encode(s, payload) ==
    [key |-> s.out_key, seq |-> IF s.out_key = NoKey THEN s.out_seq ELSE 0,
     payload |-> payload]

Sent(s) == IF s.out_key = NoKey THEN [s EXCEPT !.out_seq = @ + 1] ELSE s

QueueHandshake(s, payload) ==
    [Sent(s) EXCEPT !.outbound = Append(@, Encode(s, payload))]

SendKex(s, kex) == [QueueHandshake(s, Kex(kex)) EXCEPT !.my_kex = kex]

SendSig(s) == QueueHandshake(s, Sig(s.initiator, s.my_kex, s.his_kex, s.label))

(* A session that was started, its KEX queued.                             *)
Started(initiator, label, kex) ==
    SendKex([initiator |-> initiator, label |-> label, state |-> "Kex",
             my_kex |-> NoKex, his_kex |-> NoKex, in_key |-> NoKey,
             out_key |-> NoKey, pending_key |-> NoKey, in_seq |-> 0,
             out_seq |-> 0, outbound |-> <<>>], kex)

IsEstablished(s) == s.in_key # NoKey /\ s.out_key # NoKey

Drained(s) == [s EXCEPT !.outbound = <<>>]

-----------------------------------------------------------------------------
(* The outcome of an operation: the session after it, whether it succeeded *)
(* and whether it reported HandshakeComplete.  A session that fails keeps  *)
(* what it had done until then.                                            *)
Failed(s) == [s |-> s, ok |-> FALSE, complete |-> FALSE]
Went(s) == [s |-> s, ok |-> TRUE, complete |-> FALSE]
Completed(s) == [s |-> s, ok |-> TRUE, complete |-> TRUE]

(* Mutant: nobody signs the keys that were exchanged.                      *)
ReceiveKexUnsigned(s, payload) ==
    IF s.his_kex # NoKex \/ payload.type # "KEX" THEN Failed(s)
    ELSE Went([s EXCEPT !.his_kex = payload.kex, !.state = "Sig"])

ReceiveKex(s, payload) ==
    LET known == [s EXCEPT !.his_kex = payload.kex]
        signed == IF s.initiator THEN SendSig(known) ELSE known
    IN  IF s.his_kex # NoKex \/ payload.type # "KEX" THEN Failed(s)
        ELSE Went([signed EXCEPT !.state = "Sig"])

(* Mutant: an end seals its ACK with the key that the ACK announces.       *)
ReceiveSigAckLate(s, payload) ==
    LET secondary == s.out_key # NoKey
        material == Material(s)
        signed == IF s.initiator THEN s ELSE SendSig(s)
        keyed == [signed EXCEPT !.my_kex = NoKex, !.his_kex = NoKex,
                                !.out_key = OutKey(s, material)]
    IN  IF payload # Sig(~s.initiator, s.his_kex, s.my_kex, s.label) THEN Failed(s)
        ELSE IF secondary
          THEN Went([QueueHandshake(keyed, Ack) EXCEPT !.pending_key = material,
                                                       !.state = "Ack"])
          ELSE Completed([keyed EXCEPT !.in_key = InKey(s, material),
                                       !.state = "SecondaryKex"])

(* In a secondary exchange the ACK is the last record under the old key,   *)
(* and the key for what comes in stays until the other's ACK.              *)
ReceiveSig(s, payload) ==
    LET secondary == s.out_key # NoKey
        material == Material(s)
        signed == IF s.initiator THEN s ELSE SendSig(s)
        cleared == [signed EXCEPT !.my_kex = NoKex, !.his_kex = NoKex]
        acked == IF ~secondary THEN cleared
                 ELSE [QueueHandshake(cleared, Ack) EXCEPT !.pending_key = material]
        keyed == [acked EXCEPT !.out_key = OutKey(s, material)]
    IN  IF payload # Sig(~s.initiator, s.his_kex, s.my_kex, s.label) THEN Failed(s)
        ELSE IF secondary THEN Went([keyed EXCEPT !.state = "Ack"])
        ELSE Completed([keyed EXCEPT !.in_key = InKey(s, material),
                                     !.state = "SecondaryKex"])

ReceiveAck(s, payload) ==
    IF payload # Ack \/ s.pending_key = NoKey THEN Failed(s)
    ELSE Completed([s EXCEPT !.in_key = InKey(s, s.pending_key),
                             !.pending_key = NoKey, !.state = "SecondaryKex"])

(* An established session answers a KEX with its own, the number `kex`.    *)
ReceiveHandshake(s, payload, kex) ==
    CASE s.state = "SecondaryKex" ->
            IF s.my_kex # NoKex THEN Failed(s)
                                ELSE ReceiveKex(SendKex(s, kex), payload)
      [] s.state = "Kex" -> ReceiveKex(s, payload)
      [] s.state = "Sig" -> ReceiveSig(s, payload)
      [] s.state = "Ack" -> ReceiveAck(s, payload)

(* decode: in plaintext, exactly the next number is taken.                 *)
Opens(s, record) ==
    record.key = s.in_key /\ (s.in_key = NoKey => record.seq = s.in_seq)

Opened(s) == IF s.in_key = NoKey THEN [s EXCEPT !.in_seq = @ + 1] ELSE s

ReceiveDatagram(s, record, kex) ==
    IF ~Opens(s, record) THEN Failed(s)
    ELSE IF record.payload # AppData
           THEN ReceiveHandshake(Opened(s), record.payload, kex)
    ELSE IF s.in_key = NoKey THEN Failed(Opened(s))
    ELSE Went(Opened(s))

CanForceKex(s) == IsEstablished(s) /\ s.state = "SecondaryKex"

ForceKex(s, kex) ==
    LET forced == IF s.my_kex = NoKex THEN SendKex(s, kex) ELSE s
    IN  [forced EXCEPT !.state = "Kex"]
=============================================================================
