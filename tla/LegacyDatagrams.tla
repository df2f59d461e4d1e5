--------------------------- MODULE LegacyDatagrams ---------------------------
(***************************************************************************)
(* Datagrams of the legacy protocol, from one daemon to another            *)
(* (tinc-runtime/src/transport.rs): what each end derives from an ANS_KEY  *)
(* message about cipher, digest and compression, how a packet is made a    *)
(* datagram and made a packet again, and whether a datagram of an unknown  *)
(* address is recognised.  When keys are exchanged is in LegacyKeys, which *)
(* numbers the replay window takes in LegacyReplayWindow.                  *)
(*                                                                         *)
(* A key is a number, with the length of its material.  A ciphertext that  *)
(* is deciphered with another key is noise, and so may be a compressed     *)
(* packet.                                                                 *)
(***************************************************************************)
EXTENDS Integers

CONSTANTS
    Settings,       \* what a receiver may be configured with: cipher, digest, macLength, level
    ForeignAnswers, \* ANS_KEY messages that other programs may send
    SenderLzo,      \* whether the sender has LZO built in
    Sizes,          \* sizes of packets
    MaxKeys, MaxSent    \* bounds

(* Numbers and names, as parsing leaves them.                              *)
KnownConfigurations ==
    /\ Settings \subseteq [cipher : STRING, digest : Int, macLength : Nat, level : Int]
    /\ ForeignAnswers \subseteq
          [key : Int, keyLen : Int, cipher : Int, digest : Int, macLength : Int, level : Int]
    /\ Sizes \subseteq Nat
ASSUME DatagramAssumption == KnownConfigurations

VARIABLES
    incoming,       \* receiver: the direction of what it gets, or NoDirection
    outgoing,       \* sender: the direction of what it sends, or NoDirection
    answer,         \* the last ANS_KEY, or NoDirection when it was taken
    sentSeqno,      \* sender: the number of the last datagram
    receivedSeqno,  \* receiver: the highest number accepted
    datagram,       \* the one on its way, or NoDirection
    keys            \* how many keys there have been

datagramVars == <<incoming, outgoing, answer, sentSeqno, receivedSeqno, datagram, keys>>

NoDirection == [key |-> 0]
SeqnoLen == 4
AesBlock == 16
UsizeMax == 1000000

-----------------------------------------------------------------------------
(* Algorithms by the numbers of OpenSSL; what is neither none nor known is *)
(* "other", which OpenSSL may know.                                        *)
CipherOf(nid) == CASE nid <= 0 -> "none" [] nid = 419 -> "aes128" [] nid = 423 -> "aes192"
                   [] nid = 427 -> "aes256" [] OTHER -> "other"
CipherNid(cipher) == CASE cipher = "none" -> 0 [] cipher = "aes128" -> 419
                       [] cipher = "aes192" -> 423 [] cipher = "aes256" -> 427 [] OTHER -> 44
KeyMaterialLen(cipher) ==
    CASE cipher = "aes128" -> 16 + 16 [] cipher = "aes192" -> 24 + 16
      [] cipher = "aes256" -> 32 + 16 [] cipher = "other" -> 24 + 8 [] OTHER -> 0

(* A direction without a cipher has a key of one byte nevertheless.        *)
KeyLen(cipher) == IF cipher = "none" THEN 1 ELSE KeyMaterialLen(cipher)

MaximumLength(nid) == CASE nid = 64 -> 20 [] nid = 672 -> 32 [] nid = 673 -> 48
                        [] nid = 674 -> 64 [] OTHER -> 16
EffectiveLength(nid, requested) ==
    IF requested > MaximumLength(nid) THEN MaximumLength(nid) ELSE requested

NoDigest == [nid |-> 0, length |-> 0]
DigestOf(nid, length) ==
    IF nid <= 0 THEN NoDigest ELSE [nid |-> nid, length |-> EffectiveLength(nid, length)]
KnownDigest(digest) == digest.nid \in {0, 64, 672, 673, 674}

ZlibLevel(level) == level \in 1 .. 9
IsLzo(level) == level \in {10, 11}

-----------------------------------------------------------------------------
(* LegacyPacketDirection::from_legacy_answer_key: what the message says,   *)
(* or nothing when one part of it cannot be.  Of a key that is too long    *)
(* the beginning is taken.                                                 *)
Direction(m, lzo) ==
    LET cipher == CipherOf(m.cipher)
        digest == DigestOf(m.digest, m.macLength)
    IN  IF \/ m.level \notin 0 .. 12
           \/ IsLzo(m.level) /\ ~lzo
           \/ cipher = "other"
           \/ ~KnownDigest(digest)
           \/ m.macLength # UsizeMax /\ m.macLength # digest.length
           \/ m.keyLen < KeyLen(cipher)
        THEN NoDirection
        ELSE [key |-> m.key, level |-> m.level, cipher |-> cipher, digest |-> digest]

(* The message of generate_legacy_answer_key_message_with; the digest of   *)
(* the configuration is as LegacyDigest::from_name_and_length makes it.    *)
OwnDigest(s) == DigestOf(s.digest, s.macLength)
AnswerKey(s, key) ==
    [key |-> key, keyLen |-> KeyLen(s.cipher), cipher |-> CipherNid(s.cipher),
     digest |-> OwnDigest(s).nid, macLength |-> OwnDigest(s).length, level |-> s.level]

-----------------------------------------------------------------------------
(* A packet becomes a datagram: compressed, numbered, enciphered, and with *)
(* a digest at its end.  What compression makes of the size is not known.  *)
CompressedLen(level, size) == IF level = 0 THEN {size} ELSE {1, size + 2}
CipherLen(cipher, len) == IF cipher = "none" THEN len ELSE (len \div AesBlock + 1) * AesBlock

Datagram(out, seqno, size, compressed) ==
    [key |-> out.key, cipher |-> out.cipher, digest |-> out.digest, level |-> out.level,
     seqno |-> seqno, size |-> size,
     len |-> CipherLen(out.cipher, SeqnoLen + compressed) + out.digest.length]

(* verify_and_strip: without a digest, or with one cut down to nothing,    *)
(* everything is taken.                                                    *)
VerifiesDigest(in, g) ==
    \/ in.digest.length = 0
    \/ g.len >= in.digest.length /\ g.digest = in.digest /\ g.key = in.key

(* verifies_incoming_source_for: whether a datagram from an unknown        *)
(* address is taken for one of this sender                                 *)
VerifiesSource(in, g) ==
    /\ in # NoDirection /\ in.digest.nid # 0
    /\ g.len >= SeqnoLen + in.digest.length
    /\ VerifiesDigest(in, g)

(* The ciphertext as the receiver reads it is what was sent, is refused,   *)
(* or, when nothing proves who sent it, may be noise.                      *)
SameFrame(in, g) ==
    g.cipher = in.cipher /\ g.digest.length = in.digest.length /\ (in.cipher = "none" \/ g.key = in.key)
Decrypted(in, g) ==
    IF SameFrame(in, g) THEN {"frame"}
    ELSE IF in.cipher # "none" /\ (g.len - in.digest.length) % AesBlock # 0 THEN {"error"}
    ELSE {"error", "noise"}

(* What the deciphered text is.  Every zlib level reads what the others    *)
(* write.                                                                  *)
Uncompressed(in, g) ==
    UNION {IF d # "frame" THEN {d}
           ELSE IF g.level = in.level \/ (ZlibLevel(g.level) /\ ZlibLevel(in.level)) THEN {"packet"}
           ELSE {"error", "noise"}
              : d \in Decrypted(in, g)}

(* Mutant: the digest is cut off and not compared.                         *)
ContentsUnverified(in, g) ==
    IF g.len < SeqnoLen + in.digest.length THEN {"error"} ELSE Uncompressed(in, g)

(* LegacyUdpCodec::decode, what comes out: the packet that was sent, an    *)
(* error or noise.                                                         *)
Contents(in, g) ==
    IF g.len < SeqnoLen + in.digest.length \/ ~VerifiesDigest(in, g) THEN {"error"}
    ELSE Uncompressed(in, g)

-----------------------------------------------------------------------------
(* The receiver makes a key and takes it for what it gets; the sender is   *)
(* told, by this receiver or by another program with its name.             *)
GenerateAnswer(s) ==
    /\ keys < MaxKeys
    /\ keys' = keys + 1
    /\ LET m == AnswerKey(s, keys')
           in == Direction(m, TRUE)
       IN  IF in = NoDirection THEN UNCHANGED <<incoming, receivedSeqno, answer>>
           ELSE incoming' = in /\ receivedSeqno' = 0 /\ answer' = m
    /\ UNCHANGED <<outgoing, sentSeqno, datagram>>

OtherAnswer(m) ==
    /\ keys < MaxKeys
    /\ keys' = keys + 1
    /\ answer' = [m EXCEPT !.key = keys']
    /\ UNCHANGED <<incoming, receivedSeqno, outgoing, sentSeqno, datagram>>

(* apply_legacy_answer_key: a message that cannot be leaves no key.        *)
TakeAnswer ==
    /\ answer # NoDirection
    /\ outgoing' = Direction(answer, SenderLzo)
    /\ sentSeqno' = 0
    /\ answer' = NoDirection
    /\ UNCHANGED <<incoming, receivedSeqno, datagram, keys>>

(* LegacyUdpCodec::encode                                                  *)
EncodeDatagram(size) ==
    /\ outgoing # NoDirection
    /\ sentSeqno < MaxSent
    /\ sentSeqno' = sentSeqno + 1
    /\ \E n \in CompressedLen(outgoing.level, size) :
          datagram' = Datagram(outgoing, sentSeqno', size, n)
    /\ UNCHANGED <<incoming, receivedSeqno, outgoing, answer, keys>>

(* LegacyUdpCodec::decode: the number is looked at, and taken, before the  *)
(* packet is decompressed; noise has any number.                           *)
Decode ==
    /\ datagram # NoDirection /\ incoming # NoDirection
    /\ \E contents \in Contents(incoming, datagram) :
          receivedSeqno' \in
             IF contents = "noise" THEN 0 .. MaxSent
             ELSE {IF SameFrame(incoming, datagram) /\ VerifiesDigest(incoming, datagram)
                      /\ datagram.seqno > receivedSeqno
                   THEN datagram.seqno ELSE receivedSeqno}
    /\ datagram' = NoDirection
    /\ UNCHANGED <<incoming, outgoing, answer, sentSeqno, keys>>

DatagramInit ==
    /\ incoming = NoDirection /\ outgoing = NoDirection /\ answer = NoDirection /\ datagram = NoDirection
    /\ sentSeqno = 0 /\ receivedSeqno = 0 /\ keys = 0

DatagramNext ==
    \/ \E s \in Settings : GenerateAnswer(s)
    \/ \E m \in ForeignAnswers : OtherAnswer(m)
    \/ \E size \in Sizes : EncodeDatagram(size)
    \/ TakeAnswer \/ Decode

-----------------------------------------------------------------------------
(* A sender that takes the receiver's answer makes datagrams that the      *)
(* receiver opens, whatever cipher, digest length and compression it is    *)
(* configured with and whichever key it had before                         *)
(* (from_legacy_answer_key at both ends, encode, decode).                  *)
CurrentDatagramsOpen ==
    datagram # NoDirection /\ incoming # NoDirection /\ datagram.key = incoming.key
        => /\ Contents(incoming, datagram) = {"packet"}
           /\ incoming.digest.length > 0 => datagram.seqno > receivedSeqno

(* A datagram of an earlier key is neither opened nor taken for a proof of *)
(* who sent it, as long as the receiver asks for a digest                  *)
(* (verify_and_strip, verifies_incoming_source_for).                       *)
OldDatagramsAreRefused ==
    datagram # NoDirection /\ incoming # NoDirection /\ incoming.digest.length > 0 /\ datagram.key # incoming.key
        => Contents(incoming, datagram) = {"error"} /\ ~VerifiesSource(incoming, datagram)

(* Every answer a daemon makes is one that it takes itself and that a      *)
(* sender with the same algorithms takes.                                  *)
OwnAnswersAreTaken ==
    answer # NoDirection /\ incoming # NoDirection /\ answer.key = incoming.key
        => Direction(answer, TRUE) = incoming

DatagramsFit == CurrentDatagramsOpen /\ OldDatagramsAreRefused /\ OwnAnswersAreTaken
=============================================================================
