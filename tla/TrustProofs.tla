---------------------------- MODULE TrustProofs ----------------------------
(***************************************************************************)
(* Proofs about how daemons come to know and to trust each other's keys,   *)
(* and about the files they know them from.                                *)
(*                                                                         *)
(* Meta authentication: the two ends of an activated connection agree, and *)
(* a daemon that knows a key of its peer does not roll back to the legacy  *)
(* protocol.  The invariant looks at one connection from one side at a     *)
(* time: what an end knows by itself, what the other can have sent, and    *)
(* what the end can conclude about the driver of the other from what it    *)
(* has read.                                                               *)
(*                                                                         *)
(* Key files: what fsck says of the keys is what the daemon will find, and *)
(* its repair supplies the keys that peers lack.                           *)
(*                                                                         *)
(* Invitations: a cookie works once, who has joined is known to the        *)
(* daemon under the key it made, and what the joiner has written is what   *)
(* the daemon has sent it.                                                 *)
(*                                                                         *)
(* Configuration: what the tool has written is what the daemon reads, and  *)
(* a reload takes all of it or nothing.                                    *)
(***************************************************************************)
EXTENDS MetaAuth, KeyFiles, Invitations, ConfigFiles, BasicLemmas, FiniteSetTheorems

-----------------------------------------------------------------------------
(***************************************************************************)
(* Meta authentication.                                                    *)
(***************************************************************************)

(* What e can have sent: its acknowledgement carries its weight and its    *)
(* options, and a METAKEY opens only if it was made with the right key.    *)
Types == {"ID", "KEX", "SIG", "ACK", "ACK_KEY", "METAKEY", "CHALLENGE", "CHAL_REPLY",
          "TERMREQ", "EOF"}

Said(e) ==
    {m \in [type : Types, minor : {LegacyMinor, UpgradeMinor, ProtMinor}, good : BOOLEAN,
            weight : {0, Weight[e]}, options : {{}, setting.options[e]}] :
        /\ m.type = "ACK" => m.weight = Weight[e] /\ m.options = setting.options[e]
        /\ (m.type = "METAKEY" /\ m.good) => setting.rsa[e] = "right"}

(* ... with this driver.                                                   *)
SaidBy(e, driver) ==
    {m \in Said(e) :
        /\ m.type \in {"KEX", "SIG"} => driver = "modern"
        /\ m.type \in {"METAKEY", "CHALLENGE", "CHAL_REPLY", "ACK_KEY", "TERMREQ"}
              => driver = "legacy"}

(* The weight and the options on which d and its peer agree.               *)
AgreedWeight(d) == (Weight[d] + Weight[Peer(d)]) \div 2

AgreedOptions(d) ==
    LET both == setting.options[d] \intersect setting.options[Peer(d)]
    IN  (setting.options[d] \union setting.options[Peer(d)])
            \ (IF "pmtu" \in both THEN {} ELSE {"pmtu"})

Drivers == {"none", "closed", "pending", "modern", "bypass", "legacy"}

States == {"ExpectId", "Handshake", "ExpectMetaKey", "ExpectChallenge",
           "ExpectChallengeReply", "ExpectAck", "UpgradeTerminating", "Activated"}

EndType(d) ==
    [driver : Drivers, state : States, minor : {LegacyMinor, UpgradeMinor, ProtMinor},
     upgrade : BOOLEAN, force : BOOLEAN, negotiated : {LegacyMinor, UpgradeMinor},
     good : BOOLEAN, closing : BOOLEAN, weight : {0, AgreedWeight(d)},
     options : {{}, AgreedOptions(d)}]

(* Only a daemon that speaks both protocols upgrades.                      *)
SpeaksBoth(d) == Experimental(d) /\ ~Bypass(d)

(* An end knows by itself what its state says: the keys it has checked and *)
(* the acknowledgement it has read.                                        *)
EndKnows(d, end) ==
    /\ end \in EndType(d)
    /\ end.state = "Activated" =>
          /\ end.negotiated = LegacyMinor
          /\ end.weight = AgreedWeight(d) /\ end.options = AgreedOptions(d)
    /\ end.driver \in {"modern", "bypass"} => end.negotiated = LegacyMinor
    /\ end.driver = "bypass" => end.state \in {"ExpectId", "ExpectAck", "Activated"}
    /\ end.driver = "modern" /\ end.state \in {"ExpectAck", "Activated"} => knows[d] = "right"
    /\ end.driver = "legacy" =>
          /\ ~Bypass(d) /\ (Experimental(d) \/ end.force)
          /\ end.negotiated = UpgradeMinor => SpeaksBoth(d)
          /\ end.state \notin {"ExpectId", "ExpectMetaKey"} /\ end.good =>
                setting.rsa[Peer(d)] = "right"
          /\ end.state = "Activated" => end.good

(* An end waits for an ID only where the connection was opened; the other  *)
(* end has no driver until it has read one.                                *)
EndOK(i, d, end) ==
    /\ EndKnows(d, end)
    /\ end.driver \in {"pending", "modern", "bypass", "legacy"}
    /\ end.driver = "pending" => d # i /\ end = Pending
    /\ end.driver # "pending" /\ end.state = "ExpectId" => d = i

(* Nothing that counts is read after the end of a stream.                  *)
Gone(w) == w # <<>> /\ w[1].type = "EOF"

Clash(w) == w # <<>> /\ w[1].type \in {"KEX", "METAKEY", "EOF"}

(* What the two open ends know of each other: the kind of the message that *)
(* follows the ID tells the driver of the peer, and an end that skips all  *)
(* checks cannot get past a message that only the others send.             *)
PairOK(mine, his, w, v) ==
    /\ mine.driver = "modern" /\ mine.state \in {"ExpectAck", "Activated"} => his.driver = "modern"
    /\ mine.driver = "legacy" /\ mine.state \notin {"ExpectId", "ExpectMetaKey"} =>
          his.driver = "legacy"
    /\ mine.driver = "bypass" /\ mine.state = "Activated" => his.driver = "bypass"
    /\ his.driver = "pending" =>
          /\ mine.driver # "pending" /\ mine.state = "ExpectId"
          /\ w = <<>> \/ Gone(w)
          /\ Gone(v) \/ (Len(v) = 1 /\ v[1].type = "ID")
    /\ mine.driver = "bypass" /\ his.driver \in {"modern", "legacy"} =>
          /\ mine.state = "ExpectId" =>
                \/ Gone(w)
                \/ Len(w) >= 2 /\ w[1].type = "ID" /\ w[2].type \in {"KEX", "METAKEY"}
          /\ mine.state = "ExpectAck" =>
                IF his.state = "ExpectId" THEN w = <<>> \/ Gone(w) ELSE Clash(w)

(* One side of a connection: the end of d, what is on its way to it (w),   *)
(* the end of its peer and what is on its way there (v).                   *)
SideOK(i, d, mine, his, w, v) ==
    /\ IF mine = Closed THEN w = <<>>
       ELSE EndOK(i, d, mine) /\ w \in Seq(Said(Peer(d)))
    /\ mine # Closed /\ his # Closed =>
          /\ w \in Seq(SaidBy(Peer(d), his.driver))
          /\ PairOK(mine, his, w, v)

ConnOK(i, c, w) ==
    \A d \in Daemon : SideOK(i, d, c[d], c[Peer(d)], w[d], w[Peer(d)])

Shape ==
    /\ DOMAIN conn = Daemon /\ DOMAIN wire = Daemon /\ DOMAIN knows = Daemon
    /\ \A i \in Daemon : DOMAIN conn[i] = Daemon /\ DOMAIN wire[i] = Daemon

(* The inductive invariant.                                                *)
IInv ==
    /\ Shape
    /\ \A d \in Daemon : knows[d] # "none" => SpeaksBoth(d)
    /\ \A i \in Daemon : ConnOK(i, conn[i], wire[i])

-----------------------------------------------------------------------------
(* Each is the peer of the other.                                         *)
LEMMA Peers ==
    ASSUME TwoDaemons, NEW d \in Daemon
    PROVE  /\ Peer(d) \in Daemon /\ Peer(d) # d
           /\ Peer(Peer(d)) = d
           /\ \A x \in Daemon : x = d \/ x = Peer(d)
<1>1. PICK a, b : a # b /\ Daemon = {a, b}
  BY DEF TwoDaemons
<1>2. \A x \in Daemon : \E p \in Daemon : p # x
  BY <1>1
<1>3. \A x \in Daemon : Peer(x) \in Daemon /\ Peer(x) # x
  BY <1>2 DEF Peer
<1> QED BY <1>1, <1>3

(* What a daemon may send with which driver.                               *)
LEMMA MaySend ==
    ASSUME NEW d
    PROVE  /\ \A x : Eof \in SaidBy(d, x) /\ AckConnection(d) \in SaidBy(d, x)
           /\ \A x : \A n \in {LegacyMinor, UpgradeMinor, ProtMinor} : Id(n) \in SaidBy(d, x)
           /\ Msg("KEX") \in SaidBy(d, "modern") /\ Msg("SIG") \in SaidBy(d, "modern")
           /\ \A t \in {"METAKEY", "CHALLENGE", "CHAL_REPLY"} :
                 Sealed(t, setting.rsa[d]) \in SaidBy(d, "legacy")
           /\ AckKey \in SaidBy(d, "legacy") /\ Msg("TERMREQ") \in SaidBy(d, "legacy")
<1>1. \A x : Eof \in SaidBy(d, x)
  BY DEF SaidBy, Said, Types, Eof, Msg, LegacyMinor
<1>2. \A x : AckConnection(d) \in SaidBy(d, x)
  BY DEF SaidBy, Said, Types, AckConnection, Msg, LegacyMinor
<1>3. \A x : \A n \in {LegacyMinor, UpgradeMinor, ProtMinor} : Id(n) \in SaidBy(d, x)
  BY DEF SaidBy, Said, Types, Id, Msg
<1>4. Msg("KEX") \in SaidBy(d, "modern") /\ Msg("SIG") \in SaidBy(d, "modern")
  BY DEF SaidBy, Said, Types, Msg, LegacyMinor
<1>5. \A t \in {"METAKEY", "CHALLENGE", "CHAL_REPLY"} :
          Sealed(t, setting.rsa[d]) \in SaidBy(d, "legacy")
  BY DEF SaidBy, Said, Types, Sealed, Msg, LegacyMinor
<1>6. AckKey \in SaidBy(d, "legacy") /\ Msg("TERMREQ") \in SaidBy(d, "legacy")
  BY DEF SaidBy, Said, Types, AckKey, Msg, LegacyMinor
<1> QED BY <1>1, <1>2, <1>3, <1>4, <1>5, <1>6

(* What a driver makes of a message that it does not refuse: it goes on    *)
(* with the checks that the message allows, and sends only its own.        *)
StepAnswers(i, d, end, m, s) ==
    /\ EndKnows(d, s.end)
    /\ s.end.driver = end.driver /\ s.end.state # "ExpectId"
    /\ s.sends \in Seq(SaidBy(d, end.driver))
    /\ m.type # "EOF"
    /\ s.learned => SpeaksBoth(d)
    /\ end.driver = "modern" /\ s.end.state \in {"ExpectAck", "Activated"} =>
          end.state \in {"ExpectAck", "Activated"} \/ m.type = "SIG"
    /\ end.driver = "legacy" /\ s.end.state # "ExpectMetaKey" =>
          end.state \notin {"ExpectId", "ExpectMetaKey"} \/ m.type = "METAKEY"
    /\ end.driver = "bypass" =>
          \/ end.state = "ExpectId" /\ m.type = "ID" /\ s.end.state = "ExpectAck"
          \/ end.state = "ExpectAck" /\ m.type = "ACK" /\ s.end.state = "Activated"
    /\ end.driver = "modern" /\ end.state = "ExpectId" => s.sends = <<Msg("KEX")>>
    /\ end.driver = "legacy" /\ end.state = "ExpectId" =>
          s.sends = (IF i = d THEN <<>> ELSE <<Id(end.minor)>>) \o <<Sealed("METAKEY", setting.rsa[d])>>

(* receive_id, receive_sptps_record and receive_ack of the drivers that    *)
(* speak SPTPS or nothing.                                                 *)
LEMMA ModernAnswers ==
    ASSUME NEW i \in Daemon, NEW d \in Daemon, NEW end, EndKnows(d, end),
           end.driver \in {"modern", "bypass"}, NEW m \in Said(Peer(d)), NEW s,
           s = ModernReceive(i, d, end, m), s # Fail
    PROVE  StepAnswers(i, d, end, m, s)
<1>1. CASE m.type = "ID" /\ end.state = "ExpectId" /\ end.driver = "bypass"
  <2>1. s = Step([end EXCEPT !.state = "ExpectAck"], <<AckConnection(d)>>)
    BY <1>1 DEF ModernReceive
  <2>2. s.end = [end EXCEPT !.state = "ExpectAck"] /\ s.sends = <<AckConnection(d)>> /\ ~s.learned
    BY <2>1 DEF Step
  <2>3. EndKnows(d, s.end) /\ s.end.driver = "bypass" /\ s.end.state = "ExpectAck"
    BY <2>2, <1>1 DEF EndKnows, EndType, States
  <2>4. s.sends \in Seq(SaidBy(d, "bypass"))
    BY <2>2, MaySend
  <2> QED BY <1>1, <2>2, <2>3, <2>4 DEF StepAnswers
<1>2. CASE m.type = "ID" /\ end.state = "ExpectId" /\ end.driver = "modern" /\ m.minor >= 2
  <2>1. s = Step([end EXCEPT !.state = "Handshake"], <<Msg("KEX")>>)
    BY <1>2 DEF ModernReceive
  <2>2. s.end = [end EXCEPT !.state = "Handshake"] /\ s.sends = <<Msg("KEX")>> /\ ~s.learned
    BY <2>1 DEF Step
  <2>3. EndKnows(d, s.end) /\ s.end.driver = "modern" /\ s.end.state = "Handshake"
    BY <2>2, <1>2 DEF EndKnows, EndType, States
  <2>4. s.sends \in Seq(SaidBy(d, "modern"))
    BY <2>2, MaySend
  <2> QED BY <1>2, <2>2, <2>3, <2>4 DEF StepAnswers
<1>3. CASE m.type = "KEX" /\ end.state = "Handshake"
  <2>1. s = Step(end, IF i = d THEN <<Msg("SIG")>> ELSE <<>>)
    BY <1>3 DEF ModernReceive
  <2>2. s.end = end /\ s.sends = (IF i = d THEN <<Msg("SIG")>> ELSE <<>>) /\ ~s.learned
    BY <2>1 DEF Step
  <2>3. end.driver = "modern"
    BY <1>3 DEF EndKnows
  <2>4. s.sends \in Seq(SaidBy(d, "modern"))
    <3>1. Msg("SIG") \in SaidBy(d, "modern")
      BY MaySend
    <3>2. <<>> \in Seq(SaidBy(d, "modern"))
      OBVIOUS
    <3>3. <<Msg("SIG")>> \in Seq(SaidBy(d, "modern"))
      BY <3>1
    <3> QED BY <2>2, <3>2, <3>3
  <2> QED BY <1>3, <2>2, <2>3, <2>4 DEF StepAnswers
<1>4. CASE m.type = "SIG" /\ end.state = "Handshake" /\ knows[d] = "right"
  <2>1. s = Step([end EXCEPT !.state = "ExpectAck"],
                 (IF i = d THEN <<>> ELSE <<Msg("SIG")>>) \o <<AckConnection(d)>>)
    BY <1>4 DEF ModernReceive
  <2>2. /\ s.end = [end EXCEPT !.state = "ExpectAck"] /\ ~s.learned
        /\ s.sends = (IF i = d THEN <<>> ELSE <<Msg("SIG")>>) \o <<AckConnection(d)>>
    BY <2>1 DEF Step
  <2>3. end.driver = "modern"
    BY <1>4 DEF EndKnows
  <2>4. EndKnows(d, s.end) /\ s.end.driver = "modern" /\ s.end.state = "ExpectAck"
    BY <2>2, <2>3, <1>4 DEF EndKnows, EndType, States
  <2>5. s.sends \in Seq(SaidBy(d, "modern"))
    <3>1. Msg("SIG") \in SaidBy(d, "modern") /\ AckConnection(d) \in SaidBy(d, "modern")
      BY MaySend
    <3>2. PICK first : first = IF i = d THEN <<>> ELSE <<Msg("SIG")>>
      OBVIOUS
    <3>3. <<>> \in Seq(SaidBy(d, "modern")) /\ <<Msg("SIG")>> \in Seq(SaidBy(d, "modern"))
      BY <3>1
    <3>4. first \in Seq(SaidBy(d, "modern"))
      BY <3>2, <3>3
    <3>5. <<AckConnection(d)>> \in Seq(SaidBy(d, "modern"))
      BY <3>1
    <3>6. first \o <<AckConnection(d)>> \in Seq(SaidBy(d, "modern"))
      BY <3>4, <3>5, ConcatProperties
    <3> QED BY <2>2, <3>2, <3>6
  <2> QED BY <1>4, <2>2, <2>3, <2>4, <2>5 DEF StepAnswers
<1>5. CASE m.type = "ACK" /\ end.state = "ExpectAck"
  <2>1. s = Step(Negotiated(d, end, m), <<>>)
    BY <1>5 DEF ModernReceive
  <2>2. s.end = Negotiated(d, end, m) /\ s.sends = <<>> /\ ~s.learned
    BY <2>1 DEF Step
  <2>3. s.end = [end EXCEPT !.state = "Activated", !.weight = AgreedWeight(d),
                            !.options = AgreedOptions(d)]
    <3>1. m.weight = Weight[Peer(d)] /\ m.options = setting.options[Peer(d)]
      BY <1>5 DEF Said
    <3> QED BY <2>2, <3>1 DEF Negotiated, AgreedWeight, AgreedOptions
  <2>4. EndKnows(d, s.end) /\ s.end.driver = end.driver /\ s.end.state = "Activated"
    BY <2>3, <1>5 DEF EndKnows, EndType, States
  <2>5. s.sends \in Seq(SaidBy(d, end.driver))
    BY <2>2
  <2> QED BY <1>5, <2>2, <2>4, <2>5 DEF StepAnswers
<1> QED BY <1>1, <1>2, <1>3, <1>4, <1>5 DEF ModernReceive

(* ... of the legacy driver, which takes what is enciphered only if it     *)
(* could open METAKEY.                                                     *)
LEMMA LegacyAnswers ==
    ASSUME NEW i \in Daemon, NEW d \in Daemon, NEW end, EndKnows(d, end),
           end.driver = "legacy", NEW m \in Said(Peer(d)), NEW s,
           s = LegacyReceive(i, d, end, m), s # Fail
    PROVE  StepAnswers(i, d, end, m, s)
<1>0. /\ Eof \in SaidBy(d, "legacy") /\ AckConnection(d) \in SaidBy(d, "legacy")
      /\ \A n \in {LegacyMinor, UpgradeMinor, ProtMinor} : Id(n) \in SaidBy(d, "legacy")
      /\ \A t \in {"METAKEY", "CHALLENGE", "CHAL_REPLY"} :
            Sealed(t, setting.rsa[d]) \in SaidBy(d, "legacy")
      /\ AckKey \in SaidBy(d, "legacy") /\ Msg("TERMREQ") \in SaidBy(d, "legacy")
      /\ <<>> \in Seq(SaidBy(d, "legacy"))
  BY MaySend
<1>1. CASE m.type = "ID" /\ end.state = "ExpectId" /\ s = LegacyReceiveId(i, d, end, m)
  <2>1. PICK remote : remote = IF end.force THEN LegacyMinor ELSE m.minor
    OBVIOUS
  <2>2. PICK minor : minor = IF remote = LegacyMinor THEN LegacyMinor ELSE UpgradeMinor
    OBVIOUS
  <2>3. PICK first : first = IF i = d THEN <<>> ELSE <<Id(end.minor)>>
    OBVIOUS
  <2>4. s = Step([end EXCEPT !.state = "ExpectMetaKey", !.negotiated = minor],
                 first \o <<Sealed("METAKEY", setting.rsa[d])>>)
    BY <1>1, <2>1, <2>2, <2>3 DEF LegacyReceiveId
  <2>5. /\ s.end = [end EXCEPT !.state = "ExpectMetaKey", !.negotiated = minor] /\ ~s.learned
        /\ s.sends = first \o <<Sealed("METAKEY", setting.rsa[d])>>
    BY <2>4 DEF Step
  <2>6. minor \in {LegacyMinor, UpgradeMinor} /\ (minor = UpgradeMinor => ~end.force)
    BY <2>1, <2>2 DEF LegacyMinor, UpgradeMinor
  <2>7. EndKnows(d, s.end) /\ s.end.driver = "legacy" /\ s.end.state = "ExpectMetaKey"
    BY <2>5, <2>6, <1>1, ZenonT(60) DEF EndKnows, EndType, States, SpeaksBoth
  <2>8. s.sends \in Seq(SaidBy(d, "legacy"))
    <3>1. end.minor \in {LegacyMinor, UpgradeMinor, ProtMinor}
      BY DEF EndKnows, EndType
    <3>2. <<Id(end.minor)>> \in Seq(SaidBy(d, "legacy"))
      BY <3>1, <1>0
    <3>3. first \in Seq(SaidBy(d, "legacy"))
      BY <2>3, <3>2, <1>0
    <3>4. <<Sealed("METAKEY", setting.rsa[d])>> \in Seq(SaidBy(d, "legacy"))
      BY <1>0
    <3>5. first \o <<Sealed("METAKEY", setting.rsa[d])>> \in Seq(SaidBy(d, "legacy"))
      BY <3>3, <3>4, ConcatProperties
    <3> QED BY <2>5, <3>5
  <2>9. s.sends = (IF i = d THEN <<>> ELSE <<Id(end.minor)>>) \o <<Sealed("METAKEY", setting.rsa[d])>>
    BY <2>5, <2>3
  <2> QED BY <1>1, <2>5, <2>7, <2>8, <2>9 DEF StepAnswers
<1>2. CASE m.type = "METAKEY" /\ end.state = "ExpectMetaKey"
           /\ s = Step([end EXCEPT !.state = "ExpectChallenge", !.good = m.good],
                       <<Sealed("CHALLENGE", setting.rsa[d])>>)
  <2>1. /\ s.end = [end EXCEPT !.state = "ExpectChallenge", !.good = m.good] /\ ~s.learned
        /\ s.sends = <<Sealed("CHALLENGE", setting.rsa[d])>>
    BY <1>2 DEF Step
  <2>2. m.good \in BOOLEAN /\ (m.good => setting.rsa[Peer(d)] = "right")
    BY <1>2 DEF Said
  <2>3. EndKnows(d, s.end) /\ s.end.driver = "legacy" /\ s.end.state = "ExpectChallenge"
    BY <2>1, <2>2, <1>2 DEF EndKnows, EndType, States
  <2>4. s.sends \in Seq(SaidBy(d, "legacy"))
    BY <2>1, <1>0
  <2> QED BY <1>2, <2>1, <2>3, <2>4 DEF StepAnswers
<1>3. CASE end.good /\ m.type = "CHALLENGE" /\ end.state = "ExpectChallenge"
           /\ s = Step([end EXCEPT !.state = "ExpectChallengeReply"],
                       IF i = d THEN <<Sealed("CHAL_REPLY", setting.rsa[d])>> ELSE <<>>)
  <2>1. /\ s.end = [end EXCEPT !.state = "ExpectChallengeReply"] /\ ~s.learned
        /\ s.sends = (IF i = d THEN <<Sealed("CHAL_REPLY", setting.rsa[d])>> ELSE <<>>)
    BY <1>3 DEF Step
  <2>2. EndKnows(d, s.end) /\ s.end.driver = "legacy" /\ s.end.state = "ExpectChallengeReply"
    BY <2>1, <1>3 DEF EndKnows, EndType, States
  <2>3. <<Sealed("CHAL_REPLY", setting.rsa[d])>> \in Seq(SaidBy(d, "legacy"))
    BY <1>0
  <2>4. s.sends \in Seq(SaidBy(d, "legacy"))
    BY <2>1, <2>3, <1>0
  <2> QED BY <1>3, <2>1, <2>2, <2>4 DEF StepAnswers
<1>4. CASE end.good /\ m.type = "CHAL_REPLY" /\ end.state = "ExpectChallengeReply"
           /\ s = Step([end EXCEPT !.state = "ExpectAck"],
                       (IF i = d THEN <<>> ELSE <<Sealed("CHAL_REPLY", setting.rsa[d])>>)
                          \o <<LegacyAck(d, end)>>)
  <2>1. PICK first : first = IF i = d THEN <<>> ELSE <<Sealed("CHAL_REPLY", setting.rsa[d])>>
    OBVIOUS
  <2>2. /\ s.end = [end EXCEPT !.state = "ExpectAck"] /\ ~s.learned
        /\ s.sends = first \o <<LegacyAck(d, end)>>
    BY <1>4, <2>1 DEF Step
  <2>3. EndKnows(d, s.end) /\ s.end.driver = "legacy" /\ s.end.state = "ExpectAck"
    BY <2>2, <1>4 DEF EndKnows, EndType, States
  <2>4. <<Sealed("CHAL_REPLY", setting.rsa[d])>> \in Seq(SaidBy(d, "legacy"))
    BY <1>0
  <2>5. first \in Seq(SaidBy(d, "legacy"))
    BY <2>1, <2>4, <1>0
  <2>6. <<LegacyAck(d, end)>> \in Seq(SaidBy(d, "legacy"))
    BY <1>0 DEF LegacyAck
  <2>7. s.sends \in Seq(SaidBy(d, "legacy"))
    BY <2>2, <2>5, <2>6, ConcatProperties
  <2> QED BY <1>4, <2>2, <2>3, <2>7 DEF StepAnswers
<1>5. CASE end.good /\ m.type \in {"ACK", "ACK_KEY"} /\ end.state = "ExpectAck"
           /\ s = LegacyReceiveAck(d, end, m)
  <2>1. CASE end.negotiated = UpgradeMinor /\ m.type = "ACK_KEY"
    <3>1. s = [end |-> [end EXCEPT !.state = "UpgradeTerminating", !.closing = TRUE],
               sends |-> <<Msg("TERMREQ")>>, learned |-> TRUE]
      BY <1>5, <2>1 DEF LegacyReceiveAck
    <3>2. /\ s.end = [end EXCEPT !.state = "UpgradeTerminating", !.closing = TRUE]
          /\ s.sends = <<Msg("TERMREQ")>>
      BY <3>1
    <3>3. EndKnows(d, s.end) /\ s.end.driver = "legacy" /\ s.end.state = "UpgradeTerminating"
      BY <3>2, <1>5 DEF EndKnows, EndType, States
    <3>4. SpeaksBoth(d)
      BY <2>1 DEF EndKnows
    <3>5. s.sends \in Seq(SaidBy(d, "legacy"))
      BY <3>2, <1>0
    <3> QED BY <1>5, <2>1, <3>2, <3>3, <3>4, <3>5 DEF StepAnswers
  <2>2. CASE end.negotiated = LegacyMinor /\ m.type = "ACK"
    <3>1. s = Step(Negotiated(d, end, m), <<>>)
      BY <1>5, <2>2 DEF LegacyReceiveAck, LegacyMinor, UpgradeMinor
    <3>2. s.end = Negotiated(d, end, m) /\ s.sends = <<>> /\ ~s.learned
      BY <3>1 DEF Step
    <3>3. m.weight = Weight[Peer(d)] /\ m.options = setting.options[Peer(d)]
      BY <2>2 DEF Said
    <3>4. s.end = [end EXCEPT !.state = "Activated", !.weight = AgreedWeight(d),
                              !.options = AgreedOptions(d)]
      BY <3>2, <3>3 DEF Negotiated, AgreedWeight, AgreedOptions
    <3>5. EndKnows(d, s.end) /\ s.end.driver = "legacy" /\ s.end.state = "Activated"
      BY <3>4, <2>2, <1>5 DEF EndKnows, EndType, States
    <3>6. s.sends \in Seq(SaidBy(d, "legacy"))
      BY <3>2, <1>0
    <3> QED BY <1>5, <2>2, <3>2, <3>5, <3>6 DEF StepAnswers
  <2> QED BY <2>1, <2>2, <1>5 DEF LegacyReceiveAck
<1>6. CASE end.good /\ m.type = "TERMREQ" /\ end.state = "UpgradeTerminating" /\ s = Step(end, <<>>)
  <2>1. s.end = end /\ s.sends = <<>> /\ ~s.learned
    BY <1>6 DEF Step
  <2> QED BY <1>6, <2>1, <1>0 DEF StepAnswers
<1> QED BY <1>1, <1>2, <1>3, <1>4, <1>5, <1>6, SMTT(60) DEF LegacyReceive

(* An end that a driver was chosen for has nothing but its driver.         *)
Chosen(d, end) ==
    /\ EndKnows(d, end) /\ end.state = "ExpectId"
    /\ end.driver \in {"modern", "bypass", "legacy"}

(* The drivers that meta_driver_for_peer and                               *)
(* meta_driver_for_incoming_peer choose.                                   *)
LEMMA DriversForPeer ==
    ASSUME NEW d \in Daemon, DriverForPeer(d, TRUE) # NoEnd
    PROVE  /\ Chosen(d, DriverForPeer(d, TRUE))
           /\ knows[d] # "none" /\ SpeaksBoth(d) => DriverForPeer(d, TRUE).driver = "modern"
<1> USE DEF LegacyMinor, UpgradeMinor, ProtMinor
<1>1. PICK end : end = DriverForPeer(d, TRUE)
  OBVIOUS
<1>2. CASE ~Experimental(d)
  <2>1. end = End("legacy", LegacyMinor, FALSE, TRUE)
    BY <1>1, <1>2 DEF DriverForPeer, LegacyDriver
  <2>2. ~Bypass(d)
    BY <1>2 DEF Experimental, Bypass
  <2>3. Chosen(d, end)
    BY <2>1, <2>2 DEF End, Chosen, EndKnows, EndType, Drivers, States
  <2> QED BY <1>1, <1>2, <2>3 DEF SpeaksBoth
<1>3. CASE Experimental(d) /\ Bypass(d)
  <2>1. end = End("bypass", LegacyMinor, FALSE, FALSE)
    BY <1>1, <1>3 DEF DriverForPeer
  <2>2. Chosen(d, end)
    BY <2>1 DEF End, Chosen, EndKnows, EndType, Drivers, States
  <2> QED BY <1>1, <1>3, <2>2 DEF SpeaksBoth
<1>4. CASE Experimental(d) /\ ~Bypass(d) /\ knows[d] # "none"
  <2>1. end = End("modern", ProtMinor, FALSE, FALSE)
    BY <1>1, <1>4 DEF DriverForPeer
  <2>2. Chosen(d, end) /\ end.driver = "modern"
    BY <2>1 DEF End, Chosen, EndKnows, EndType, Drivers, States
  <2> QED BY <1>1, <2>2
<1>5. CASE Experimental(d) /\ ~Bypass(d) /\ knows[d] = "none"
  <2>1. end = End("legacy", UpgradeMinor, TRUE, FALSE)
    BY <1>1, <1>5 DEF DriverForPeer, UpgradeDriver, LegacyDriver
  <2>2. Chosen(d, end)
    BY <2>1, <1>5 DEF End, Chosen, EndKnows, EndType, Drivers, States
  <2> QED BY <1>1, <1>5, <2>2
<1> QED BY <1>2, <1>3, <1>4, <1>5

(* An ID that says the legacy protocol gets no driver where a key is known.*)
LEMMA DriversForIncoming ==
    ASSUME NEW d \in Daemon, NEW minor \in {LegacyMinor, UpgradeMinor, ProtMinor},
           knows[d] # "none" => SpeaksBoth(d), DriverForIncoming(d, minor) # NoEnd
    PROVE  /\ Chosen(d, DriverForIncoming(d, minor))
           /\ knows[d] # "none" /\ DriverForIncoming(d, minor).driver = "legacy" =>
                 minor = UpgradeMinor /\ ~DriverForIncoming(d, minor).force
<1> USE DEF LegacyMinor, UpgradeMinor, ProtMinor
<1>1. PICK end : end = DriverForIncoming(d, minor)
  OBVIOUS
<1>2. end = DriverForIncomingUnguarded(d, minor)
  BY <1>1 DEF DriverForIncoming
<1>3. CASE Bypass(d)
  <2>1. end = End("bypass", LegacyMinor, FALSE, FALSE)
    BY <1>2, <1>3 DEF DriverForIncomingUnguarded, DriverForPeer, Experimental, Bypass
  <2>2. Chosen(d, end) /\ end.driver = "bypass"
    BY <2>1 DEF End, Chosen, EndKnows, EndType, Drivers, States
  <2> QED BY <1>1, <2>2
<1>4. CASE ~Bypass(d) /\ minor = ProtMinor
  <2>1. end = DriverForPeer(d, FALSE)
    BY <1>2, <1>4 DEF DriverForIncomingUnguarded
  <2>2. CASE ~Experimental(d)
    <3>1. end = End("legacy", LegacyMinor, FALSE, TRUE) /\ knows[d] = "none"
      BY <1>1, <2>1, <2>2 DEF DriverForPeer, LegacyDriver, SpeaksBoth
    <3>2. Chosen(d, end)
      BY <3>1, <1>4 DEF End, Chosen, EndKnows, EndType, Drivers, States
    <3> QED BY <1>1, <3>1, <3>2
  <2>3. CASE Experimental(d)
    <3>1. end = End("modern", ProtMinor, FALSE, FALSE)
      BY <1>1, <1>4, <2>1, <2>3 DEF DriverForPeer
    <3>2. Chosen(d, end) /\ end.driver = "modern"
      BY <3>1 DEF End, Chosen, EndKnows, EndType, Drivers, States
    <3> QED BY <1>1, <3>2
  <2> QED BY <2>2, <2>3
<1>5. CASE ~Bypass(d) /\ minor = LegacyMinor
  <2>1. knows[d] = "none"
    BY <1>1, <1>5 DEF DriverForIncoming
  <2>2. \/ Experimental(d) /\ end = End("legacy", LegacyMinor, FALSE, FALSE)
        \/ end = End("legacy", LegacyMinor, FALSE, TRUE)
    <3>1. ~(minor >= 2) /\ minor = LegacyMinor
      BY <1>5
    <3>2. end = IF setting.rsa[d] = "none" THEN NoEnd
                ELSE IF Experimental(d) THEN End("legacy", LegacyMinor, FALSE, FALSE)
                ELSE End("legacy", LegacyMinor, FALSE, TRUE)
      BY <1>2, <1>5, <3>1, Zenon DEF DriverForIncomingUnguarded, LegacyDriver
    <3> QED BY <1>1, <3>2, Zenon
  <2>3. CASE Experimental(d) /\ end = End("legacy", LegacyMinor, FALSE, FALSE)
    <3>1. Chosen(d, end)
      BY <2>3, <1>5 DEF End, Chosen, EndKnows, EndType, Drivers, States
    <3> QED BY <1>1, <2>1, <3>1
  <2>4. CASE end = End("legacy", LegacyMinor, FALSE, TRUE)
    <3>1. Chosen(d, end)
      BY <2>4, <1>5 DEF End, Chosen, EndKnows, EndType, Drivers, States
    <3> QED BY <1>1, <2>1, <3>1
  <2> QED BY <2>2, <2>3, <2>4
<1>6. CASE ~Bypass(d) /\ minor = UpgradeMinor
  <2>0. end = UpgradeDriver(d, ProtMinor)
    BY <1>2, <1>6 DEF DriverForIncomingUnguarded
  <2>1. Experimental(d) /\ end = End("legacy", ProtMinor, TRUE, FALSE)
    BY <1>1, <2>0 DEF UpgradeDriver, LegacyDriver
  <2>2. Chosen(d, end) /\ ~end.force
    BY <2>1, <1>6 DEF End, Chosen, EndKnows, EndType, Drivers, States
  <2> QED BY <1>1, <1>6, <2>2
<1> QED BY <1>3, <1>4, <1>5, <1>6

(* An end with a driver leaves the message to it.                          *)
LEMMA DrivenAnswers ==
    ASSUME NEW i \in Daemon, NEW d \in Daemon, NEW mine, EndOK(i, d, mine),
           mine.driver # "pending", NEW m \in Said(Peer(d)), NEW s,
           s = Received(i, d, mine, m), s # Fail
    PROVE  StepAnswers(i, d, mine, m, s)
<1>1. EndKnows(d, mine)
  BY DEF EndOK
<1>2. CASE mine.driver = "legacy"
  <2>1. s = LegacyReceive(i, d, mine, m)
    BY <1>2 DEF Received
  <2> QED BY <1>1, <1>2, <2>1, LegacyAnswers
<1>3. CASE mine.driver \in {"modern", "bypass"}
  <2>1. s = ModernReceive(i, d, mine, m)
    BY <1>3 DEF Received
  <2> QED BY <1>1, <1>3, <2>1, ModernAnswers
<1> QED BY <1>2, <1>3 DEF EndOK

(* An end without a driver takes one for the ID it reads: r is the step of *)
(* that driver, which goes out after the ID of this side.                  *)
LEMMA PendingAnswers ==
    ASSUME NEW i \in Daemon, NEW d \in Daemon, i # d, NEW mine, mine.driver = "pending",
           NEW m \in Said(Peer(d)), knows[d] # "none" => SpeaksBoth(d), NEW s,
           s = Received(i, d, mine, m), s # Fail
    PROVE  \E end, r :
              /\ m.type = "ID" /\ Chosen(d, end) /\ StepAnswers(i, d, end, m, r)
              /\ s.end = r.end /\ s.learned = r.learned
              /\ s.sends = (IF end.driver = "legacy" THEN r.sends ELSE <<Id(end.minor)>> \o r.sends)
              /\ knows[d] # "none" /\ end.driver = "legacy" => s.end.negotiated = UpgradeMinor
<1>1. s = PendingReceive(i, d, m)
  BY DEF Received
<1>2. PICK end : end = DriverForIncoming(d, m.minor)
  OBVIOUS
<1>3. PICK r : r = IF end.driver = "legacy" THEN LegacyReceive(i, d, end, m)
                   ELSE ModernReceive(i, d, end, m)
  OBVIOUS
<1>4. /\ m.type = "ID" /\ end # NoEnd
      /\ s = IF end.driver = "legacy" \/ r = Fail THEN r
             ELSE [r EXCEPT !.sends = <<Id(end.minor)>> \o @]
  BY <1>1, <1>2, <1>3 DEF PendingReceive
<1>5. m.minor \in {LegacyMinor, UpgradeMinor, ProtMinor}
  BY DEF Said
<1>6. /\ Chosen(d, end)
      /\ knows[d] # "none" /\ end.driver = "legacy" => m.minor = UpgradeMinor /\ ~end.force
  BY <1>2, <1>4, <1>5, DriversForIncoming
<1>7. CASE end.driver = "legacy"
  <2>1. s = r /\ r # Fail /\ r = LegacyReceive(i, d, end, m)
    BY <1>3, <1>4, <1>7
  <2>2. StepAnswers(i, d, end, m, r)
    BY <1>6, <1>7, <2>1, LegacyAnswers DEF Chosen
  <2>3. r = LegacyReceiveId(i, d, end, m)
    BY <1>4, <1>6, <2>1, Zenon DEF LegacyReceive, Chosen
  <2>4. ASSUME knows[d] # "none" PROVE r.end.negotiated = UpgradeMinor
    <3>1. m.minor = UpgradeMinor /\ ~end.force
      BY <1>6, <1>7, <2>4
    <3>2. r.end = [end EXCEPT !.state = "ExpectMetaKey", !.negotiated = UpgradeMinor]
      BY <2>1, <2>3, <3>1 DEF LegacyReceiveId, Step, LegacyMinor, UpgradeMinor
    <3>3. end \in EndType(d)
      BY <1>6 DEF Chosen, EndKnows
    <3> QED BY <3>2, <3>3 DEF EndType
  <2> QED BY <1>4, <1>6, <1>7, <2>1, <2>2, <2>4
<1>8. CASE end.driver \in {"modern", "bypass"}
  <2>1. r = ModernReceive(i, d, end, m) /\ r # Fail
    BY <1>3, <1>4, <1>8
  <2>2. StepAnswers(i, d, end, m, r)
    BY <1>6, <1>8, <2>1, ModernAnswers DEF Chosen
  <2>3. s = [r EXCEPT !.sends = <<Id(end.minor)>> \o @]
    BY <1>4, <1>8, <2>1
  <2>4. r = Step(r.end, r.sends)
    BY <2>1 DEF ModernReceive, Step, Fail
  <2>5. /\ s.end = r.end /\ s.learned = r.learned /\ s.sends = <<Id(end.minor)>> \o r.sends
    BY <2>3, <2>4 DEF Step
  <2> QED BY <1>4, <1>6, <1>8, <2>2, <2>5
<1> QED BY <1>6, <1>7, <1>8 DEF Chosen

(* Two messages that are sent together.                                    *)
LEMMA TwoInARow ==
    ASSUME NEW a, NEW b
    PROVE  /\ Len(<<a>> \o <<b>>) = 2
           /\ (<<a>> \o <<b>>)[1] = a /\ (<<a>> \o <<b>>)[2] = b
<1>1. <<a>> \in Seq({a, b}) /\ <<b>> \in Seq({a, b})
  OBVIOUS
<1>2. Len(<<a>>) = 1 /\ Len(<<b>>) = 1 /\ <<a>>[1] = a /\ <<b>>[1] = b
  OBVIOUS
<1> QED BY <1>1, <1>2, ConcatProperties

(* What an end becomes when it takes the message m in the step s.          *)
Progress(i, d, mine, m, s) ==
    /\ EndOK(i, d, s.end) /\ s.end.driver # "pending" /\ s.end.state # "ExpectId"
    /\ mine.driver # "pending" => s.end.driver = mine.driver
    /\ s.sends \in Seq(SaidBy(d, s.end.driver))
    /\ m.type # "EOF"
    /\ s.learned => SpeaksBoth(d)
    /\ s.end.driver = "modern" /\ s.end.state \in {"ExpectAck", "Activated"} =>
          mine.state \in {"ExpectAck", "Activated"} \/ m.type = "SIG"
    /\ s.end.driver = "legacy" /\ s.end.state # "ExpectMetaKey" =>
          mine.state \notin {"ExpectId", "ExpectMetaKey"} \/ m.type = "METAKEY"
    /\ s.end.driver = "bypass" =>
          \/ mine.state = "ExpectId" /\ m.type = "ID" /\ s.end.state = "ExpectAck"
          \/ mine.state = "ExpectAck" /\ m.type = "ACK" /\ s.end.state = "Activated"
    /\ mine.driver \in {"modern", "legacy"} /\ mine.state = "ExpectId" =>
          s.sends # <<>> /\ s.sends[1].type \in {"KEX", "METAKEY"}
    /\ mine.driver = "pending" /\ s.end.driver \in {"modern", "legacy"} =>
          Len(s.sends) >= 2 /\ s.sends[1].type = "ID" /\ s.sends[2].type \in {"KEX", "METAKEY"}
    /\ mine.driver # "legacy" /\ s.end.driver = "legacy" /\ knows[d] # "none" =>
          s.end.negotiated = UpgradeMinor

(* Whatever an end takes without closing, it makes progress.               *)
LEMMA EndsProgress ==
    ASSUME NEW i \in Daemon, NEW d \in Daemon, NEW mine, EndOK(i, d, mine),
           NEW m \in Said(Peer(d)), knows[d] # "none" => SpeaksBoth(d), NEW s,
           s = Received(i, d, mine, m), s # Fail
    PROVE  Progress(i, d, mine, m, s)
<1>1. CASE mine.driver # "pending"
  <2>1. StepAnswers(i, d, mine, m, s)
    BY <1>1, DrivenAnswers
  <2>2. EndOK(i, d, s.end) /\ s.end.driver = mine.driver /\ s.end.state # "ExpectId"
    BY <1>1, <2>1 DEF StepAnswers, EndOK
  <2>3. ASSUME mine.driver \in {"modern", "legacy"}, mine.state = "ExpectId"
        PROVE  s.sends # <<>> /\ s.sends[1].type \in {"KEX", "METAKEY"}
    <3>1. i = d
      BY <1>1, <2>3 DEF EndOK
    <3>2. CASE mine.driver = "modern"
      <4>1. s.sends = <<Msg("KEX")>>
        BY <2>1, <2>3, <3>2 DEF StepAnswers
      <4> QED BY <4>1 DEF Msg
    <3>3. CASE mine.driver = "legacy"
      <4>1. PICK k : k = Sealed("METAKEY", setting.rsa[d])
        OBVIOUS
      <4>2. s.sends = <<>> \o <<k>>
        BY <2>1, <2>3, <3>1, <3>3, <4>1 DEF StepAnswers
      <4>3. s.sends = <<k>> /\ k.type = "METAKEY"
        BY <4>1, <4>2 DEF Sealed, Msg
      <4> QED BY <4>3
    <3> QED BY <2>3, <3>2, <3>3
  <2> QED BY <1>1, <2>1, <2>2, <2>3 DEF StepAnswers, Progress
<1>2. CASE mine.driver = "pending"
  <2>1. i # d /\ mine.state = "ExpectId"
    BY <1>2 DEF EndOK, Pending, End
  <2>2. PICK end, r :
              /\ m.type = "ID" /\ Chosen(d, end) /\ StepAnswers(i, d, end, m, r)
              /\ s.end = r.end /\ s.learned = r.learned
              /\ s.sends = (IF end.driver = "legacy" THEN r.sends ELSE <<Id(end.minor)>> \o r.sends)
              /\ knows[d] # "none" /\ end.driver = "legacy" => s.end.negotiated = UpgradeMinor
    BY <1>2, <2>1, PendingAnswers
  <2>3. s.end.driver = end.driver /\ end.driver \in {"modern", "bypass", "legacy"}
        /\ end.state = "ExpectId" /\ s.end.state # "ExpectId"
    BY <2>2 DEF StepAnswers, Chosen
  <2>4. EndOK(i, d, s.end)
    BY <2>1, <2>2, <2>3 DEF StepAnswers, EndOK
  <2>5. r.sends \in Seq(SaidBy(d, end.driver)) /\ Id(end.minor) \in SaidBy(d, end.driver)
    <3>1. end.minor \in {LegacyMinor, UpgradeMinor, ProtMinor}
      BY <2>2 DEF Chosen, EndKnows, EndType
    <3> QED BY <2>2, <3>1, MaySend DEF StepAnswers
  <2>6. s.sends \in Seq(SaidBy(d, s.end.driver))
    <3>1. <<Id(end.minor)>> \in Seq(SaidBy(d, end.driver))
      BY <2>5
    <3>2. <<Id(end.minor)>> \o r.sends \in Seq(SaidBy(d, end.driver))
      BY <2>5, <3>1, ConcatProperties
    <3> QED BY <2>2, <2>3, <2>5, <3>2
  <2>7. ASSUME end.driver \in {"modern", "legacy"}
        PROVE  Len(s.sends) >= 2 /\ s.sends[1].type = "ID" /\ s.sends[2].type \in {"KEX", "METAKEY"}
    <3>1. PICK a : a = Id(end.minor)
      OBVIOUS
    <3>2. a.type = "ID"
      BY <3>1 DEF Id, Msg
    <3>3. PICK k : k = IF end.driver = "modern" THEN Msg("KEX") ELSE Sealed("METAKEY", setting.rsa[d])
      OBVIOUS
    <3>4. k.type \in {"KEX", "METAKEY"}
      BY <3>3 DEF Sealed, Msg
    <3>5. s.sends = <<a>> \o <<k>>
      BY <2>1, <2>2, <2>3, <2>7, <3>1, <3>3 DEF StepAnswers
    <3> QED BY <3>2, <3>4, <3>5, TwoInARow
  <2> QED BY <1>2, <2>1, <2>2, <2>3, <2>4, <2>6, <2>7 DEF StepAnswers, Progress
<1> QED BY <1>1, <1>2

(* The message that is read next.                                          *)
Empty(w) == w = <<>>
First(w) == Head(w)

(* What is on its way to an end after the other has sent more.             *)
Sent(his, v, sends) == IF his = Closed THEN <<>> ELSE v \o sends

(* Both ends still fit each other when one has taken a message.            *)
LEMMA ReceiveKeeps ==
    ASSUME TwoDaemons, NEW i \in Daemon, NEW d \in Daemon, NEW e, e = Peer(d),
           NEW mine, NEW his, NEW w, NEW v, NEW s, NEW v2,
           SideOK(i, d, mine, his, w, v), SideOK(i, e, his, mine, v, w),
           mine # Closed, ~Empty(w), NEW m, m = First(w), Progress(i, d, mine, m, s),
           v2 = Sent(his, v, s.sends)
    PROVE  /\ SideOK(i, d, s.end, his, Tail(w), v2)
           /\ SideOK(i, e, his, s.end, v2, Tail(w))
<1>1. m = Head(w) /\ w # <<>>
  BY DEF First, Empty
<1>2. e \in Daemon /\ e # d /\ Peer(e) = d
  BY Peers
<1>3. EndOK(i, d, mine) /\ w \in Seq(Said(e)) /\ (his = Closed => v = <<>>)
  BY DEF SideOK
<1>4. s.end # Closed /\ EndOK(i, d, s.end)
  BY DEF Progress, EndOK, Closed, End
<1>5. PICK u : u = Tail(w)
  OBVIOUS
<1>6. SUFFICES SideOK(i, d, s.end, his, u, v2) /\ SideOK(i, e, his, s.end, v2, u)
  BY <1>5, Zenon
<1>7. /\ m = w[1] /\ Len(w) \in Nat /\ Len(w) >= 1 /\ u \in Seq(Said(e))
      /\ Len(u) = Len(w) - 1
      /\ \A k \in 1 .. Len(u) : u[k] = w[k + 1]
  BY <1>1, <1>3, <1>5, HeadTailProperties, LenProperties
<1>8. /\ s.end.driver # "pending" /\ s.end.state # "ExpectId"
      /\ mine.driver # "pending" => s.end.driver = mine.driver
      /\ s.end.driver = "modern" /\ s.end.state \in {"ExpectAck", "Activated"} =>
            mine.state \in {"ExpectAck", "Activated"} \/ m.type = "SIG"
      /\ s.end.driver = "legacy" /\ s.end.state # "ExpectMetaKey" =>
            mine.state \notin {"ExpectId", "ExpectMetaKey"} \/ m.type = "METAKEY"
      /\ s.end.driver = "bypass" =>
            \/ mine.state = "ExpectId" /\ m.type = "ID" /\ s.end.state = "ExpectAck"
            \/ mine.state = "ExpectAck" /\ m.type = "ACK" /\ s.end.state = "Activated"
  BY <1>1 DEF Progress
<1>9. m.type # "EOF" /\ ~Gone(w)
  BY <1>1, <1>7 DEF Progress, Gone
<1>10. CASE his = Closed
  BY <1>2, <1>3, <1>4, <1>7, <1>10 DEF SideOK, Sent
<1>11. CASE his # Closed
  <2>1. /\ w \in Seq(SaidBy(e, his.driver)) /\ v \in Seq(SaidBy(d, mine.driver))
        /\ v \in Seq(Said(d)) /\ EndOK(i, e, his)
        /\ PairOK(mine, his, w, v) /\ PairOK(his, mine, v, w)
    BY <1>2, <1>11 DEF SideOK
  <2>2. his.driver # "pending"
    <3>1. w # <<>> /\ ~Gone(w)
      BY <1>1, <1>9
    <3> QED BY <2>1, <3>1 DEF PairOK
  <2>3. u \in Seq(SaidBy(e, his.driver)) /\ m \in SaidBy(e, his.driver)
    BY <2>1, <1>1, <1>7, <1>5, HeadTailProperties
  <2>4. ASSUME mine.driver = "pending"
        PROVE  /\ i # d /\ mine.state = "ExpectId" /\ his.state = "ExpectId" /\ Len(w) = 1
               /\ v = <<>> \/ Gone(v)
    <3>1. mine.state = "ExpectId" /\ i # d
      BY <1>3, <2>4 DEF EndOK, Pending, End
    <3>2. his.state = "ExpectId" /\ (v = <<>> \/ Gone(v)) /\ (Gone(w) \/ Len(w) = 1)
      BY <2>1, <2>4 DEF PairOK
    <3> QED BY <1>9, <3>1, <3>2
  <2>5. PICK x : x = s.sends
    OBVIOUS
  <2>6. x \in Seq(SaidBy(d, s.end.driver)) /\ v2 = v \o x
    BY <1>11, <2>5 DEF Progress, Sent
  <2>7. v \in Seq(SaidBy(d, s.end.driver))
    <3>1. CASE mine.driver # "pending"
      BY <2>1, <3>1 DEF Progress
    <3>2. CASE mine.driver = "pending"
      <4>1. SaidBy(d, mine.driver) \subseteq SaidBy(d, s.end.driver)
        BY <3>2 DEF SaidBy
      <4> QED BY <2>1, <4>1
    <3> QED BY <3>1, <3>2
  <2>8. /\ v2 \in Seq(SaidBy(d, s.end.driver)) /\ v2 \in Seq(Said(d))
        /\ Len(v) \in Nat /\ Len(x) \in Nat /\ Len(v2) = Len(v) + Len(x)
        /\ \A k \in 1 .. Len(v) : v2[k] = v[k]
        /\ \A k \in 1 .. Len(x) : v2[Len(v) + k] = x[k]
    <3>1. SaidBy(d, s.end.driver) \subseteq Said(d)
      BY DEF SaidBy
    <3>2. /\ Len(v) \in Nat /\ Len(x) \in Nat
          /\ v \o x \in Seq(SaidBy(d, s.end.driver)) /\ Len(v \o x) = Len(v) + Len(x)
          /\ \A k \in 1 .. Len(v) + Len(x) : (v \o x)[k] = IF k <= Len(v) THEN v[k] ELSE x[k - Len(v)]
      BY <2>6, <2>7, ConcatProperties, LenProperties
    <3>3. \A k \in 1 .. Len(v) : v2[k] = v[k]
      BY <2>6, <3>2
    <3>4. \A k \in 1 .. Len(x) : v2[Len(v) + k] = x[k]
      BY <2>6, <3>2
    <3>5. v2 \in Seq(Said(d))
      BY <2>6, <3>1, <3>2
    <3> QED BY <2>6, <3>2, <3>3, <3>4, <3>5
  <2>9. (v # <<>> => v2 # <<>> /\ v2[1] = v[1]) /\ (v = <<>> => v2 = x)
        /\ (x # <<>> => v2 # <<>>)
    <3>1. v # <<>> => Len(v) >= 1
      BY <2>1
    <3>2. v = <<>> => v2 = x
      BY <2>6
    <3>3. v2 = <<>> => Len(v2) = 0
      OBVIOUS
    <3>4. x # <<>> => Len(x) >= 1
      BY <2>6
    <3> QED BY <2>8, <3>1, <3>2, <3>3, <3>4
  <2>10. (Gone(v) => Gone(v2)) /\ (Clash(v) => Clash(v2))
    BY <2>9 DEF Gone, Clash
  <2>11. PairOK(s.end, his, u, v2)
    <3>1. ASSUME s.end.driver = "modern", s.end.state \in {"ExpectAck", "Activated"}
          PROVE  his.driver = "modern"
      <4>1. CASE mine.state \in {"ExpectAck", "Activated"}
        <5>1. mine.driver = "modern"
          BY <2>4, <3>1, <4>1, <1>8
        <5> QED BY <2>1, <4>1, <5>1 DEF PairOK
      <4>2. CASE m.type = "SIG"
        BY <2>3, <4>2 DEF SaidBy
      <4> QED BY <1>8, <3>1, <4>1, <4>2
    <3>2. ASSUME s.end.driver = "legacy", s.end.state \notin {"ExpectId", "ExpectMetaKey"}
          PROVE  his.driver = "legacy"
      <4>1. CASE mine.state \notin {"ExpectId", "ExpectMetaKey"}
        <5>1. mine.driver = "legacy"
          BY <2>4, <3>2, <4>1, <1>8
        <5> QED BY <2>1, <4>1, <5>1 DEF PairOK
      <4>2. CASE m.type = "METAKEY"
        BY <2>3, <4>2 DEF SaidBy
      <4> QED BY <1>8, <3>2, <4>1, <4>2
    <3>3. ASSUME s.end.driver = "bypass", s.end.state = "Activated"
          PROVE  his.driver = "bypass"
      <4>1. mine.state = "ExpectAck" /\ m.type = "ACK"
        BY <1>8, <3>3
      <4>2. mine.driver = "bypass"
        BY <2>4, <3>3, <4>1, <1>8
      <4>3. ~Clash(w)
        BY <1>7, <4>1 DEF Clash
      <4>4. his.driver \notin {"modern", "legacy"}
        BY <1>1, <1>9, <2>1, <4>1, <4>2, <4>3 DEF PairOK
      <4> QED BY <2>1, <2>2, <4>4 DEF EndOK
    <3>4. ASSUME s.end.driver = "bypass", his.driver \in {"modern", "legacy"},
                 s.end.state = "ExpectAck"
          PROVE  IF his.state = "ExpectId" THEN u = <<>> \/ Gone(u) ELSE Clash(u)
      <4>1. mine.state = "ExpectId" /\ m.type = "ID"
        BY <1>8, <3>4
      <4>2. CASE mine.driver = "pending"
        <5>1. u = <<>>
          <6>1. Len(w) = 1
            BY <2>4, <4>2
          <6>2. Len(u) = Len(w) - 1
            BY <1>7
          <6>3. Len(u) = 0
            BY <6>1, <6>2
          <6> QED BY <1>7, <6>3, EmptySeq
        <5> QED BY <2>4, <4>2, <5>1
      <4>3. CASE mine.driver # "pending"
        <5>1. mine.driver = "bypass" /\ d = i
          BY <1>3, <1>8, <3>4, <4>1, <4>3 DEF EndOK
        <5>2. his.state # "ExpectId"
          BY <1>2, <2>1, <2>2, <5>1 DEF EndOK
        <5>3. Len(w) >= 2 /\ w[2].type \in {"KEX", "METAKEY"}
          BY <1>9, <2>1, <3>4, <4>1, <5>1 DEF PairOK
        <5>4. u # <<>> /\ u[1] = w[2]
          BY <1>7, <5>3
        <5> QED BY <5>2, <5>3, <5>4 DEF Clash
      <4> QED BY <4>2, <4>3
    <3> QED BY <2>2, <3>1, <3>2, <3>3, <3>4, <1>8 DEF PairOK
  <2>12. PairOK(his, s.end, v2, u)
    <3>1. ASSUME his.state # "ExpectId" PROVE s.end.driver = mine.driver
      BY <1>8, <2>4, <3>1
    <3>2. ASSUME his.driver = "bypass", s.end.driver \in {"modern", "legacy"},
                 his.state = "ExpectId"
          PROVE  \/ Gone(v2)
                 \/ Len(v2) >= 2 /\ v2[1].type = "ID" /\ v2[2].type \in {"KEX", "METAKEY"}
      <4>1. CASE mine.driver = "pending"
        <5>1. Len(x) >= 2 /\ x[1].type = "ID" /\ x[2].type \in {"KEX", "METAKEY"}
          BY <2>5, <3>2, <4>1 DEF Progress
        <5>2. v = <<>> => v2 = x
          BY <2>9
        <5> QED BY <2>4, <2>10, <4>1, <5>1, <5>2
      <4>2. CASE mine.driver # "pending"
        <5>1. mine.driver \in {"modern", "legacy"}
          BY <1>8, <3>2, <4>2
        <5>2. Gone(v) \/ (Len(v) >= 2 /\ v[1].type = "ID" /\ v[2].type \in {"KEX", "METAKEY"})
          BY <2>1, <3>2, <5>1 DEF PairOK
        <5>3. Len(v) >= 2 => Len(v2) >= 2 /\ v2[1] = v[1] /\ v2[2] = v[2]
          BY <2>8
        <5> QED BY <2>10, <5>2, <5>3
      <4> QED BY <4>1, <4>2
    <3>3. ASSUME his.driver = "bypass", s.end.driver \in {"modern", "legacy"},
                 his.state = "ExpectAck"
          PROVE  Clash(v2)
      <4>1. mine.driver \in {"modern", "legacy"}
        BY <3>1, <3>3
      <4>2. IF mine.state = "ExpectId" THEN v = <<>> \/ Gone(v) ELSE Clash(v)
        BY <2>1, <3>3, <4>1 DEF PairOK
      <4>3. CASE mine.state = "ExpectId" /\ v = <<>>
        <5>1. x # <<>> /\ x[1].type \in {"KEX", "METAKEY"}
          BY <2>5, <4>1, <4>3 DEF Progress
        <5>2. v2 = x
          BY <2>9, <4>3
        <5> QED BY <5>1, <5>2 DEF Clash
      <4>4. CASE Gone(v) \/ Clash(v)
        BY <2>10, <4>4 DEF Gone, Clash
      <4> QED BY <4>2, <4>3, <4>4
    <3>4. /\ his.driver = "modern" /\ his.state \in {"ExpectAck", "Activated"} => s.end.driver = "modern"
          /\ his.driver = "legacy" /\ his.state \notin {"ExpectId", "ExpectMetaKey"} =>
                s.end.driver = "legacy"
          /\ his.driver = "bypass" /\ his.state = "Activated" => s.end.driver = "bypass"
      BY <2>1, <3>1 DEF PairOK
    <3> QED BY <1>8, <3>2, <3>3, <3>4 DEF PairOK
  <2>13. SideOK(i, d, s.end, his, u, v2)
    BY <1>2, <1>4, <1>7, <2>3, <2>11 DEF SideOK
  <2>14. SideOK(i, e, his, s.end, v2, u)
    BY <1>2, <1>4, <1>11, <2>1, <2>8, <2>12 DEF SideOK
  <2> QED BY <2>13, <2>14
<1> QED BY <1>10, <1>11

(* What is still on its way to an end whose peer closes: what was sent,    *)
(* then the end of the stream.                                             *)
Ended(his, v) == IF his # Closed THEN Append(v, Eof) ELSE v

(* An end that closes: close_meta_connection.                              *)
LEMMA CloseKeeps ==
    ASSUME TwoDaemons, NEW i \in Daemon, NEW d \in Daemon, NEW e, e = Peer(d),
           NEW mine, NEW his, NEW w, NEW v, NEW v2, SideOK(i, e, his, mine, v, w),
           v2 = Ended(his, v)
    PROVE  /\ SideOK(i, d, Closed, his, <<>>, v2)
           /\ SideOK(i, e, his, Closed, v2, <<>>)
<1>1. Peer(e) = d
  BY Peers
<1>2. CASE his = Closed
  BY <1>1, <1>2 DEF SideOK, Ended
<1>3. CASE his # Closed
  <2>1. EndOK(i, e, his) /\ v \in Seq(Said(d))
    BY <1>1, <1>3 DEF SideOK
  <2>2. Eof \in Said(d)
    BY MaySend DEF SaidBy
  <2>3. v2 \in Seq(Said(d))
    BY <1>3, <2>1, <2>2, AppendProperties DEF Ended
  <2> QED BY <1>1, <1>3, <2>1, <2>3 DEF SideOK
<1> QED BY <1>2, <1>3

(* What the network leaves of a stream it loses.                           *)
Lost(end) == IF end = Closed THEN <<>> ELSE <<Eof>>

(* A connection that is lost leaves both ends with the end of the stream.  *)
LEMMA BreakKeeps ==
    ASSUME TwoDaemons, NEW i \in Daemon, NEW d \in Daemon,
           NEW mine, NEW his, NEW w, NEW v, SideOK(i, d, mine, his, w, v)
    PROVE  SideOK(i, d, mine, his, Lost(mine), Lost(his))
<1>1. Peer(d) \in Daemon
  BY Peers
<1>2. CASE mine = Closed
  BY <1>2 DEF SideOK, Lost
<1>3. CASE mine # Closed
  <2>1. PICK g : g = <<Eof>>
    OBVIOUS
  <2>2. \A x : Eof \in SaidBy(Peer(d), x)
    BY MaySend
  <2>3. \A x : <<Eof>> \in Seq(SaidBy(Peer(d), x))
    BY <2>2
  <2>4. Eof \in Said(Peer(d))
    BY <2>2 DEF SaidBy
  <2>5. /\ g \in Seq(Said(Peer(d))) /\ \A x : g \in Seq(SaidBy(Peer(d), x))
        /\ Gone(g) /\ Clash(g)
    <3>1. g # <<>> /\ g[1] = Eof /\ Eof.type = "EOF"
      BY <2>1 DEF Eof, Msg
    <3>2. <<Eof>> \in Seq(Said(Peer(d)))
      BY <2>4
    <3> QED BY <2>1, <2>3, <3>1, <3>2 DEF Gone, Clash
  <2>6. EndOK(i, d, mine) /\ Lost(mine) = g
    BY <1>3, <2>1 DEF SideOK, Lost
  <2>7. CASE his = Closed
    BY <1>3, <2>5, <2>6, <2>7 DEF SideOK
  <2>8. CASE his # Closed
    <3>1. Lost(his) = g /\ PairOK(mine, his, w, v)
      BY <1>3, <2>1, <2>8 DEF SideOK, Lost
    <3>2. PairOK(mine, his, g, g)
      BY <2>5, <3>1 DEF PairOK
    <3> QED BY <1>3, <2>5, <2>6, <2>8, <3>1, <3>2 DEF SideOK
  <2> QED BY <2>7, <2>8
<1> QED BY <1>2, <1>3

(* A new connection: the ID of the side that opens it is on its way.       *)
LEMMA ConnectFits ==
    ASSUME TwoDaemons, NEW i \in Daemon, NEW e, e = Peer(i), NEW end, Chosen(i, end),
           NEW v, v = <<Id(end.minor)>>
    PROVE  /\ SideOK(i, i, end, Pending, <<>>, v)
           /\ SideOK(i, e, Pending, end, v, <<>>)
<1>1. e \in Daemon /\ e # i /\ Peer(e) = i
  BY Peers
<1>2. /\ end # Closed /\ EndOK(i, i, end) /\ end.driver \in {"modern", "bypass", "legacy"}
      /\ end.state = "ExpectId"
  BY DEF Chosen, EndOK, Closed, End
<1>3. Pending # Closed /\ Pending.driver = "pending" /\ Pending.state = "ExpectId"
  BY DEF Pending, Closed, End
<1>4. EndOK(i, e, Pending)
  BY <1>1 DEF EndOK, EndKnows, EndType, Pending, End, Drivers, States, LegacyMinor, UpgradeMinor
<1>5. end.minor \in {LegacyMinor, UpgradeMinor, ProtMinor}
  BY DEF Chosen, EndKnows, EndType
<1>6. \A x : Id(end.minor) \in SaidBy(i, x)
  BY <1>5, MaySend
<1>7. \A x : v \in Seq(SaidBy(i, x))
  BY <1>6
<1>8. Id(end.minor) \in Said(i)
  BY <1>6 DEF SaidBy
<1>9. v \in Seq(Said(i))
  BY <1>8
<1>10. Len(v) = 1 /\ v[1].type = "ID"
  BY DEF Id, Msg
<1>11. PairOK(end, Pending, <<>>, v) /\ PairOK(Pending, end, v, <<>>)
  BY <1>2, <1>3, <1>10 DEF PairOK
<1>12. \A S : <<>> \in Seq(S)
  OBVIOUS
<1> QED BY <1>1, <1>2, <1>3, <1>4, <1>7, <1>9, <1>11, <1>12 DEF SideOK

(* What is true of a connection stays true when a daemon learns a key.     *)
Learns ==
    /\ setting' = setting
    /\ \A d \in Daemon : knows'[d] = knows[d] \/ (knows'[d] = "right" /\ SpeaksBoth(d))

(* What an end knows of the keys it has checked does not get lost.         *)
LEMMA SideStays ==
    ASSUME TwoDaemons, Learns, NEW i \in Daemon, NEW d \in Daemon,
           NEW mine, NEW his, NEW w, NEW v, SideOK(i, d, mine, his, w, v)
    PROVE  SideOK(i, d, mine, his, w, v)'
<1>1. Peer(d)' = Peer(d) /\ Peer(d) \in Daemon
  BY Peers DEF Peer
<1>2. EndOK(i, d, mine) => EndOK(i, d, mine)'
  BY DEF EndOK, EndKnows, EndType, AgreedOptions, AgreedWeight, SpeaksBoth, Experimental,
         Bypass, Learns, Peer
<1>3. Said(Peer(d))' = Said(Peer(d)) /\ \A x : SaidBy(Peer(d), x)' = SaidBy(Peer(d), x)
  BY DEF SaidBy, Said, Learns, Peer
<1>4. PairOK(mine, his, w, v)' <=> PairOK(mine, his, w, v)
  BY DEF PairOK, Gone, Clash
<1> QED BY <1>2, <1>3, <1>4 DEF SideOK, Closed, Peer


(* Every side fits as it is after a step, by what is known before it.      *)
KeysKept ==
    \A i, d \in Daemon :
        SideOK(i, d, conn'[i][d], conn'[i][Peer(d)], wire'[i][d], wire'[i][Peer(d)])

(* To look at every side after a step is enough for the invariant.         *)
LEMMA Carries ==
    ASSUME TwoDaemons, IInv, Learns, Shape', KeysKept
    PROVE  IInv'
<1>1. ASSUME NEW d \in Daemon PROVE (knows[d] # "none" => SpeaksBoth(d))'
  BY DEF IInv, Learns, SpeaksBoth, Experimental, Bypass
<1>2. ASSUME NEW i \in Daemon PROVE ConnOK(i, conn[i], wire[i])'
  <2>1. SUFFICES ASSUME NEW d \in Daemon
                 PROVE  SideOK(i, d, conn[i][d], conn[i][Peer(d)], wire[i][d], wire[i][Peer(d)])'
    BY DEF ConnOK
  <2>2. PICK mine : mine = conn'[i][d]
    OBVIOUS
  <2>3. PICK his : his = conn'[i][Peer(d)]
    OBVIOUS
  <2>4. PICK w : w = wire'[i][d]
    OBVIOUS
  <2>5. PICK v : v = wire'[i][Peer(d)]
    OBVIOUS
  <2>6. SideOK(i, d, mine, his, w, v)
    BY <2>2, <2>3, <2>4, <2>5 DEF KeysKept
  <2>7. SideOK(i, d, mine, his, w, v)'
    BY <2>6, SideStays
  <2>8. Peer(d)' = Peer(d)
    BY DEF Peer
  <2> QED BY <2>2, <2>3, <2>4, <2>5, <2>7, <2>8
<1> QED BY <1>1, <1>2 DEF IInv

(* It is enough to look at a connection from one of its sides.             *)
LEMMA BothSides ==
    ASSUME TwoDaemons, NEW i \in Daemon, NEW d \in Daemon, NEW e, e = Peer(d),
           SideOK(i, d, conn'[i][d], conn'[i][e], wire'[i][d], wire'[i][e]),
           SideOK(i, e, conn'[i][e], conn'[i][d], wire'[i][e], wire'[i][d])
    PROVE  \A x \in Daemon :
              SideOK(i, x, conn'[i][x], conn'[i][Peer(x)], wire'[i][x], wire'[i][Peer(x)])
<1>1. Peer(e) = d /\ \A x \in Daemon : x = d \/ x = e
  BY Peers
<1> QED BY <1>1

(* What the invariant says of the two sides of a connection.               *)
LEMMA SidesFit ==
    ASSUME TwoDaemons, IInv, NEW i \in Daemon, NEW d \in Daemon, NEW e, e = Peer(d)
    PROVE  /\ e \in Daemon /\ e # d /\ Peer(e) = d
           /\ SideOK(i, d, conn[i][d], conn[i][e], wire[i][d], wire[i][e])
           /\ SideOK(i, e, conn[i][e], conn[i][d], wire[i][e], wire[i][d])
<1>1. e \in Daemon /\ e # d /\ Peer(e) = d
  BY Peers
<1> QED BY <1>1 DEF IInv, ConnOK

(* close_meta_connection leaves the other connection alone.                *)
LEMMA ClosingKeeps ==
    ASSUME TwoDaemons, IInv, NEW i \in Daemon, NEW d \in Daemon, CloseEnds({<<i, d>>}),
           knows' = knows
    PROVE  Shape' /\ KeysKept
<1>1. Shape'
  BY DEF IInv, Shape, CloseEnds
<1>2. PICK e : e = Peer(d)
  OBVIOUS
<1>3. ASSUME NEW j \in Daemon
      PROVE  \A x \in Daemon :
                SideOK(j, x, conn'[j][x], conn'[j][Peer(x)], wire'[j][x], wire'[j][Peer(x)])
  <2>1. /\ e \in Daemon /\ e # d /\ Peer(e) = d
        /\ SideOK(j, d, conn[j][d], conn[j][e], wire[j][d], wire[j][e])
        /\ SideOK(j, e, conn[j][e], conn[j][d], wire[j][e], wire[j][d])
    BY <1>2, SidesFit
  <2>2. CASE j = i
    <3>1. PICK v2 : v2 = Ended(conn[i][e], wire[i][e])
      OBVIOUS
    <3>2. /\ conn'[i][d] = Closed /\ conn'[i][e] = conn[i][e]
          /\ wire'[i][d] = <<>> /\ wire'[i][e] = v2
      BY <1>2, <2>1, <3>1 DEF CloseEnds, Ended
    <3>3. /\ SideOK(i, d, Closed, conn[i][e], <<>>, v2)
          /\ SideOK(i, e, conn[i][e], Closed, v2, <<>>)
      BY <1>2, <2>1, <2>2, <3>1, CloseKeeps
    <3>4. /\ SideOK(i, d, conn'[i][d], conn'[i][e], wire'[i][d], wire'[i][e])
          /\ SideOK(i, e, conn'[i][e], conn'[i][d], wire'[i][e], wire'[i][d])
      BY <3>2, <3>3
    <3> QED BY <1>2, <2>2, <3>4, BothSides
  <2>3. CASE j # i
    <3>1. /\ conn'[j][d] = conn[j][d] /\ conn'[j][e] = conn[j][e]
          /\ wire'[j][d] = wire[j][d] /\ wire'[j][e] = wire[j][e]
      BY <2>1, <2>3 DEF CloseEnds
    <3>2. /\ SideOK(j, d, conn'[j][d], conn'[j][e], wire'[j][d], wire'[j][e])
          /\ SideOK(j, e, conn'[j][e], conn'[j][d], wire'[j][e], wire'[j][d])
      BY <2>1, <3>1
    <3> QED BY <1>2, <3>2, BothSides
  <2> QED BY <2>2, <2>3
<1> QED BY <1>1, <1>3 DEF KeysKept

(* connect_peer.                                                           *)
LEMMA ConnectKeeps ==
    ASSUME TwoDaemons, IInv, NEW i \in Daemon, Connect(i)
    PROVE  Learns /\ Shape' /\ KeysKept
<1>1. Learns
  BY DEF Connect, Learns
<1>2. PICK e : e = Peer(i)
  OBVIOUS
<1>3. PICK end : end = DriverForPeer(i, TRUE)
  OBVIOUS
<1>4. Chosen(i, end)
  BY <1>3, DriversForPeer DEF Connect
<1>5. e \in Daemon /\ e # i
  BY <1>2, Peers
<1>6. conn[i][i] = Closed /\ conn[i][e] = Closed
  BY <1>5 DEF Connect
<1>7. wire[i][i] = <<>> /\ wire[i][e] = <<>>
  BY <1>2, <1>6, SidesFit DEF SideOK
<1>8. PICK c : c = [d \in Daemon |-> IF d = i THEN end ELSE Pending]
  OBVIOUS
<1>9. PICK v : v = <<Id(end.minor)>>
  OBVIOUS
<1>10. conn' = [conn EXCEPT ![i] = c] /\ wire' = [wire EXCEPT ![i][e] = v] /\ knows' = knows
  BY <1>2, <1>3, <1>8, <1>9 DEF Connect
<1>11. Shape'
  BY <1>8, <1>10 DEF IInv, Shape
<1>12. ASSUME NEW j \in Daemon
       PROVE  \A x \in Daemon :
                 SideOK(j, x, conn'[j][x], conn'[j][Peer(x)], wire'[j][x], wire'[j][Peer(x)])
  <2>1. /\ SideOK(j, i, conn[j][i], conn[j][e], wire[j][i], wire[j][e])
        /\ SideOK(j, e, conn[j][e], conn[j][i], wire[j][e], wire[j][i])
    BY <1>2, SidesFit
  <2>2. CASE j = i
    <3>1. /\ conn'[i][i] = end /\ conn'[i][e] = Pending
          /\ wire'[i][i] = <<>> /\ wire'[i][e] = v
      BY <1>5, <1>7, <1>8, <1>10 DEF IInv, Shape
    <3>2. /\ SideOK(i, i, end, Pending, <<>>, v)
          /\ SideOK(i, e, Pending, end, v, <<>>)
      BY <1>2, <1>4, <1>9, ConnectFits
    <3>3. /\ SideOK(i, i, conn'[i][i], conn'[i][e], wire'[i][i], wire'[i][e])
          /\ SideOK(i, e, conn'[i][e], conn'[i][i], wire'[i][e], wire'[i][i])
      BY <3>1, <3>2
    <3> QED BY <1>2, <2>2, <3>3, BothSides
  <2>3. CASE j # i
    <3>1. conn'[j] = conn[j] /\ wire'[j] = wire[j]
      BY <1>10, <2>3 DEF IInv, Shape
    <3>2. /\ SideOK(j, i, conn'[j][i], conn'[j][e], wire'[j][i], wire'[j][e])
          /\ SideOK(j, e, conn'[j][e], conn'[j][i], wire'[j][e], wire'[j][i])
      BY <2>1, <3>1
    <3> QED BY <1>2, <3>2, BothSides
  <2> QED BY <2>2, <2>3
<1> QED BY <1>1, <1>11, <1>12 DEF KeysKept

(* The network may lose a connection at any time.                          *)
LEMMA BreakingKeeps ==
    ASSUME TwoDaemons, IInv, NEW i \in Daemon, Break(i)
    PROVE  Learns /\ Shape' /\ KeysKept
<1>1. Learns
  BY DEF Break, Learns
<1>2. PICK g : g = <<Eof>>
  OBVIOUS
<1>3. PICK c : c = [d \in Daemon |-> IF conn[i][d] = Closed THEN <<>> ELSE g]
  OBVIOUS
<1>4. conn' = conn /\ knows' = knows /\ wire' = [wire EXCEPT ![i] = c]
  BY <1>2, <1>3 DEF Break
<1>5. Shape'
  BY <1>3, <1>4 DEF IInv, Shape
<1>6. ASSUME NEW j \in Daemon, NEW x \in Daemon
      PROVE  SideOK(j, x, conn'[j][x], conn'[j][Peer(x)], wire'[j][x], wire'[j][Peer(x)])
  <2>1. PICK e : e = Peer(x)
    OBVIOUS
  <2>2. e \in Daemon /\ SideOK(j, x, conn[j][x], conn[j][e], wire[j][x], wire[j][e])
    BY <2>1, SidesFit
  <2>3. CASE j = i
    <3>1. wire'[i][x] = Lost(conn[i][x]) /\ wire'[i][e] = Lost(conn[i][e])
      BY <1>2, <1>3, <1>4, <2>2 DEF IInv, Shape, Lost
    <3>2. SideOK(i, x, conn[i][x], conn[i][e], Lost(conn[i][x]), Lost(conn[i][e]))
      BY <2>2, <2>3, BreakKeeps
    <3> QED BY <1>4, <2>1, <2>3, <3>1, <3>2
  <2>4. CASE j # i
    <3>1. wire'[j] = wire[j]
      BY <1>4, <2>4 DEF IInv, Shape
    <3> QED BY <1>4, <2>1, <2>2, <3>1
  <2> QED BY <2>3, <2>4
<1> QED BY <1>1, <1>5, <1>6 DEF KeysKept

(* A message is taken: what the end makes of it, and what becomes of an    *)
(* earlier connection that the new one replaces.                           *)
LEMMA TakingKeeps ==
    ASSUME TwoDaemons, IInv, NEW i \in Daemon, NEW d \in Daemon, Receive(i, d),
           NEW m, m = Head(wire[i][d]), NEW r, r = Received(i, d, conn[i][d], m),
           ~(CloseEnds({<<i, d>>}) /\ knows' = knows)
    PROVE  /\ Progress(i, d, conn[i][d], m, r) /\ conn'[i][d] = r.end
           /\ Learns /\ Shape' /\ KeysKept
<1>1. PICK e : e = Peer(d)
  OBVIOUS
<1>2. e \in Daemon /\ e # d /\ Peer(e) = d /\ \A x \in Daemon : x = d \/ x = e
  BY <1>1, Peers
<1>3. PICK s : s = LearnKey(d, r)
  OBVIOUS
<1>4. wire[i][d] # <<>> /\ conn[i][d] # Closed /\ s # Fail
  BY <1>3 DEF Receive
<1>5. s = r /\ r # Fail
  BY <1>3, <1>4 DEF LearnKey
<1>6. PICK D : D = {j \in Daemon \ {i} : r.end.state = "Activated" /\ conn[j][d].state = "Activated"}
  OBVIOUS
<1>7. /\ \A j, x \in Daemon :
            /\ conn'[j][x] = IF j = i /\ x = d THEN r.end
                             ELSE IF j \in D /\ x = d THEN Closed
                             ELSE conn[j][x]
            /\ wire'[j][x] = IF j = i /\ x = d THEN Tail(wire[i][d])
                             ELSE IF j = i THEN Sent(conn[i][x], wire[i][x], r.sends)
                             ELSE IF j \in D /\ x = d THEN <<>>
                             ELSE IF j \in D THEN Ended(conn[j][x], wire[j][x])
                             ELSE wire[j][x]
      /\ DOMAIN conn' = Daemon /\ DOMAIN wire' = Daemon
      /\ \A j \in Daemon : DOMAIN conn'[j] = Daemon /\ DOMAIN wire'[j] = Daemon
      /\ knows' = IF r.learned THEN [knows EXCEPT ![d] = "right"] ELSE knows
      /\ setting' = setting
  <2>1. r = LearnKey(d, Received(i, d, conn[i][d], Head(wire[i][d])))
    BY <1>3, <1>5
  <2>2. ApplyStep(i, d, r) /\ setting' = setting
    <3>1. ApplyStep(i, d, LearnKey(d, Received(i, d, conn[i][d], Head(wire[i][d])))) /\ setting' = setting
      BY Zenon DEF Receive
    <3> QED BY <2>1, <3>1
  <2>3. ASSUME NEW j \in Daemon, NEW x \in Daemon
        PROVE  conn'[j][x] = IF j = i /\ x = d THEN r.end
                             ELSE IF j \in D /\ x = d THEN Closed
                             ELSE conn[j][x]
    BY <1>6, <2>2 DEF ApplyStep
  <2>4. ASSUME NEW j \in Daemon, NEW x \in Daemon
        PROVE  wire'[j][x] = IF j = i /\ x = d THEN Tail(wire[i][d])
                             ELSE IF j = i THEN Sent(conn[i][x], wire[i][x], r.sends)
                             ELSE IF j \in D /\ x = d THEN <<>>
                             ELSE IF j \in D THEN Ended(conn[j][x], wire[j][x])
                             ELSE wire[j][x]
    BY <1>6, <2>2 DEF ApplyStep, Sent, Ended
  <2>5. /\ DOMAIN conn' = Daemon /\ DOMAIN wire' = Daemon
        /\ \A j \in Daemon : DOMAIN conn'[j] = Daemon /\ DOMAIN wire'[j] = Daemon
    BY <2>2 DEF ApplyStep
  <2>6. /\ knows' = IF r.learned THEN [knows EXCEPT ![d] = "right"] ELSE knows
        /\ setting' = setting
    BY <2>2 DEF ApplyStep
  <2> QED BY <2>3, <2>4, <2>5, <2>6
<1>8. /\ SideOK(i, d, conn[i][d], conn[i][e], wire[i][d], wire[i][e])
      /\ SideOK(i, e, conn[i][e], conn[i][d], wire[i][e], wire[i][d])
  BY <1>1, SidesFit
<1>9. EndOK(i, d, conn[i][d]) /\ wire[i][d] \in Seq(Said(e))
  BY <1>1, <1>4, <1>8 DEF SideOK
<1>10. m \in Said(Peer(d))
  BY <1>1, <1>4, <1>9, HeadTailProperties
<1>11. Progress(i, d, conn[i][d], m, r)
  BY <1>5, <1>9, <1>10, EndsProgress DEF IInv
<1>12. Learns
  <2>1. r.learned => SpeaksBoth(d)
    BY <1>11 DEF Progress
  <2> QED BY <1>7, <2>1 DEF Learns, IInv, Shape
<1>13. Shape'
  BY <1>7 DEF IInv, Shape
<1>14. ASSUME NEW j \in Daemon
       PROVE  \A x \in Daemon :
                 SideOK(j, x, conn'[j][x], conn'[j][Peer(x)], wire'[j][x], wire'[j][Peer(x)])
  <2>1. CASE j = i
    <3>1. PICK v2 : v2 = Sent(conn[i][e], wire[i][e], r.sends)
      OBVIOUS
    <3>2. PICK u : u = Tail(wire[i][d])
      OBVIOUS
    <3>3. /\ conn'[i][d] = r.end /\ conn'[i][e] = conn[i][e]
          /\ wire'[i][d] = u /\ wire'[i][e] = v2
      BY <1>2, <1>6, <1>7, <3>1, <3>2
    <3>4. ~Empty(wire[i][d]) /\ m = First(wire[i][d])
      BY <1>4 DEF Empty, First
    <3>5. /\ SideOK(i, d, r.end, conn[i][e], u, v2)
          /\ SideOK(i, e, conn[i][e], r.end, v2, u)
      BY <1>1, <1>4, <1>8, <1>11, <3>1, <3>2, <3>4, ReceiveKeeps
    <3>6. /\ SideOK(i, d, conn'[i][d], conn'[i][e], wire'[i][d], wire'[i][e])
          /\ SideOK(i, e, conn'[i][e], conn'[i][d], wire'[i][e], wire'[i][d])
      BY <3>3, <3>5
    <3> QED BY <1>1, <2>1, <3>6, BothSides
  <2>2. CASE j \in D
    <3>1. PICK v2 : v2 = Ended(conn[j][e], wire[j][e])
      OBVIOUS
    <3>2. /\ conn'[j][d] = Closed /\ conn'[j][e] = conn[j][e]
          /\ wire'[j][d] = <<>> /\ wire'[j][e] = v2
      BY <1>2, <1>6, <1>7, <2>2, <3>1
    <3>3. SideOK(j, e, conn[j][e], conn[j][d], wire[j][e], wire[j][d])
      BY <1>1, SidesFit
    <3>4. /\ SideOK(j, d, Closed, conn[j][e], <<>>, v2)
          /\ SideOK(j, e, conn[j][e], Closed, v2, <<>>)
      BY <1>1, <3>1, <3>3, CloseKeeps
    <3>5. /\ SideOK(j, d, conn'[j][d], conn'[j][e], wire'[j][d], wire'[j][e])
          /\ SideOK(j, e, conn'[j][e], conn'[j][d], wire'[j][e], wire'[j][d])
      BY <3>2, <3>4
    <3> QED BY <1>1, <3>5, BothSides
  <2>3. CASE j # i /\ j \notin D
    <3>1. /\ conn'[j][d] = conn[j][d] /\ conn'[j][e] = conn[j][e]
          /\ wire'[j][d] = wire[j][d] /\ wire'[j][e] = wire[j][e]
      BY <1>2, <1>7, <2>3
    <3>2. /\ SideOK(j, d, conn[j][d], conn[j][e], wire[j][d], wire[j][e])
          /\ SideOK(j, e, conn[j][e], conn[j][d], wire[j][e], wire[j][d])
      BY <1>1, SidesFit
    <3>3. /\ SideOK(j, d, conn'[j][d], conn'[j][e], wire'[j][d], wire'[j][e])
          /\ SideOK(j, e, conn'[j][e], conn'[j][d], wire'[j][e], wire'[j][d])
      BY <3>1, <3>2
    <3> QED BY <1>1, <3>3, BothSides
  <2> QED BY <2>1, <2>2, <2>3
<1> QED BY <1>2, <1>7, <1>11, <1>12, <1>13, <1>14 DEF KeysKept

(* Before the first connection.                                            *)
LEMMA Initially ==
    ASSUME TwoDaemons, AuthInit
    PROVE  IInv
<1>1. Shape
  BY DEF AuthInit, Shape
<1>2. ASSUME NEW d \in Daemon, knows[d] # "none" PROVE SpeaksBoth(d)
  BY <1>2 DEF AuthInit, SpeaksBoth, Experimental, Bypass
<1>3. ASSUME NEW i \in Daemon PROVE ConnOK(i, conn[i], wire[i])
  <2>1. \A d \in Daemon : conn[i][d] = Closed /\ wire[i][d] = <<>> /\ Peer(d) \in Daemon
    BY Peers DEF AuthInit
  <2> QED BY <2>1 DEF ConnOK, SideOK
<1> QED BY <1>1, <1>2, <1>3 DEF IInv

(* Every step of a daemon or of the network keeps the invariant.           *)
LEMMA StepsKeep ==
    ASSUME TwoDaemons, IInv, [AuthNext]_authVars
    PROVE  IInv'
<1>1. CASE UNCHANGED authVars
  <2>1. Learns /\ Shape'
    BY <1>1 DEF authVars, Learns, IInv, Shape
  <2>2. KeysKept
    BY <1>1 DEF authVars, KeysKept, IInv, ConnOK
  <2> QED BY <2>1, <2>2, Carries
<1>2. ASSUME NEW i \in Daemon, NEW d \in Daemon, Receive(i, d) PROVE IInv'
  <2>1. CASE CloseEnds({<<i, d>>}) /\ knows' = knows
    <3>1. Learns
      BY <1>2, <2>1 DEF Receive, Learns
    <3> QED BY <2>1, <3>1, ClosingKeeps, Carries
  <2>2. CASE ~(CloseEnds({<<i, d>>}) /\ knows' = knows)
    <3>1. PICK m : m = Head(wire[i][d])
      OBVIOUS
    <3>2. PICK r : r = Received(i, d, conn[i][d], m)
      OBVIOUS
    <3>3. Learns /\ Shape' /\ KeysKept
      BY <1>2, <2>2, <3>1, <3>2, TakingKeeps
    <3> QED BY <3>3, Carries
  <2> QED BY <2>1, <2>2
<1>3. ASSUME NEW i \in Daemon, NEW d \in Daemon, FinishClose(i, d) \/ GiveUp(i, d) PROVE IInv'
  <2>1. CloseEnds({<<i, d>>}) /\ knows' = knows /\ Learns
    BY <1>3 DEF FinishClose, GiveUp, Learns
  <2> QED BY <2>1, ClosingKeeps, Carries
<1>4. ASSUME NEW i \in Daemon, Connect(i) PROVE IInv'
  BY <1>4, ConnectKeeps, Carries
<1>5. ASSUME NEW i \in Daemon, Break(i) PROVE IInv'
  BY <1>5, BreakingKeeps, Carries
<1> QED BY <1>1, <1>2, <1>3, <1>4, <1>5 DEF AuthNext

(* Both ends of an activated connection have agreed: by what each knows by *)
(* itself, and because each knows the driver of the other.                 *)
LEMMA Agreed ==
    ASSUME TwoDaemons, Weight \in [Daemon -> Int], IInv
    PROVE  EndsAgree
<1>1. SUFFICES ASSUME NEW i \in Daemon, Up(i)
      PROVE  /\ conn[i][i].driver = conn[i][Peer(i)].driver
             /\ conn[i][i].negotiated = conn[i][Peer(i)].negotiated
             /\ conn[i][i].weight = conn[i][Peer(i)].weight
             /\ conn[i][i].options = conn[i][Peer(i)].options
             /\ conn[i][i].driver = "modern" => \A d \in Daemon : knows[d] = "right"
             /\ conn[i][i].driver = "legacy" => \A d \in Daemon : setting.rsa[d] = "right"
  BY DEF EndsAgree
<1>2. PICK e : e = Peer(i)
  OBVIOUS
<1>3. e \in Daemon /\ e # i /\ Peer(e) = i /\ \A x \in Daemon : x = i \/ x = e
  BY <1>2, Peers
<1>4. PICK mine : mine = conn[i][i]
  OBVIOUS
<1>5. PICK his : his = conn[i][e]
  OBVIOUS
<1>6. mine.state = "Activated" /\ his.state = "Activated"
  BY <1>1, <1>3, <1>4, <1>5 DEF Up
<1>7. mine # Closed /\ his # Closed
  BY <1>6 DEF Closed, End
<1>8. /\ EndOK(i, i, mine) /\ EndOK(i, e, his)
      /\ \E w, v : PairOK(mine, his, w, v) /\ PairOK(his, mine, v, w)
  BY <1>2, <1>3, <1>4, <1>5, <1>7, SidesFit, ZenonT(60) DEF SideOK
<1>9. /\ mine.driver \in {"modern", "bypass", "legacy"}
      /\ his.driver \in {"modern", "bypass", "legacy"}
  BY <1>6, <1>8 DEF EndOK, Pending, End
<1>10. mine.driver = his.driver
  BY <1>6, <1>8, <1>9 DEF PairOK
<1>11. mine.negotiated = his.negotiated
  BY <1>6, <1>8 DEF EndOK, EndKnows
<1>12. AgreedWeight(i) = AgreedWeight(e)
  BY <1>2, <1>3 DEF AgreedWeight
<1>13. AgreedOptions(i) = AgreedOptions(e)
  BY <1>2, <1>3 DEF AgreedOptions
<1>14. mine.weight = his.weight /\ mine.options = his.options
  BY <1>6, <1>8, <1>12, <1>13 DEF EndOK, EndKnows
<1>15. mine.driver = "modern" => knows[i] = "right" /\ knows[e] = "right"
  BY <1>6, <1>8, <1>10 DEF EndOK, EndKnows
<1>16. mine.driver = "legacy" => setting.rsa[i] = "right" /\ setting.rsa[e] = "right"
  BY <1>2, <1>3, <1>6, <1>8, <1>10 DEF EndOK, EndKnows
<1> QED BY <1>2, <1>3, <1>4, <1>5, <1>10, <1>11, <1>14, <1>15, <1>16

(* Where a key is known, connect_peer takes SPTPS and an incoming ID that  *)
(* leads to the legacy driver is one of an upgrade.                        *)
LEMMA StepsDoNotRollBack ==
    ASSUME TwoDaemons, IInv, [AuthNext]_authVars
    PROVE  NoDriverRollsBack
<1>1. SUFFICES ASSUME NEW j \in Daemon, NEW x \in Daemon, conn'[j][x].driver = "legacy",
                      conn[j][x].driver # "legacy", knows[x] # "none"
               PROVE  conn'[j][x].negotiated # LegacyMinor
  BY DEF NoDriverRollsBack
<1>2. Closed.driver # "legacy" /\ Pending.driver # "legacy"
  BY DEF Closed, Pending, End
<1>3. CASE UNCHANGED authVars
  BY <1>1, <1>3 DEF authVars
<1>4. ASSUME NEW i \in Daemon, NEW d \in Daemon, CloseEnds({<<i, d>>}) PROVE FALSE
  <2>1. conn'[j][x] = Closed \/ conn'[j][x] = conn[j][x]
    BY <1>4 DEF CloseEnds
  <2> QED BY <1>1, <1>2, <2>1
<1>5. ASSUME NEW i \in Daemon, NEW d \in Daemon, Receive(i, d)
      PROVE  conn'[j][x].negotiated # LegacyMinor
  <2>1. PICK m : m = Head(wire[i][d])
    OBVIOUS
  <2>2. PICK r : r = Received(i, d, conn[i][d], m)
    OBVIOUS
  <2>0. ~CloseEnds({<<i, d>>})
    BY <1>4
  <2>3. Progress(i, d, conn[i][d], m, r) /\ conn'[i][d] = r.end
    BY <1>5, <2>0, <2>1, <2>2, TakingKeeps
  <2>4. CASE j = i /\ x = d
    BY <1>1, <2>3, <2>4 DEF Progress, LegacyMinor, UpgradeMinor
  <2>5. CASE ~(j = i /\ x = d)
    <3>1. conn'[j][x] = Closed \/ conn'[j][x] = conn[j][x]
      <4>1. PICK s : s = LearnKey(d, Received(i, d, conn[i][d], Head(wire[i][d])))
        OBVIOUS
      <4>2. ApplyStep(i, d, LearnKey(d, Received(i, d, conn[i][d], Head(wire[i][d]))))
        BY <1>4, <1>5, Zenon DEF Receive
      <4>3. ApplyStep(i, d, s)
        BY <4>1, <4>2
      <4> QED BY <2>5, <4>3 DEF ApplyStep
    <3> QED BY <1>1, <1>2, <3>1
  <2> QED BY <2>4, <2>5
<1>6. ASSUME NEW i \in Daemon, NEW d \in Daemon, FinishClose(i, d) \/ GiveUp(i, d) PROVE FALSE
  BY <1>4, <1>6 DEF FinishClose, GiveUp
<1>7. ASSUME NEW i \in Daemon, Connect(i) PROVE FALSE
  <2>1. PICK end : end = DriverForPeer(i, TRUE)
    OBVIOUS
  <2>2. PICK c : c = [d \in Daemon |-> IF d = i THEN end ELSE Pending]
    OBVIOUS
  <2>3. conn' = [conn EXCEPT ![i] = c]
    BY <1>7, <2>1, <2>2 DEF Connect
  <2>4. CASE j = i /\ x = i
    <3>1. conn'[j][x] = end
      BY <2>2, <2>3, <2>4 DEF IInv, Shape
    <3>2. end.driver = "modern"
      BY <1>1, <1>7, <2>1, <2>4, DriversForPeer DEF Connect, IInv
    <3> QED BY <1>1, <3>1, <3>2
  <2>5. CASE j = i /\ x # i
    <3>1. conn'[j][x] = Pending
      BY <2>2, <2>3, <2>5 DEF IInv, Shape
    <3> QED BY <1>1, <1>2, <3>1
  <2>6. CASE j # i
    <3>1. conn'[j] = conn[j]
      BY <2>3, <2>6 DEF IInv, Shape
    <3> QED BY <1>1, <3>1
  <2> QED BY <2>4, <2>5, <2>6
<1>8. ASSUME NEW i \in Daemon, Break(i) PROVE FALSE
  BY <1>1, <1>8 DEF Break
<1> QED BY <1>3, <1>5, <1>6, <1>7, <1>8 DEF AuthNext

(* The invariant of meta authentication: what each end has checked, and    *)
(* what it can know of the driver of the other from what it has read.      *)
THEOREM AuthInvariant == AuthInit /\ [][AuthNext]_authVars => []IInv
<1>1. AuthInit => IInv
  BY AuthAssumption, Initially
<1>2. IInv /\ [AuthNext]_authVars => IInv'
  BY AuthAssumption, StepsKeep
<1> QED BY <1>1, <1>2, PTL

(* EndsAgree for every setting of the two daemons, every choice of keys,   *)
(* and however often connections break or are given up: the two ends of an *)
(* activated connection agree on the protocol, the weight and the options, *)
(* and hold the right keys.                                                *)
THEOREM ConnectionsAgree == AuthInit /\ [][AuthNext]_authVars => []EndsAgree
<1>1. AuthInit /\ [][AuthNext]_authVars => []IInv
  BY AuthInvariant
<1>2. IInv => EndsAgree
  BY AuthAssumption, Agreed
<1> QED BY <1>1, <1>2, PTL

(* NoRollback likewise: a daemon that knows an Ed25519 key of its peer does *)
(* not take up the legacy protocol with it, except for an upgrade.         *)
THEOREM KeyHoldersDoNotRollBack == AuthInit /\ [][AuthNext]_authVars => NoRollback
<1>1. AuthInit /\ [][AuthNext]_authVars => []IInv
  BY AuthInvariant
<1>2. IInv /\ [AuthNext]_authVars => [NoDriverRollsBack]_authVars
  BY AuthAssumption, StepsDoNotRollBack
<1> QED BY <1>1, <1>2, PTL DEF NoRollback

-----------------------------------------------------------------------------
(***************************************************************************)
(* The key files.                                                          *)
(***************************************************************************)

(* The first of the numbers of a set, if it is one of them.                *)
LEMMA MinIs ==
    ASSUME NEW S, NEW m \in S, S \subseteq Nat, \A i \in S : m <= i
    PROVE  Min(S) = m
<1>1. \A x \in S : (\A y \in S : x <= y) => x = m
  <2>1. SUFFICES ASSUME NEW x \in S, \A y \in S : x <= y PROVE x = m
    OBVIOUS
  <2>2. x \in Nat /\ m \in Nat /\ x <= m /\ m <= x
    BY <2>1
  <2> QED BY <2>2
<1>2. Min(S) \in S /\ \A y \in S : Min(S) <= y
  BY DEF Min
<1> QED BY <1>1, <1>2

(* What is in the files.  That a check is honest depends on the state in   *)
(* which it is made and on the files it leaves behind.                     *)
KeyItem ==
    {i \in [form : {"line", "pem", "other"}, kind : Kinds \union {"none"}, key : Nat] :
        i.form # "other" => i.key # NoKey}

KeyTypes ==
    /\ private \in [Kinds -> Seq(Nat)]
    /\ host \in Seq(KeyItem)
    /\ used \in [{"keys", "steps", "cuts", "changes"} -> Nat]

(* A key file that is not empty begins with a key.                         *)
LEMMA PrivateIsNat ==
    ASSUME KeyTypes, NEW k \in Kinds
    PROVE  PrivateKey(k) \in Nat /\ FsckPrivate(k) \in Nat
<1>1. private[k] \in Seq(Nat)
  BY DEF KeyTypes
<1>2. PICK p : p = private[k]
  OBVIOUS
<1>3. ASSUME p # <<>> PROVE Head(p) \in Nat
  BY <1>1, <1>2, <1>3
<1> QED BY <1>2, <1>3 DEF PrivateKey, FsckPrivate, NoKey

(* The first files are of these types.                                     *)
LEMMA InitKeyTypes == KeyFilesInit => KeyTypes
<1> SUFFICES ASSUME KeyFilesInit PROVE KeyTypes
  OBVIOUS
<1>1. PICK e : e = <<>>
  OBVIOUS
<1>2. e \in Seq(Nat) /\ e \in Seq(KeyItem)
  BY <1>1, EmptySeq
<1> QED BY <1>1, <1>2 DEF KeyFilesInit, KeyTypes, Bounds

(* fsck appends keys that it has found.                                    *)
LEMMA FsckKeyTypes ==
    ASSUME KeyTypes, NEW force \in BOOLEAN, Fsck(force)
    PROVE  KeyTypes'
<1> DEFINE fixed == IF force THEN {k \in Kinds : Fixes(k)} ELSE {}
           pem(k) == IF k \in fixed THEN <<Item("pem", k, FsckPrivate(k))>> ELSE <<>>
<1>1. \A k \in Kinds : pem(k) \in Seq(KeyItem)
  <2>1. SUFFICES ASSUME NEW k \in Kinds PROVE pem(k) \in Seq(KeyItem)
    OBVIOUS
  <2>2. PICK i : i = Item("pem", k, FsckPrivate(k))
    OBVIOUS
  <2>3. CASE k \in fixed
    <3>1. i \in KeyItem
      BY <2>2, <2>3, PrivateIsNat DEF Item, KeyItem, Fixes
    <3>2. <<i>> \in Seq(KeyItem)
      BY <3>1
    <3> QED BY <2>2, <2>3, <3>2
  <2>4. CASE k \notin fixed
    <3>1. <<>> \in Seq(KeyItem)
      BY EmptySeq
    <3> QED BY <2>4, <3>1
  <2> QED BY <2>3, <2>4
<1>2. "rsa" \in Kinds /\ "ed" \in Kinds
  BY DEF Kinds
<1>3. host' = host \o pem("rsa") \o pem("ed")
  BY DEF Fsck
<1>4. host' \in Seq(KeyItem)
  <2> HIDE DEF pem
  <2>1. PICK a : a = pem("rsa")
    OBVIOUS
  <2>2. PICK b : b = pem("ed")
    OBVIOUS
  <2>3. a \in Seq(KeyItem) /\ b \in Seq(KeyItem) /\ host \in Seq(KeyItem)
    BY <1>1, <1>2, <2>1, <2>2 DEF KeyTypes
  <2>4. host \o a \in Seq(KeyItem)
    BY <2>3, ConcatProperties
  <2> QED BY <1>3, <2>1, <2>2, <2>3, <2>4, ConcatProperties
<1>5. private' = private
  BY DEF Fsck
<1>6. used' = [used EXCEPT !["steps"] = @ + 1]
  BY DEF Fsck, OneStep, Use
<1> QED BY <1>4, <1>5, <1>6 DEF KeyTypes

(* The keys that a command makes, and how many there were before.          *)
LEMMA WrittenKeyTypes ==
    ASSUME KeyTypes, NEW kinds \in {<<"rsa", "ed">>, <<"rsa">>, <<"ed">>}, NEW done \in 0 .. 4,
           done <= 2 * Len(kinds), NEW more \in Seq(KeyItem),
           Makes(kinds, done), Written(kinds, done, more)
    PROVE  KeyTypes'
<1> DEFINE public == [i \in 1 .. done \div 2 |-> PublicItem(kinds[i], used.keys + i)]
<1>0. /\ used.keys \in Nat /\ Len(kinds) \in Nat /\ Len(kinds) <= 2
      /\ done \div 2 \in Nat /\ done \div 2 <= Len(kinds)
      /\ \A i \in 1 .. Len(kinds) : kinds[i] \in Kinds
  <2>1. used.keys \in Nat
    BY DEF KeyTypes
  <2>2. CASE kinds = <<"rsa", "ed">>
    <3>1. Len(kinds) = 2 /\ kinds[1] = "rsa" /\ kinds[2] = "ed"
      BY <2>2
    <3> QED BY <2>1, <3>1 DEF Kinds
  <2>3. CASE kinds = <<"rsa">> \/ kinds = <<"ed">>
    <3>1. Len(kinds) = 1 /\ kinds[1] \in Kinds
      BY <2>3 DEF Kinds
    <3> QED BY <2>1, <3>1
  <2> QED BY <2>2, <2>3
<1>1. public \in Seq(KeyItem) /\ <<>> \in Seq(KeyItem)
  <2>1. \A i \in 1 .. done \div 2 : PublicItem(kinds[i], used.keys + i) \in KeyItem
    BY <1>0 DEF PublicItem, Item, KeyItem, Kinds, NoKey
  <2>2. public \in [1 .. done \div 2 -> KeyItem]
    BY <2>1
  <2> QED BY <1>0, <2>2, EmptySeq, SeqDef
<1>2. host' \in Seq(KeyItem)
  <2> HIDE DEF public
  <2>1. PICK a : a = IF conf' THEN public ELSE <<>>
    OBVIOUS
  <2>2. a \in Seq(KeyItem) /\ host \in Seq(KeyItem)
    BY <1>1, <2>1 DEF KeyTypes
  <2>3. host' = host \o a \o more
    BY <2>1 DEF Written, public
  <2>4. host \o a \in Seq(KeyItem)
    BY <2>2, ConcatProperties
  <2> QED BY <2>3, <2>4, ConcatProperties
<1>3. private' \in [Kinds -> Seq(Nat)]
  <2>1. \A k \in ToSet(kinds) : Position(kinds, k) \in Nat
    <3>1. SUFFICES ASSUME NEW k \in ToSet(kinds) PROVE Position(kinds, k) \in Nat
      OBVIOUS
    <3>2. DOMAIN kinds = 1 .. Len(kinds)
      BY LenProperties
    <3>3. \E i \in DOMAIN kinds : kinds[i] = k
      BY <3>1 DEF ToSet
    <3>4. Position(kinds, k) \in DOMAIN kinds
      BY <3>3 DEF Position
    <3> QED BY <1>0, <3>2, <3>4
  <2>2. ASSUME NEW k \in ToSet(kinds), NEW p \in Seq(Nat)
        PROVE  Append(p, used.keys + Position(kinds, k)) \in Seq(Nat)
    BY <1>0, <2>1, <2>2, AppendProperties
  <2>3. private' = [k \in Kinds |->
              IF k \in ToSet(kinds) /\ 2 * Position(kinds, k) - 1 <= done
              THEN Append(private[k], used.keys + Position(kinds, k)) ELSE private[k]]
    BY DEF Written
  <2> QED BY <2>2, <2>3 DEF KeyTypes
<1>4. used' \in [{"keys", "steps", "cuts", "changes"} -> Nat]
  <2>1. PICK a : a = used.keys + Len(kinds)
    OBVIOUS
  <2>2. PICK b : b = used.steps + 1
    OBVIOUS
  <2>3. PICK c : c = IF done < 2 * Len(kinds) THEN used.cuts + 1 ELSE used.cuts
    OBVIOUS
  <2>4. used.keys \in Nat /\ used.steps \in Nat /\ used.cuts \in Nat
    BY DEF KeyTypes
  <2>5. a \in Nat /\ b \in Nat /\ c \in Nat
    <3>1. a \in Nat
      BY <1>0, <2>1
    <3>2. b \in Nat
      BY <2>2, <2>4
    <3>3. c = used.cuts + 1 \/ c = used.cuts
      BY <2>3, Zenon
    <3>4. c \in Nat
      BY <2>4, <3>3
    <3> QED BY <3>1, <3>2, <3>4
  <2>6. used' = [used EXCEPT !["keys"] = a, !["steps"] = b, !["cuts"] = c]
    <3>1. used' = [used EXCEPT !.keys = used.keys + Len(kinds), !.steps = used.steps + 1,
                               !.cuts = IF done < 2 * Len(kinds) THEN used.cuts + 1 ELSE used.cuts]
      BY DEF Makes
    <3> QED BY <2>1, <2>2, <2>3, <3>1, Zenon
  <2> QED BY <2>5, <2>6 DEF KeyTypes
<1> QED BY <1>2, <1>3, <1>4 DEF KeyTypes

LEMMA InitCommandKeyTypes ==
    ASSUME KeyTypes, NEW done \in 0 .. 4, NEW taken \in BOOLEAN, InitCommand(done, taken)
    PROVE  KeyTypes'
<1>1. PICK kinds \in {<<"rsa", "ed">>, <<"rsa">>, <<"ed">>} : kinds = <<"rsa", "ed">>
  OBVIOUS
<1>2. PICK more : more = IF taken THEN <<Other>> ELSE <<>>
  OBVIOUS
<1>3. more \in Seq(KeyItem)
  <2>1. Other \in KeyItem
    BY DEF Other, Item, KeyItem, NoKey
  <2>2. <<Other>> \in Seq(KeyItem) /\ <<>> \in Seq(KeyItem)
    BY <2>1, EmptySeq
  <2> QED BY <1>2, <2>2
<1>4. Makes(kinds, done) /\ Written(kinds, done, more)
  BY <1>1, <1>2 DEF InitCommand
<1>5. done <= 2 * Len(kinds)
  BY <1>1
<1> QED BY <1>3, <1>4, <1>5, WrittenKeyTypes

LEMMA GenerateKeyTypes ==
    ASSUME KeyTypes, NEW kinds \in {<<"rsa", "ed">>, <<"rsa">>, <<"ed">>}, NEW done \in 0 .. 4,
           done <= 2 * Len(kinds), Generate(kinds, done)
    PROVE  KeyTypes'
<1>1. PICK more : more = <<>>
  OBVIOUS
<1>2. more \in Seq(KeyItem)
  BY <1>1, EmptySeq
<1>3. Makes(kinds, done) /\ Written(kinds, done, more)
  BY <1>1 DEF Generate
<1> QED BY <1>2, <1>3, WrittenKeyTypes

LEMMA ByHandKeyTypes ==
    ASSUME KeyTypes, ByHand
    PROVE  KeyTypes'
<1>1. used' \in [{"keys", "steps", "cuts", "changes"} -> Nat]
  BY DEF ByHand, Use, KeyTypes
<1>2. CASE \E k \in Kinds : private' = [private EXCEPT ![k] = <<>>] /\ UNCHANGED <<host, modes>>
  <2>1. PICK e : e = <<>>
    OBVIOUS
  <2>2. e \in Seq(Nat)
    BY <2>1, EmptySeq
  <2>3. \E k \in Kinds : private' = [private EXCEPT ![k] = e] /\ host' = host
    BY <1>2, <2>1
  <2> QED BY <1>1, <2>2, <2>3 DEF KeyTypes
<1>3. CASE /\ host' = AllBut(host, {i \in ToSet(host) : i.form = "line"})
           /\ UNCHANGED <<private, modes>>
  <2>1. PICK S : S = {i \in ToSet(host) : i.form = "line"}
    OBVIOUS
  <2>2. host' = AllBut(host, S)
    BY <1>3, <2>1
  <2>3. host' \in Seq(KeyItem)
    BY <2>2, AllButFacts DEF KeyTypes
  <2> QED BY <1>1, <1>3, <2>3 DEF KeyTypes
<1>4. CASE host' = Append(host, Other) /\ UNCHANGED <<private, modes>>
  <2>1. Other \in KeyItem
    BY DEF Other, Item, KeyItem, NoKey
  <2>2. host' \in Seq(KeyItem)
    BY <1>4, <2>1, AppendProperties DEF KeyTypes
  <2> QED BY <1>1, <1>4, <2>2 DEF KeyTypes
<1>5. CASE UNCHANGED <<private, host>>
  BY <1>1, <1>5 DEF KeyTypes
<1> QED BY <1>2, <1>3, <1>4, <1>5 DEF ByHand

-----------------------------------------------------------------------------
(* What a check finds: when it has nothing to say of a kind, the key it    *)
(* found beside the private key is the one a peer reads, and the private   *)
(* key file holds the key it looked at.                                    *)
LEMMA NothingToSay ==
    ASSUME KeyTypes, \A k \in Kinds : ~Complains(k), FsckPrivate("rsa") # NoKey \/ FsckPrivate("ed") # NoKey
    PROVE  /\ \A k \in Kinds : PrivateKey(k) = PublicKey(host, k)
           /\ VerifyKey(host) \in {NoKey, PrivateKey("ed")}
<1>1. "rsa" \in Kinds /\ "ed" \in Kinds /\ \A k \in Kinds : k = "rsa" \/ k = "ed"
  BY DEF Kinds
<1>2. FsckPrivate("rsa") # NoKey /\ FsckPublic("rsa") = FsckPrivate("rsa")
  BY <1>1 DEF Complains
<1>3. PrivateKey("rsa") = PublicKey(host, "rsa")
  BY <1>2 DEF FsckPublic, FsckPrivate, PublicKey
<1>4. HasEntries(host)
  <2>1. CASE FirstKey(host, "line", "rsa") # NoKey
    <3>1. \E i \in DOMAIN host : host[i].form = "line"
      BY <2>1 DEF FirstKey
    <3> QED BY <3>1 DEF HasEntries
  <2>2. CASE FirstKey(host, "line", "rsa") = NoKey
    BY <1>2, <2>2 DEF FsckPublic
  <2> QED BY <2>1, <2>2
<1>5. FsckPrivate("ed") = PrivateKey("ed")
  BY DEF FsckPrivate
<1>6. FsckPublic("ed") = FsckPrivate("ed")
  BY <1>1 DEF Complains
<1>7. PrivateKey("ed") = PublicKey(host, "ed") /\ VerifyKey(host) \in {NoKey, PrivateKey("ed")}
  BY <1>4, <1>5, <1>6 DEF FsckPublic, PublicKey, VerifyKey
<1> QED BY <1>1, <1>3, <1>7

(* What is found in a file of one more key: what was found before, and the *)
(* new key only if nothing was.                                            *)
LEMMA FirstKeyOfLonger ==
    ASSUME NEW items \in Seq(KeyItem), NEW i \in KeyItem, NEW form \in {"line", "pem"}, NEW kind
    PROVE  FirstKey(Append(items, i), form, kind) =
               IF FirstKey(items, form, kind) # NoKey THEN FirstKey(items, form, kind)
               ELSE IF i.form = form /\ i.kind = kind THEN i.key ELSE NoKey
<1> DEFINE Matching(s) == {j \in DOMAIN s : s[j].form = form /\ s[j].kind = kind}
<1>1. PICK n : n = Len(items) + 1
  OBVIOUS
<1>2. PICK after : after = Append(items, i)
  OBVIOUS
<1>3. /\ n \in Nat /\ n >= 1 /\ DOMAIN items = 1 .. n - 1 /\ DOMAIN after = 1 .. n /\ after[n] = i
      /\ \A j \in 1 .. n - 1 : after[j] = items[j] /\ items[j] \in KeyItem
  BY <1>1, <1>2, LenProperties, AppendProperties, ElementOfSeq
<1>4. /\ FirstKey(items, form, kind) = IF Matching(items) = {} THEN NoKey ELSE items[Min(Matching(items))].key
      /\ FirstKey(after, form, kind) = IF Matching(after) = {} THEN NoKey ELSE after[Min(Matching(after))].key
  BY DEF FirstKey
<1>5. /\ Matching(items) \subseteq 1 .. n - 1 /\ Matching(after) \subseteq 1 .. n
      /\ \A j \in 1 .. n - 1 : j \in Matching(after) <=> j \in Matching(items)
      /\ n \in Matching(after) <=> i.form = form /\ i.kind = kind
      /\ \A j \in 1 .. n : j = n \/ j \in 1 .. n - 1
  <2>1. /\ n \in 1 .. n /\ 1 .. n - 1 \subseteq 1 .. n
        /\ \A j \in 1 .. n : j = n \/ j \in 1 .. n - 1
    BY <1>3
  <2>2. Matching(items) \subseteq 1 .. n - 1 /\ Matching(after) \subseteq 1 .. n
    BY <1>3
  <2>3. ASSUME NEW j \in 1 .. n - 1 PROVE j \in Matching(after) <=> j \in Matching(items)
    BY <1>3, <2>1
  <2>4. n \in Matching(after) <=> i.form = form /\ i.kind = kind
    BY <1>3, <2>1
  <2> HIDE DEF Matching
  <2> QED BY <2>1, <2>2, <2>3, <2>4
<1>6. CASE Matching(items) = {}
  <2>1. CASE i.form = form /\ i.kind = kind
    <3>1. Matching(after) = {n}
      BY <1>5, <1>6, <2>1
    <3>2. Min({n}) = n
      <4>1. PICK S : S = {n}
        OBVIOUS
      <4>2. n \in S /\ S \subseteq Nat /\ \A j \in S : n <= j
        BY <1>3, <4>1
      <4>3. Min(S) = n
        BY <4>2, MinIs
      <4> QED BY <4>1, <4>3
    <3> QED BY <1>2, <1>3, <1>4, <1>6, <2>1, <3>1, <3>2
  <2>2. CASE ~(i.form = form /\ i.kind = kind)
    <3>1. Matching(after) = {}
      BY <1>5, <1>6, <2>2
    <3> QED BY <1>2, <1>4, <1>6, <2>2, <3>1
  <2> QED BY <2>1, <2>2
<1>7. CASE Matching(items) # {}
  <2>1. Matching(items) \in SUBSET Nat /\ Matching(items) \subseteq 1 .. n - 1
    BY <1>3
  <2>2. PICK m \in Matching(items) : \A j \in Matching(items) : m <= j
    BY <1>7, <2>1, LeastNat
  <2>3. m \in 1 .. n - 1 /\ m \in Matching(after) /\ Matching(after) \subseteq Nat
    BY <1>3, <1>5, <2>1, <2>2
  <2>4. \A j \in Matching(after) : m <= j
    BY <1>3, <1>5, <2>2, <2>3
  <2>5. Min(Matching(items)) = m
    <3> HIDE DEF Matching
    <3> QED BY <2>1, <2>2, MinIs
  <2>6. Min(Matching(after)) = m
    <3> HIDE DEF Matching
    <3> QED BY <2>3, <2>4, MinIs
  <2>7. items[m].form = form /\ items[m].key # NoKey /\ after[m] = items[m]
    BY <1>3, <2>2, <2>3 DEF KeyItem
  <2>8. FirstKey(items, form, kind) = items[m].key
    BY <1>4, <1>7, <2>5
  <2>9. FirstKey(after, form, kind) = items[m].key
    BY <1>4, <2>3, <2>6, <2>7
  <2> QED BY <1>2, <2>7, <2>8, <2>9
<1> QED BY <1>6, <1>7

(* What a peer reads of a file at whose end a key of a kind is put.        *)
LEMMA PublicKeyOfLonger ==
    ASSUME NEW items \in Seq(KeyItem), NEW i \in KeyItem, i.form = "pem", NEW kind
    PROVE  PublicKey(Append(items, i), kind) =
               IF PublicKey(items, kind) # NoKey THEN PublicKey(items, kind)
               ELSE IF i.kind = kind THEN i.key ELSE NoKey
<1>1. FirstKey(Append(items, i), "line", kind) = FirstKey(items, "line", kind)
  <2>1. "line" \in {"line", "pem"} /\ i.form # "line"
    OBVIOUS
  <2>2. FirstKey(Append(items, i), "line", kind) =
            IF FirstKey(items, "line", kind) # NoKey THEN FirstKey(items, "line", kind)
            ELSE IF i.form = "line" /\ i.kind = kind THEN i.key ELSE NoKey
    BY <2>1, FirstKeyOfLonger
  <2> QED BY <2>1, <2>2
<1>2. FirstKey(Append(items, i), "pem", kind) =
          IF FirstKey(items, "pem", kind) # NoKey THEN FirstKey(items, "pem", kind)
          ELSE IF i.kind = kind THEN i.key ELSE NoKey
  <2>1. "pem" \in {"line", "pem"}
    OBVIOUS
  <2>2. FirstKey(Append(items, i), "pem", kind) =
            IF FirstKey(items, "pem", kind) # NoKey THEN FirstKey(items, "pem", kind)
            ELSE IF i.form = "pem" /\ i.kind = kind THEN i.key ELSE NoKey
    BY <2>1, FirstKeyOfLonger
  <2> QED BY <2>2
<1> QED BY <1>1, <1>2 DEF PublicKey

(* A check that has nothing to say leaves the files alone.                 *)
LEMMA FsckHonest ==
    ASSUME KeyTypes, NEW force \in BOOLEAN, Fsck(force), did'.about = {}
    PROVE  /\ \A k \in Kinds : PrivateKey(k)' = PublicKey(host', k)
           /\ VerifyKey(host') \in {NoKey, PrivateKey("ed")'}
<1> DEFINE found == {k \in Kinds : FsckPrivate(k) # NoKey}
           fixed == IF force THEN {k \in Kinds : Fixes(k)} ELSE {}
           pem(k) == IF k \in fixed THEN <<Item("pem", k, FsckPrivate(k))>> ELSE <<>>
<1>2. did'.about = IF found = {} THEN {"no private key"}
                   ELSE {k \in Kinds : Complains(k)} \union (modes \intersect (found \union {"script"}))
  BY DEF Fsck
<1>3. found # {} /\ \A k \in Kinds : ~Complains(k)
  BY <1>2
<1>4. FsckPrivate("rsa") # NoKey \/ FsckPrivate("ed") # NoKey
  BY <1>3 DEF Kinds
<1>5. fixed = {}
  BY <1>3 DEF Fixes
<1>6. host' = host
  <2>1. host' = host \o pem("rsa") \o pem("ed")
    BY DEF Fsck
  <2>2. PICK e : e = <<>>
    OBVIOUS
  <2>3. pem("rsa") = e /\ pem("ed") = e
    BY <1>5, <2>2
  <2>4. host' = (host \o e) \o e
    BY <2>1, <2>3
  <2>5. host \o e = host
    BY <2>2, ConcatEmptySeq DEF KeyTypes
  <2> QED BY <2>4, <2>5
<1>7. \A k : PrivateKey(k)' = PrivateKey(k)
  BY DEF Fsck, PrivateKey
<1> QED BY <1>3, <1>4, <1>6, <1>7, NothingToSay

(* A repair appends a key of a kind for which there is a private one, if   *)
(* peers read none, and perhaps if they do.                                *)
LEMMA Lacking ==
    ASSUME NEW k \in Kinds
    PROVE  Fixes(k) <=> FsckPrivate(k) # NoKey /\ FsckPublic(k) # FsckPrivate(k)
BY DEF Fixes, Complains

(* Peers lack no key after a repair, and have those they had.              *)
LEMMA FsckRepairs ==
    ASSUME KeyTypes, NEW force \in BOOLEAN, Fsck(force), force
    PROVE  \A k \in Kinds :
               PublicKey(host', k) = IF PublicKey(host, k) # NoKey THEN PublicKey(host, k) ELSE FsckPrivate(k)
<1> DEFINE fixed == {k \in Kinds : Fixes(k)}
           pem(k) == IF k \in fixed THEN <<Item("pem", k, FsckPrivate(k))>> ELSE <<>>
           After(before, after, k) ==
               /\ after \in Seq(KeyItem)
               /\ PublicKey(after, k) = IF PublicKey(before, k) # NoKey THEN PublicKey(before, k)
                                        ELSE FsckPrivate(k)
               /\ \A other \in Kinds \ {k} : PublicKey(after, other) = PublicKey(before, other)
<1>1. "rsa" \in Kinds /\ "ed" \in Kinds /\ \A k \in Kinds : k = "rsa" \/ k = "ed"
  BY DEF Kinds
<1>2. ASSUME NEW k \in Kinds, NEW before \in Seq(KeyItem),
             PublicKey(before, k) = PublicKey(host, k)
      PROVE  After(before, before \o pem(k), k)
  <2>1. CASE k \in fixed
    <3>1. PICK i : i = Item("pem", k, FsckPrivate(k))
      OBVIOUS
    <3>2. FsckPrivate(k) \in Nat /\ FsckPrivate(k) # NoKey
      BY <2>1, PrivateIsNat DEF Fixes
    <3>3. i \in KeyItem /\ i.form = "pem" /\ i.kind = k /\ i.key = FsckPrivate(k)
      BY <3>1, <3>2 DEF Item, KeyItem
    <3>4. before \o pem(k) = Append(before, i)
      <4>1. pem(k) = <<i>>
        BY <2>1, <3>1
      <4>2. before \o <<i>> = Append(before, i)
        BY <1>2, <3>3
      <4> QED BY <4>1, <4>2
    <3>5. \A kind : PublicKey(Append(before, i), kind) =
                        IF PublicKey(before, kind) # NoKey THEN PublicKey(before, kind)
                        ELSE IF i.kind = kind THEN i.key ELSE NoKey
      BY <1>2, <3>3, PublicKeyOfLonger
    <3>6. Append(before, i) \in Seq(KeyItem)
      BY <1>2, <3>3, AppendProperties
    <3> QED BY <3>3, <3>4, <3>5, <3>6
  <2>2. CASE k \notin fixed
    <3>1. PICK e : e = <<>>
      OBVIOUS
    <3>2. pem(k) = e
      BY <2>2, <3>1
    <3>3. before \o e = before
      BY <1>2, <3>1, ConcatEmptySeq
    <3>4. FsckPrivate(k) = NoKey \/ FsckPublic(k) = FsckPrivate(k)
      BY <1>2, <2>2, Lacking
    <3>5. PublicKey(host, k) = NoKey => FsckPublic(k) = NoKey
      BY DEF FsckPublic, PublicKey
    <3>6. PublicKey(host, k) = NoKey => FsckPrivate(k) = NoKey
      BY <3>4, <3>5
    <3> QED BY <1>2, <3>2, <3>3, <3>6
  <2> QED BY <2>1, <2>2
<1>3. PICK between : between = host \o pem("rsa")
  OBVIOUS
<1>4. host' = between \o pem("ed")
  BY <1>3 DEF Fsck
<1>5. After(host, between, "rsa")
  BY <1>1, <1>2, <1>3 DEF KeyTypes
<1>6. After(between, host', "ed")
  <2>1. between \in Seq(KeyItem) /\ PublicKey(between, "ed") = PublicKey(host, "ed")
    BY <1>1, <1>5
  <2> QED BY <1>1, <1>2, <1>4, <2>1
<1>7. PublicKey(host', "rsa") = PublicKey(between, "rsa") /\ PublicKey(between, "ed") = PublicKey(host, "ed")
  BY <1>1, <1>5, <1>6
<1> HIDE DEF pem
<1> QED BY <1>1, <1>5, <1>6, <1>7

(* What fsck says is so, and what it repairs is.                           *)
LEMMA FsckKeeps ==
    ASSUME KeyTypes, NEW force \in BOOLEAN, Fsck(force)
    PROVE  FsckIsHonest'
<1>1. did'.force = force /\ did'.public = [k \in Kinds |-> PublicKey(host, k)]
  BY DEF Fsck
<1>2. \A k : FsckPrivate(k)' = FsckPrivate(k)
  BY DEF Fsck, FsckPrivate, PrivateKey
<1>3. did'.about = {} => /\ \A k \in Kinds : PrivateKey(k)' = PublicKey(host', k)
                         /\ VerifyKey(host') \in {NoKey, PrivateKey("ed")'}
  BY FsckHonest
<1>4. did'.force => \A k \in Kinds :
          PublicKey(host', k) = IF did'.public[k] # NoKey THEN did'.public[k] ELSE FsckPrivate(k)'
  <2>1. SUFFICES ASSUME force, NEW k \in Kinds
                 PROVE  PublicKey(host', k) =
                            IF did'.public[k] # NoKey THEN did'.public[k] ELSE FsckPrivate(k)'
    BY <1>1
  <2>2. did'.public[k] = PublicKey(host, k)
    BY <1>1
  <2> QED BY <1>2, <2>1, <2>2, FsckRepairs
<1> QED BY <1>3, <1>4 DEF FsckIsHonest

(* No other command says that it was a check.                              *)
LEMMA OthersHonest ==
    ASSUME did'.command # "fsck"
    PROVE  FsckIsHonest'
BY DEF FsckIsHonest

(* fsck does not call keys good that a peer would not accept, and with     *)
(* --force gives peers a key they lacked and takes none from them they     *)
(* read: whatever was written, cut off, exchanged or changed by hand       *)
(* before.                                                                 *)
THEOREM FsckAlwaysHonest == KeyFilesSpec => []FsckIsHonest
<1>1. KeyFilesInit => KeyTypes /\ FsckIsHonest
  BY InitKeyTypes DEF KeyFilesInit, FsckIsHonest
<1>2. ASSUME KeyTypes, FsckIsHonest, [KeyFilesNext]_keyFileVars
      PROVE  KeyTypes' /\ FsckIsHonest'
  <2>1. ASSUME NEW force \in BOOLEAN, Fsck(force) PROVE KeyTypes' /\ FsckIsHonest'
    BY <1>2, <2>1, FsckKeyTypes, FsckKeeps
  <2>2. ASSUME NEW force \in BOOLEAN, Exchange(force) PROVE KeyTypes' /\ FsckIsHonest'
    <3>1. KeyTypes'
      BY <1>2, <2>2 DEF Exchange, KeyTypes, OneStep, Use
    <3>2. did'.command # "fsck"
      BY <2>2 DEF Exchange, Did
    <3> QED BY <3>1, <3>2, OthersHonest
  <2>3. ASSUME NEW done \in 0 .. 4, NEW taken \in BOOLEAN, InitCommand(done, taken)
        PROVE  KeyTypes' /\ FsckIsHonest'
    <3>1. did'.command # "fsck"
      BY <2>3 DEF InitCommand, Did
    <3> QED BY <1>2, <2>3, <3>1, OthersHonest, InitCommandKeyTypes
  <2>4. ASSUME NEW kinds \in {<<"rsa", "ed">>, <<"rsa">>, <<"ed">>}, NEW done \in 0 .. 4,
               done <= 2 * Len(kinds), Generate(kinds, done)
        PROVE  KeyTypes' /\ FsckIsHonest'
    <3>1. did'.command # "fsck"
      BY <2>4 DEF Generate, Did
    <3> QED BY <1>2, <2>4, <3>1, OthersHonest, GenerateKeyTypes
  <2>5. ASSUME ByHand PROVE KeyTypes' /\ FsckIsHonest'
    <3>1. did'.command # "fsck"
      BY <2>5 DEF ByHand, Did
    <3> QED BY <1>2, <2>5, <3>1, OthersHonest, ByHandKeyTypes
  <2>6. CASE UNCHANGED keyFileVars
    BY <1>2, <2>6 DEF keyFileVars, KeyTypes, FsckIsHonest, PrivateKey, FsckPrivate
  <2>7. CASE KeyFilesNext
    <3>1. CASE \E done \in 0 .. 4 : Generate(<<"rsa", "ed">>, done)
      <4>1. PICK done \in 0 .. 4 : Generate(<<"rsa", "ed">>, done)
        BY <3>1
      <4>2. PICK kinds \in {<<"rsa", "ed">>, <<"rsa">>, <<"ed">>} : kinds = <<"rsa", "ed">>
        OBVIOUS
      <4>3. done <= 2 * Len(kinds) /\ Generate(kinds, done)
        BY <4>1, <4>2
      <4> QED BY <2>4, <4>3
    <3>2. CASE \E kind \in Kinds, done \in 0 .. 2 : Generate(<<kind>>, done)
      <4>1. PICK kind \in Kinds, done \in 0 .. 2 : Generate(<<kind>>, done)
        BY <3>2
      <4>2. PICK kinds : kinds = <<kind>>
        OBVIOUS
      <4>3. kinds \in {<<"rsa", "ed">>, <<"rsa">>, <<"ed">>}
        BY <4>2 DEF Kinds
      <4>4. done \in 0 .. 4 /\ done <= 2 * Len(kinds) /\ Generate(kinds, done)
        BY <4>1, <4>2
      <4> QED BY <2>4, <4>3, <4>4
    <3> QED BY <2>1, <2>2, <2>3, <2>5, <2>7, <3>1, <3>2 DEF KeyFilesNext
  <2> QED BY <1>2, <2>6, <2>7
<1> QED BY <1>1, <1>2, PTL DEF KeyFilesSpec

-----------------------------------------------------------------------------
(***************************************************************************)
(* Invitations.  The invariant has three parts: a cookie belongs to one    *)
(* file and never to one that was sent before; what is on the way between  *)
(* a joiner and the daemon says what the two know of each other; and who   *)
(* is in the files was put there by a joiner that still has that key.      *)
(***************************************************************************)
InviteFile == [cookie : Nat, key : Nat, age : Nat, used : BOOLEAN, name : Invitee]
InviterType ==
    [key : Nat, files : SUBSET InviteFile, hosts : [Invitee -> Joiner \union {0}], loaded : Nat,
     known : [Invitee -> Joiner \union {0}], keys : Nat]

CookiesHold ==
    /\ IsFiniteSet(urls) /\ \A u \in urls : u.cookie <= Cardinality(urls)
    /\ \A f, g \in inviter.files : f.cookie = g.cookie => f = g
    /\ \A f \in inviter.files : f.cookie <= Cardinality(urls)
    /\ \A i \in DOMAIN spent :
          /\ spent[i] <= Cardinality(urls)
          /\ \A f \in inviter.files : f.cookie # spent[i]

(* What a joiner has written and what is on its connection, where body is  *)
(* what the inviter sends to each name, and hosts and known are the        *)
(* inviter's.                                                              *)
Bodies == [n \in Invitee |-> BuildInvitationBody(n)]
JoinPhases == {"idle", "hello", "cookie", "write", "sent", "failed", "joined"}
ConnPhases == {"none", "pending", "cookie", "key", "closed"}
JoinConfigs(body) == {NoConfig} \union {Finalized(body[n], f) : n \in Invitee, f \in BOOLEAN}
JoinType(body) ==
    [phase : JoinPhases, url : [key : Nat, cookie : Nat], force : BOOLEAN,
     config : JoinConfigs(body), key : Joiner \union {0}, written : 0 .. 6]
ToDaemon ==
    [what : {"hello"}, value : {0}] \union [what : {"cookie"}, value : Nat]
    \union [what : {"public key"}, value : Joiner]
FromDaemon(body) ==
    [what : {"key"}, value : Nat] \union [what : {"data"}, value : {body[n] : n \in Invitee}]
    \union [what : {"done"}, value : {0}]
ConnType(body) ==
    [phase : ConnPhases, name : Invitee \union {""}, in : Seq(ToDaemon), out : Seq(FromDaemon(body))]

(* The invitation has been sent on this connection.                        *)
Dealt(link) == link.phase \in {"key", "closed"} /\ link.name \in Invitee

(* The inviter has this key under the name.                                *)
Holds(hosts, known, n, key) == n \in Invitee /\ hosts[n] = key /\ known[n] = key

KeyIsWritten(j, join) == join.key = IF join.written < 3 THEN 0 ELSE j
ConfigFromData(join, link, body) ==
    join.phase \in {"write", "sent"} =>
        Dealt(link) /\ join.config = Finalized(body[link.name], join.force)
KeyFits(join, link) ==
    \A i \in DOMAIN link.in : link.in[i].what = "public key" =>
        /\ Dealt(link) /\ join.written = 6
        /\ link.in[i].value = join.key /\ join.config.name = link.name
DataFits(link, body) ==
    \A i \in DOMAIN link.out : link.out[i].what = "data" =>
        Dealt(link) /\ link.out[i].value = body[link.name]
DoneFits(join, link, hosts, known) ==
    \A i \in DOMAIN link.out : link.out[i].what = "done" =>
        /\ Dealt(link) /\ join.written = 6 /\ join.config.name = link.name
        /\ Holds(hosts, known, link.name, join.key)
JoinedFits(join, hosts, known, body) ==
    join.phase = "joined" =>
        /\ join.written = 6
        /\ \E n \in Invitee : join.config = Finalized(body[n], join.force)
                              /\ Holds(hosts, known, n, join.key)

JoinFits(j, join, link, hosts, known, body) ==
    /\ join \in JoinType(body) /\ link \in ConnType(body)
    /\ KeyIsWritten(j, join)
    /\ ConfigFromData(join, link, body)
    /\ KeyFits(join, link)
    /\ DataFits(link, body)
    /\ DoneFits(join, link, hosts, known)
    /\ JoinedFits(join, hosts, known, body)

HostsHaveJoiners ==
    \A n \in Invitee : inviter.hosts[n] # 0 =>
        \E j \in Joiner : joins[j].key = inviter.hosts[n] /\ joins[j].config.name = n

InviteInv ==
    /\ settings \in Settings /\ inviter \in InviterType
    /\ urls \in SUBSET [key : Nat, cookie : Nat] /\ spent \in Seq(Nat)
    /\ joins \in [Joiner -> JoinType(Bodies)] /\ conns \in [Joiner -> ConnType(Bodies)]
    /\ CookiesHold /\ UsedOnce
    /\ \A j \in Joiner : JoinFits(j, joins[j], conns[j], inviter.hosts, inviter.known, Bodies)
    /\ HostsHaveJoiners

-----------------------------------------------------------------------------
(* What the inviter sends and what a joiner makes of it.                   *)

(* Two sequences, one after the other.                                     *)
Follows(s, s1, s2) ==
    /\ Len(s) = Len(s1) + Len(s2) /\ Len(s1) \in Nat /\ Len(s2) \in Nat
    /\ \A i \in 1 .. Len(s1) + Len(s2) : s[i] = IF i <= Len(s1) THEN s1[i] ELSE s2[i - Len(s1)]

LEMMA ConcatIs ==
    ASSUME NEW T, NEW s1 \in Seq(T), NEW s2 \in Seq(T), NEW s, s = s1 \o s2
    PROVE  s \in Seq(T) /\ Follows(s, s1, s2)
<1>1. Len(s1) \in Nat /\ Len(s2) \in Nat
  BY LenProperties
<1> QED BY <1>1, ConcatProperties DEF Follows

(* The lines that the inviter's files hold or that are added to them.      *)
LinesFor(n) ==
    ToSet(settings.server) \union ToSet(settings.host) \union ToSet(settings.added)
    \union {Separator, Line("Name", n), Line("ConnectTo", Inviter), Line("Name", Inviter),
            Line("Port", ThePort)}

(* The parts of an invitation, its separator being line k.                 *)
BodyParts(n, body, k) ==
    /\ body \in Seq(LinesFor(n)) /\ k \in DOMAIN body /\ k + 1 \in DOMAIN body /\ k > 2
    /\ body[1] = Line("Name", n) /\ body[2] = Line("ConnectTo", Inviter)
    /\ body[k] = Separator /\ \A i \in DOMAIN body : body[i] = Separator => i = k
    /\ body[k + 1] = Line("Name", Inviter)
    /\ \A l \in ModeLines : \E i \in DOMAIN body : i < k /\ body[i] = l
    /\ \A i \in DOMAIN settings.host :
          k + 1 + i \in DOMAIN body /\ body[k + 1 + i] = HostLines[i]

LEMMA NotSeparator == \A v \in {"Name", "ConnectTo", "Port"} : \A w : Line(v, w) # Separator
BY DEF Line, Separator

(* A sequence is one over a larger set.                                    *)
LEMMA SeqWidens ==
    ASSUME NEW S, NEW T, S \subseteq T, NEW seq \in Seq(S)
    PROVE  seq \in Seq(T)
<1>1. Len(seq) \in Nat /\ DOMAIN seq = 1 .. Len(seq) /\ \A i \in 1 .. Len(seq) : seq[i] \in S
  BY LenProperties, ElementOfSeq
<1>2. seq = [i \in 1 .. Len(seq) |-> seq[i]]
  BY LenProperties, SeqDef
<1>3. seq \in [1 .. Len(seq) -> T]
  BY <1>1, <1>2
<1> QED BY <1>1, <1>3, SeqDef

LEMMA BodyHasParts ==
    ASSUME settings \in Settings, NEW n \in Invitee
    PROVE  \E k \in Nat : BodyParts(n, BuildInvitationBody(n), k)
<1> DEFINE NoSep(s) == \A i \in DOMAIN s : s[i] # Separator
<1>0. PICK lines : lines = LinesFor(n)
  OBVIOUS
<1>1. PICK p : p = <<Line("Name", n), Line("ConnectTo", Inviter)>>
  OBVIOUS
<1>2. PICK m : m = AllBut(settings.server, ToSet(settings.server) \ ModeLines)
  OBVIOUS
<1>3. PICK a : a = settings.added
  OBVIOUS
<1>4. PICK q : q = <<Separator, Line("Name", Inviter)>>
  OBVIOUS
<1>5. PICK h : h = HostLines
  OBVIOUS
<1>6. p \in Seq(lines) /\ Len(p) = 2 /\ p[1] = Line("Name", n) /\ p[2] = Line("ConnectTo", Inviter)
  <2>1. Line("Name", n) \in lines /\ Line("ConnectTo", Inviter) \in lines
    BY <1>0 DEF LinesFor
  <2> QED BY <1>1, <2>1
<1>7. NoSep(p)
  <2>1. DOMAIN p = 1 .. 2
    BY <1>6, LenProperties
  <2> QED BY <1>6, <2>1, NotSeparator
<1>8. q \in Seq(lines) /\ Len(q) = 2 /\ q[1] = Separator /\ q[2] = Line("Name", Inviter)
  <2>1. Separator \in lines /\ Line("Name", Inviter) \in lines
    BY <1>0 DEF LinesFor
  <2> QED BY <1>4, <2>1
<1>9. /\ settings.server \in Seq(lines) /\ NoSep(settings.server)
      /\ settings.host \in Seq(lines) /\ NoSep(settings.host)
      /\ a \in Seq(lines) /\ NoSep(a)
  <2>1. \A seq \in {settings.server, settings.host, settings.added} :
          seq \in Seq(ToSet(seq)) /\ Separator \notin ToSet(seq) /\ ToSet(seq) \subseteq lines
    BY <1>0, SettingsAssumption DEF LinesFor
  <2>2. \A seq \in {settings.server, settings.host, settings.added} : seq \in Seq(lines)
    BY <2>1, SeqWidens
  <2>3. \A seq \in {settings.server, settings.host, settings.added} : NoSep(seq)
    BY <2>1 DEF ToSet
  <2> QED BY <1>3, <2>2, <2>3
<1>10. m \in Seq(lines) /\ NoSep(m) /\ \A l \in ModeLines : \E i \in DOMAIN m : m[i] = l
  <2>1. PICK S : S = ToSet(settings.server) \ ModeLines
    OBVIOUS
  <2>2. PICK s : s = settings.server
    OBVIOUS
  <2>3. m = AllBut(s, S) /\ s \in Seq(lines) /\ NoSep(s)
    BY <1>2, <1>9, <2>1, <2>2
  <2>4. m \in Seq(lines) /\ \A i \in DOMAIN m : \E j \in DOMAIN s : m[i] = s[j]
    BY <2>3, AllButFacts
  <2>5. \A j \in DOMAIN s : s[j] \notin S => \E i \in DOMAIN m : m[i] = s[j]
    BY <2>3, AllButKeeps
  <2>6. \A l \in ModeLines : l \notin S /\ \E j \in DOMAIN s : s[j] = l
    BY <2>1, <2>2 DEF ModeLines, ToSet
  <2> QED BY <2>3, <2>4, <2>5, <2>6
<1>11. h \in Seq(lines) /\ NoSep(h) /\ Len(h) = Len(settings.host)
  <2>1. PICK s : s = settings.host
    OBVIOUS
  <2>2. s \in Seq(lines) /\ NoSep(s) /\ DOMAIN s = 1 .. Len(s) /\ Len(s) \in Nat
    BY <1>9, <2>1, LenProperties
  <2>3. h = [i \in 1 .. Len(s) |-> IF s[i].var = "Port" THEN Line("Port", ThePort) ELSE s[i]]
    BY <1>5, <2>1, <2>2 DEF HostLines
  <2>4. \A i \in 1 .. Len(s) : h[i] \in lines /\ h[i] # Separator
    <3>1. Line("Port", ThePort) \in lines /\ Line("Port", ThePort) # Separator
      BY <1>0, NotSeparator DEF LinesFor
    <3>2. SUFFICES ASSUME NEW i \in 1 .. Len(s) PROVE h[i] \in lines /\ h[i] # Separator
      OBVIOUS
    <3>3. s[i] \in lines /\ s[i] # Separator
      BY <2>2, ElementOfSeq
    <3>4. h[i] = Line("Port", ThePort) \/ h[i] = s[i]
      BY <2>3
    <3> QED BY <3>1, <3>3, <3>4
  <2>5. DOMAIN h = 1 .. Len(s) /\ h \in [1 .. Len(s) -> lines]
    BY <2>3, <2>4
  <2>6. h \in Seq(lines)
    BY <2>2, <2>5, SeqDef
  <2>7. Len(h) = Len(s)
    BY <2>2, <2>5, <2>6, LenProperties
  <2> QED BY <2>1, <2>4, <2>5, <2>6, <2>7
<1>12. PICK b : b = BuildInvitationBody(n)
  OBVIOUS
<1>13. b = (((p \o m) \o a) \o q) \o h
  BY <1>1, <1>2, <1>3, <1>4, <1>5, <1>12 DEF BuildInvitationBody
<1>14. PICK pm : pm = p \o m
  OBVIOUS
<1>15. PICK o : o = pm \o a
  OBVIOUS
<1>16. PICK oq : oq = o \o q
  OBVIOUS
<1>17. pm \in Seq(lines) /\ Len(pm) = 2 + Len(m) /\ Len(m) \in Nat
       /\ \A i \in 1 .. 2 + Len(m) : pm[i] = IF i <= 2 THEN p[i] ELSE m[i - 2]
  <2>1. pm \in Seq(lines) /\ Follows(pm, p, m)
    BY <1>6, <1>10, <1>14, ConcatIs
  <2> QED BY <1>6, <1>8, <2>1 DEF Follows
<1>18. o \in Seq(lines) /\ Len(o) = Len(pm) + Len(a) /\ Len(a) \in Nat /\ Len(pm) \in Nat
       /\ \A i \in 1 .. Len(pm) + Len(a) : o[i] = IF i <= Len(pm) THEN pm[i] ELSE a[i - Len(pm)]
  <2>1. o \in Seq(lines) /\ Follows(o, pm, a)
    BY <1>9, <1>15, <1>17, ConcatIs
  <2> QED BY <1>6, <1>8, <2>1 DEF Follows
<1>19. oq \in Seq(lines) /\ Len(oq) = Len(o) + 2 /\ Len(o) \in Nat
       /\ \A i \in 1 .. Len(o) + 2 : oq[i] = IF i <= Len(o) THEN o[i] ELSE q[i - Len(o)]
  <2>1. oq \in Seq(lines) /\ Follows(oq, o, q)
    BY <1>8, <1>16, <1>18, ConcatIs
  <2> QED BY <1>6, <1>8, <2>1 DEF Follows
<1>20. b \in Seq(lines) /\ Len(b) = Len(oq) + Len(h) /\ Len(h) \in Nat /\ Len(oq) \in Nat
       /\ \A i \in 1 .. Len(oq) + Len(h) : b[i] = IF i <= Len(oq) THEN oq[i] ELSE h[i - Len(oq)]
  <2>1. b = oq \o h
    BY <1>13, <1>14, <1>15, <1>16
  <2>2. b \in Seq(lines) /\ Follows(b, oq, h)
    BY <1>11, <1>19, <2>1, ConcatIs
  <2> QED BY <2>2 DEF Follows
<1>21. PICK k : k = Len(o) + 1
  OBVIOUS
<1>22. k \in Nat /\ k > 2 /\ Len(oq) = k + 1 /\ Len(o) = k - 1 /\ Len(b) = k + 1 + Len(h)
  BY <1>17, <1>18, <1>19, <1>20, <1>21
<1>23. DOMAIN b = 1 .. Len(b) /\ DOMAIN o = 1 .. Len(o) /\ DOMAIN m = 1 .. Len(m)
       /\ DOMAIN a = 1 .. Len(a) /\ DOMAIN h = 1 .. Len(h) /\ DOMAIN settings.host = 1 .. Len(h)
       /\ DOMAIN p = 1 .. 2
  BY <1>6, <1>9, <1>10, <1>11, <1>18, <1>20, LenProperties
<1>24. \A i \in 1 .. k - 1 : b[i] = o[i]
  BY <1>19, <1>20, <1>22
<1>25. b[k] = Separator /\ b[k + 1] = Line("Name", Inviter)
  <2>1. oq[k] = q[1] /\ oq[k + 1] = q[2]
    BY <1>19, <1>22
  <2>2. b[k] = oq[k] /\ b[k + 1] = oq[k + 1]
    BY <1>20, <1>22
  <2> QED BY <1>8, <2>1, <2>2
<1>26. \A i \in 1 .. Len(h) : k + 1 + i \in 1 .. Len(b) /\ b[k + 1 + i] = h[i]
  <2>1. SUFFICES ASSUME NEW i \in 1 .. Len(h)
                 PROVE  k + 1 + i \in 1 .. Len(b) /\ b[k + 1 + i] = h[i]
    OBVIOUS
  <2>2. k + 1 + i \in 1 .. Len(oq) + Len(h) /\ ~(k + 1 + i <= Len(oq)) /\ (k + 1 + i) - Len(oq) = i
    BY <1>20, <1>22
  <2> QED BY <1>20, <2>2
<1>27. \A i \in 1 .. k - 1 : b[i] # Separator
  <2>1. SUFFICES ASSUME NEW i \in 1 .. k - 1 PROVE o[i] # Separator
    BY <1>24
  <2>2. CASE i <= Len(pm)
    <3>1. o[i] = pm[i] /\ pm[i] = IF i <= 2 THEN p[i] ELSE m[i - 2]
      BY <1>17, <1>18, <1>22, <2>2
    <3>2. CASE i <= 2
      <4>1. i \in DOMAIN p
        BY <1>22, <1>23, <3>2
      <4> QED BY <1>7, <3>1, <3>2, <4>1
    <3>3. CASE ~(i <= 2)
      <4>1. i - 2 \in DOMAIN m
        BY <1>17, <1>22, <1>23, <2>2, <3>3
      <4> QED BY <1>10, <3>1, <3>3, <4>1
    <3> QED BY <3>2, <3>3
  <2>3. CASE ~(i <= Len(pm))
    <3>1. o[i] = a[i - Len(pm)] /\ i - Len(pm) \in DOMAIN a
      BY <1>18, <1>22, <1>23, <2>3
    <3> QED BY <1>9, <3>1
  <2> QED BY <2>2, <2>3
<1>28. \A i \in DOMAIN b : b[i] = Separator => i = k
  <2>1. SUFFICES ASSUME NEW i \in DOMAIN b, i # k PROVE b[i] # Separator
    OBVIOUS
  <2>2. CASE i < k
    BY <1>22, <1>23, <1>27, <2>2
  <2>3. CASE i = k + 1
    BY <1>25, <2>3, NotSeparator
  <2>4. CASE i > k + 1
    <3>1. PICK c : c = i - (k + 1)
      OBVIOUS
    <3>2. c \in 1 .. Len(h) /\ k + 1 + c = i
      <4>1. i \in Nat /\ i <= k + 1 + Len(h)
        BY <1>20, <1>22, <1>23
      <4>2. c \in Nat /\ 1 <= c /\ c <= Len(h)
        BY <1>20, <1>22, <2>4, <3>1, <4>1
      <4>3. k + 1 + c = i
        BY <1>22, <3>1, <4>1
      <4> QED BY <1>20, <4>2, <4>3
    <3> QED BY <1>11, <1>23, <1>26, <3>2
  <2> QED BY <1>22, <1>23, <2>1, <2>2, <2>3, <2>4
<1>29. \A l \in ModeLines : \E i \in DOMAIN b : i < k /\ b[i] = l
  <2>1. SUFFICES ASSUME NEW l \in ModeLines PROVE \E i \in DOMAIN b : i < k /\ b[i] = l
    OBVIOUS
  <2>2. PICK c \in 1 .. Len(m) : m[c] = l
    BY <1>10, <1>23
  <2>3. PICK i : i = c + 2
    OBVIOUS
  <2>4. i \in 1 .. 2 + Len(m) /\ ~(i <= 2) /\ i - 2 = c
    BY <1>17, <2>3
  <2>5. pm[i] = l
    BY <1>17, <2>2, <2>4
  <2>6. i \in 1 .. Len(pm) + Len(a) /\ i <= Len(pm)
    BY <1>17, <1>18, <2>4
  <2>7. o[i] = l
    BY <1>18, <2>5, <2>6
  <2>8. i \in 1 .. k - 1 /\ i \in DOMAIN b /\ i < k
    BY <1>18, <1>20, <1>22, <1>23, <2>6
  <2> QED BY <1>24, <2>7, <2>8
<1>30. b[1] = Line("Name", n) /\ b[2] = Line("ConnectTo", Inviter)
  <2>1. pm[1] = p[1] /\ pm[2] = p[2]
    BY <1>17
  <2>2. o[1] = pm[1] /\ o[2] = pm[2]
    BY <1>17, <1>18
  <2>3. b[1] = o[1] /\ b[2] = o[2]
    BY <1>22, <1>24
  <2> QED BY <1>6, <2>1, <2>2, <2>3
<1>31. k \in DOMAIN b /\ k + 1 \in DOMAIN b
  BY <1>20, <1>22, <1>23
<1>32. BodyParts(n, b, k)
  BY <1>0, <1>5, <1>20, <1>22, <1>23, <1>25, <1>26, <1>28, <1>29, <1>30, <1>31 DEF BodyParts
<1> QED BY <1>12, <1>22, <1>32

(* What a joiner makes of an invitation is what the inviter meant.         *)
ConfigFits(c, force) ==
    /\ Line("ConnectTo", Inviter) \in c.server /\ ModeLines \subseteq c.server
    /\ \E p \in c.peers :
          /\ p.name = Inviter
          /\ \A l \in ToSet(settings.host) :
               l.var = "Name" \/ l \in p.lines \/ (l.var = "Port" /\ Line("Port", ThePort) \in p.lines)
    /\ ~force => {l \in c.server \union c.host : "safe" \notin Flags[l.var]} = {}
                 /\ ~(c.enabled /\ c.up # {})

(* The lines that belong to one chunk.                                     *)
LEMMA ChunksOfBody ==
    ASSUME NEW n, NEW body, NEW k \in Nat, BodyParts(n, body, k)
    PROVE  /\ Chunk(body, 0) = {i \in DOMAIN body : i < k}
           /\ Chunk(body, k) = {i \in DOMAIN body : i > k}
<1>1. DOMAIN body = 1 .. Len(body) /\ Len(body) \in Nat
  BY LenProperties DEF BodyParts
<1>2. k \in DOMAIN body /\ body[k] = Separator /\ \A i \in DOMAIN body : body[i] = Separator => i = k
  BY DEF BodyParts
<1>3. ASSUME NEW i \in DOMAIN body
      PROVE  /\ (i > 0 /\ \A e \in 0 + 1 .. i : body[e] # Separator) <=> i < k
             /\ (i > k /\ \A e \in k + 1 .. i : body[e] # Separator) <=> i > k
  <2>1. i \in Nat /\ i > 0 /\ k > 0
    BY <1>1, <1>2
  <2>2. ASSUME ~(i < k) PROVE k \in 0 + 1 .. i
    BY <2>1, <2>2
  <2>3. ASSUME i < k, NEW e \in 0 + 1 .. i PROVE e \in DOMAIN body /\ e # k
    BY <1>1, <2>1, <2>3
  <2>4. ASSUME NEW e \in k + 1 .. i PROVE e \in DOMAIN body /\ e # k
    BY <1>1, <2>1, <2>4
  <2>5. (i > 0 /\ \A e \in 0 + 1 .. i : body[e] # Separator) <=> i < k
    BY <1>2, <2>1, <2>2, <2>3
  <2>6. (i > k /\ \A e \in k + 1 .. i : body[e] # Separator) <=> i > k
    BY <1>2, <2>4
  <2> QED BY <2>5, <2>6
<1> QED BY <1>3 DEF Chunk

(* The name is that of the first line.                                     *)
LEMMA NamesOfBody ==
    ASSUME NEW n, NEW body, NEW k \in Nat, BodyParts(n, body, k)
    PROVE  ChunkName(body, 0) = n /\ ChunkName(body, k) = Inviter /\ Named(body, k) # {}
<1>1. DOMAIN body = 1 .. Len(body) /\ Len(body) \in Nat
  BY LenProperties DEF BodyParts
<1>2. 1 \in Named(body, 0) /\ \A i \in Named(body, 0) : i \in Nat /\ 1 <= i
  <2>1. body[1].var = "Name" /\ 1 \in DOMAIN body /\ 1 < k
    BY <1>1 DEF BodyParts, Line
  <2> QED BY <1>1, <2>1, ChunksOfBody DEF Named
<1>3. k + 1 \in Named(body, k) /\ \A i \in Named(body, k) : i \in Nat /\ k + 1 <= i
  <2>1. body[k + 1].var = "Name" /\ k + 1 \in DOMAIN body /\ k + 1 > k
    BY DEF BodyParts, Line
  <2> QED BY <1>1, <2>1, ChunksOfBody DEF Named
<1>4. Min(Named(body, 0)) = 1 /\ Min(Named(body, k)) = k + 1
  <2>1. Named(body, 0) \subseteq Nat /\ Named(body, k) \subseteq Nat
    BY <1>2, <1>3
  <2> QED BY <1>2, <1>3, <2>1, MinIs
<1>5. body[1].val = n /\ body[k + 1].val = Inviter
  BY DEF BodyParts, Line
<1> QED BY <1>3, <1>4, <1>5 DEF ChunkName

LEMMA FinalizedFits ==
    ASSUME settings \in Settings, NEW n \in Invitee, NEW force \in BOOLEAN,
           NEW c, c = Finalized(BuildInvitationBody(n), force)
    PROVE  c.name = n /\ ConfigFits(c, force)
<1>1. PICK body : body = BuildInvitationBody(n)
  OBVIOUS
<1>2. PICK k \in Nat : BodyParts(n, body, k)
  BY <1>1, BodyHasParts
<1>3. PICK own : own = {body[i] : i \in Chunk(body, 0)}
  OBVIOUS
<1>4. PICK taken : taken = {l \in own : Takes(l, force)}
  OBVIOUS
<1>5. PICK peers : peers = {[name |-> ChunkName(body, p),
                             lines |-> {body[i] : i \in Chunk(body, p) \ Named(body, p)}] :
                       p \in {i \in DOMAIN body : body[i] = Separator /\ Named(body, i) # {}}}
  OBVIOUS
<1>6. PICK up : up = {l \in own : l.var \in {"Ifconfig", "Route"}}
  OBVIOUS
<1>7. c = [name |-> ChunkName(body, 0),
           server |-> {l \in taken : "host" \notin Flags[l.var]},
           host |-> {l \in taken : "host" \in Flags[l.var]},
           up |-> up, enabled |-> (up = {} \/ force), peers |-> peers]
  BY <1>1, <1>3, <1>4, <1>5, <1>6 DEF Finalized
<1>8. /\ c.name = ChunkName(body, 0) /\ c.server = {l \in taken : "host" \notin Flags[l.var]}
      /\ c.host = {l \in taken : "host" \in Flags[l.var]} /\ c.up = up /\ c.peers = peers
  BY <1>7
<1>9. ASSUME ~force, up # {} PROVE ~c.enabled
  <2>1. PICK e : e = (up = {} \/ force)
    OBVIOUS
  <2>2. c = [name |-> ChunkName(body, 0),
             server |-> {l \in taken : "host" \notin Flags[l.var]},
             host |-> {l \in taken : "host" \in Flags[l.var]},
             up |-> up, enabled |-> e, peers |-> peers]
    BY <1>7, <2>1, Zenon
  <2>3. c.enabled = e
    BY <2>2
  <2>4. ~e
    BY <1>9, <2>1
  <2> QED BY <2>3, <2>4, Zenon
<1>10. c.name = n
  BY <1>2, <1>8, NamesOfBody
<1>11. \A i \in DOMAIN body : i < k => body[i] \in own
  BY <1>2, <1>3, ChunksOfBody
<1>12. \A l \in own : l.var \in {"ConnectTo", "Mode", "Broadcast"} => l \in c.server
  BY <1>4, <1>8 DEF Takes, Flags
<1>13. Line("ConnectTo", Inviter) \in c.server
  <2>1. body[2] = Line("ConnectTo", Inviter) /\ 2 \in DOMAIN body /\ 2 < k
    <3>1. DOMAIN body = 1 .. Len(body) /\ Len(body) \in Nat
      BY <1>2, LenProperties DEF BodyParts
    <3> QED BY <1>2, <3>1 DEF BodyParts
  <2> QED BY <1>11, <1>12, <2>1 DEF Line
<1>14. ModeLines \subseteq c.server
  <2>1. \A l \in ModeLines : l \in own
    BY <1>2, <1>11 DEF BodyParts
  <2>2. \A l \in ModeLines : l.var \in {"ConnectTo", "Mode", "Broadcast"}
    BY DEF ModeLines
  <2> QED BY <1>12, <2>1, <2>2
<1>15. \E p \in c.peers :
          /\ p.name = Inviter
          /\ \A l \in ToSet(settings.host) :
               l.var = "Name" \/ l \in p.lines \/ (l.var = "Port" /\ Line("Port", ThePort) \in p.lines)
  <2>1. PICK p : p = [name |-> ChunkName(body, k),
                      lines |-> {body[i] : i \in Chunk(body, k) \ Named(body, k)}]
    OBVIOUS
  <2>2. p.name = Inviter /\ p.lines = {body[i] : i \in Chunk(body, k) \ Named(body, k)}
    BY <1>2, <2>1, NamesOfBody
  <2>3. k \in {i \in DOMAIN body : body[i] = Separator /\ Named(body, i) # {}}
    BY <1>2, NamesOfBody DEF BodyParts
  <2>4. p \in c.peers
    BY <1>5, <1>8, <2>1, <2>3
  <2>5. ASSUME NEW l \in ToSet(settings.host), l.var # "Name"
        PROVE  l \in p.lines \/ (l.var = "Port" /\ Line("Port", ThePort) \in p.lines)
    <3>1. PICK i \in DOMAIN settings.host : settings.host[i] = l
      BY DEF ToSet
    <3>2. PICK h : h = HostLines[i]
      OBVIOUS
    <3>3. h = IF l.var = "Port" THEN Line("Port", ThePort) ELSE l
      BY <3>1, <3>2 DEF HostLines
    <3>4. h.var # "Name"
      BY <2>5, <3>3 DEF Line
    <3>5. k + 1 + i \in DOMAIN body /\ body[k + 1 + i] = h
      BY <1>2, <3>2 DEF BodyParts
    <3>6. i \in Nat
      <4>1. settings.host \in Seq(ToSet(settings.host))
        BY SettingsAssumption
      <4>2. DOMAIN settings.host = 1 .. Len(settings.host) /\ Len(settings.host) \in Nat
        BY <4>1, LenProperties
      <4> QED BY <4>2
    <3>7. PICK e : e = k + 1 + i
      OBVIOUS
    <3>8. e \in DOMAIN body /\ e > k /\ body[e] = h
      BY <3>5, <3>6, <3>7
    <3>9. e \in Chunk(body, k) \ Named(body, k)
      BY <1>2, <3>4, <3>8, ChunksOfBody DEF Named
    <3>10. PICK at : at = Chunk(body, k) \ Named(body, k)
      OBVIOUS
    <3>11. body[e] \in {body[x] : x \in at}
      BY <3>9, <3>10
    <3>12. h \in p.lines
      BY <2>2, <3>8, <3>10, <3>11
    <3>13. (h = Line("Port", ThePort) /\ l.var = "Port") \/ h = l
      BY <3>3
    <3> QED BY <3>12, <3>13
  <2> QED BY <2>2, <2>4, <2>5
<1>16. ~force => {l \in c.server \union c.host : "safe" \notin Flags[l.var]} = {}
  <2>1. SUFFICES ASSUME ~force, NEW l \in c.server \union c.host PROVE "safe" \in Flags[l.var]
    OBVIOUS
  <2>2. l \in taken
    BY <1>8, <2>1
  <2> QED BY <1>4, <2>1, <2>2 DEF Takes
<1>17. ~force => ~(c.enabled /\ c.up # {})
  BY <1>8, <1>9
<1> QED BY <1>10, <1>13, <1>14, <1>15, <1>16, <1>17 DEF ConfigFits

-----------------------------------------------------------------------------
(* One joiner and its connection.  Messages come from those that were      *)
(* there and those that are new.                                           *)
From(new, old, more) ==
    \A i \in DOMAIN new : new[i] \in more \/ \E k \in DOMAIN old : new[i] = old[k]

LEMMA TailFrom ==
    ASSUME NEW T, NEW s \in Seq(T), s # <<>>
    PROVE  Tail(s) \in Seq(T) /\ From(Tail(s), s, {}) /\ Head(s) \in T /\ 1 \in DOMAIN s /\ Head(s) = s[1]
<1>1. /\ Tail(s) \in Seq(T) /\ Len(Tail(s)) = Len(s) - 1 /\ Head(s) \in T
      /\ \A i \in 1 .. Len(Tail(s)) : Tail(s)[i] = s[i + 1]
  BY HeadTailProperties
<1>2. Len(s) \in Nat /\ DOMAIN s = 1 .. Len(s) /\ DOMAIN Tail(s) = 1 .. Len(Tail(s))
  BY <1>1, LenProperties
<1>3. Len(s) \in Nat \ {0}
  BY EmptySeq
<1>4. \A i \in 1 .. Len(Tail(s)) : i + 1 \in DOMAIN s
  BY <1>1, <1>2
<1>5. From(Tail(s), s, {})
  BY <1>1, <1>2, <1>4 DEF From
<1>6. 1 \in DOMAIN s /\ Head(s) = s[1]
  BY <1>2, <1>3
<1> QED BY <1>1, <1>5, <1>6

LEMMA AppendFrom ==
    ASSUME NEW T, NEW s \in Seq(T), NEW m \in T
    PROVE  Append(s, m) \in Seq(T) /\ From(Append(s, m), s, {m})
<1>1. /\ Append(s, m) \in Seq(T) /\ Len(Append(s, m)) = Len(s) + 1
      /\ \A i \in 1 .. Len(s) : Append(s, m)[i] = s[i]
      /\ Append(s, m)[Len(s) + 1] = m
  BY AppendProperties
<1>2. Len(s) \in Nat /\ DOMAIN s = 1 .. Len(s) /\ DOMAIN Append(s, m) = 1 .. Len(s) + 1
  BY <1>1, LenProperties
<1> QED BY <1>1, <1>2 DEF From

LEMMA EmptyFrom ==
    ASSUME NEW T, NEW s
    PROVE  <<>> \in Seq(T) /\ From(<<>>, s, {})
<1>1. PICK e : e = <<>>
  OBVIOUS
<1>2. e \in Seq(T) /\ Len(e) = 0
  BY <1>1, EmptySeq
<1>3. DOMAIN e = 1 .. 0
  BY <1>2, LenProperties
<1>4. \A i \in 1 .. 0 : FALSE
  OBVIOUS
<1> QED BY <1>1, <1>2, <1>3, <1>4 DEF From

(* The messages that say nothing yet.                                      *)
Plain(in, out) ==
    (\A m \in in : m.what # "public key") /\ \A m \in out : m.what \notin {"data", "done"}

(* A step by which nothing new is known.                                   *)
LEMMA FitsStays ==
    ASSUME NEW j, NEW join, NEW link, NEW hosts, NEW known, NEW body,
           JoinFits(j, join, link, hosts, known, body),
           NEW join2 \in JoinType(body), NEW link2 \in ConnType(body), NEW in, NEW out, Plain(in, out),
           From(link2.in, link.in, in), From(link2.out, link.out, out),
           link2.name = link.name, link.phase \in {"key", "closed"} => link2.phase \in {"key", "closed"},
           join2.key = join.key, join2.written = join.written, join2.config = join.config,
           join2.force = join.force, join2.phase \in {"write", "sent", "joined"} => join2.phase = join.phase
    PROVE  JoinFits(j, join2, link2, hosts, known, body)
<1>1. Dealt(link) => Dealt(link2)
  BY DEF Dealt
<1>2. KeyIsWritten(j, join2) /\ ConfigFromData(join2, link2, body) /\ JoinedFits(join2, hosts, known, body)
  BY <1>1 DEF JoinFits, KeyIsWritten, ConfigFromData, JoinedFits
<1>3. KeyFits(join2, link2)
  BY <1>1 DEF JoinFits, KeyFits, From, Plain
<1>4. DataFits(link2, body)
  BY <1>1 DEF JoinFits, DataFits, From, Plain
<1>5. DoneFits(join2, link2, hosts, known)
  BY <1>1 DEF JoinFits, DoneFits, From, Plain
<1> QED BY <1>2, <1>3, <1>4, <1>5 DEF JoinFits

(* A new connection, or none.                                              *)
LEMMA FitsFresh ==
    ASSUME NEW j, NEW join, NEW link, NEW hosts, NEW known, NEW body,
           JoinFits(j, join, link, hosts, known, body),
           NEW join2 \in JoinType(body), NEW link2 \in ConnType(body), NEW in, NEW none, Plain(in, {}),
           From(link2.in, none, in), none = <<>>, link2.out = <<>>,
           join2.key = join.key, join2.written = join.written, join2.phase \notin {"write", "sent", "joined"}
    PROVE  JoinFits(j, join2, link2, hosts, known, body)
<1>0. DOMAIN none = {}
  <2>1. none \in Seq({}) /\ Len(none) = 0
    BY EmptySeq
  <2>2. DOMAIN none = 1 .. 0
    BY <2>1, LenProperties
  <2> QED BY <2>2
<1>1. KeyIsWritten(j, join2) /\ ConfigFromData(join2, link2, body) /\ JoinedFits(join2, hosts, known, body)
  BY DEF JoinFits, KeyIsWritten, ConfigFromData, JoinedFits
<1>2. KeyFits(join2, link2)
  BY <1>0 DEF KeyFits, From, Plain
<1>3. DataFits(link2, body) /\ DoneFits(join2, link2, hosts, known)
  <2>1. link2.out = none
    OBVIOUS
  <2> QED BY <1>0, <2>1 DEF DataFits, DoneFits
<1> QED BY <1>1, <1>2, <1>3 DEF JoinFits

(* The inviter learns of others.                                           *)
LEMMA FitsMore ==
    ASSUME NEW j, j # 0, NEW join, NEW link, NEW hosts, NEW known, NEW body, NEW hosts2, NEW known2,
           JoinFits(j, join, link, hosts, known, body),
           \A n \in Invitee : hosts[n] # 0 =>
               hosts2[n] = hosts[n] /\ (known[n] = hosts[n] => known2[n] = hosts[n])
    PROVE  JoinFits(j, join, link, hosts2, known2, body)
<1>1. ASSUME NEW n, Holds(hosts, known, n, join.key), join.written = 6
      PROVE  Holds(hosts2, known2, n, join.key)
  <2>1. join.key = j
    BY <1>1 DEF JoinFits, KeyIsWritten
  <2> QED BY <1>1, <2>1 DEF Holds
<1>2. DoneFits(join, link, hosts2, known2)
  BY <1>1 DEF JoinFits, DoneFits
<1>3. JoinedFits(join, hosts2, known2, body)
  BY <1>1 DEF JoinFits, JoinedFits
<1> QED BY <1>2, <1>3 DEF JoinFits

-----------------------------------------------------------------------------
(* Steps of the whole.  What is sent to a name does not change.            *)
LEMMA BodiesStay == ASSUME settings' = settings PROVE Bodies' = Bodies
BY DEF Bodies, BuildInvitationBody, ModeLines, HostLines

(* What the invariant says when nothing happens to the settings.           *)
LEMMA InviteFrame ==
    ASSUME InviteInv, settings' = settings, inviter' \in InviterType,
           urls' \in SUBSET [key : Nat, cookie : Nat], spent' \in Seq(Nat), CookiesHold', UsedOnce',
           joins' \in [Joiner -> JoinType(Bodies)], conns' \in [Joiner -> ConnType(Bodies)],
           \A j \in Joiner : JoinFits(j, joins'[j], conns'[j], inviter'.hosts, inviter'.known, Bodies),
           HostsHaveJoiners'
    PROVE  InviteInv'
<1>1. PICK body : body = Bodies
  OBVIOUS
<1>2. Bodies' = body
  BY <1>1, BodiesStay
<1> QED BY <1>1, <1>2 DEF InviteInv

(* A joiner's key once it has one, and the name that goes with it.         *)
LEMMA JoinersStay ==
    ASSUME HostsHaveJoiners, inviter'.hosts = inviter.hosts,
           \A j \in Joiner : joins[j].key # 0 =>
               joins'[j].key = joins[j].key /\ joins'[j].config.name = joins[j].config.name
    PROVE  HostsHaveJoiners'
BY DEF HostsHaveJoiners

(* One joiner and its connection, while the inviter knows what it knew.    *)
LEMMA OneJoiner ==
    ASSUME InviteInv, NEW j \in Joiner, NEW join, NEW link, settings' = settings, urls' = urls,
           joins' = [joins EXCEPT ![j] = join], conns' = [conns EXCEPT ![j] = link],
           inviter' \in InviterType, inviter'.hosts = inviter.hosts, inviter'.known = inviter.known,
           spent' \in Seq(Nat), CookiesHold', UsedOnce',
           JoinFits(j, join, link, inviter.hosts, inviter.known, Bodies),
           joins[j].key # 0 => join.key = joins[j].key /\ join.config.name = joins[j].config.name
    PROVE  InviteInv'
<1>1. PICK body : body = Bodies
  OBVIOUS
<1>2. joins \in [Joiner -> JoinType(body)] /\ conns \in [Joiner -> ConnType(body)]
  BY <1>1 DEF InviteInv
<1>3. join \in JoinType(body) /\ link \in ConnType(body)
  BY <1>1 DEF JoinFits
<1>4. joins' \in [Joiner -> JoinType(body)] /\ conns' \in [Joiner -> ConnType(body)]
  BY <1>2, <1>3
<1>5. ASSUME NEW i \in Joiner
      PROVE  JoinFits(i, joins'[i], conns'[i], inviter'.hosts, inviter'.known, body)
  <2>1. CASE i = j
    <3>1. joins'[i] = join /\ conns'[i] = link
      BY <1>2, <2>1
    <3> QED BY <1>1, <2>1, <3>1
  <2>2. CASE i # j
    <3>1. joins'[i] = joins[i] /\ conns'[i] = conns[i]
      BY <1>2, <2>2
    <3> QED BY <1>1, <3>1 DEF InviteInv
  <2> QED BY <2>1, <2>2
<1>6. \A i \in Joiner : joins[i].key # 0 =>
         joins'[i].key = joins[i].key /\ joins'[i].config.name = joins[i].config.name
  BY <1>2
<1>7. HostsHaveJoiners'
  BY <1>6, JoinersStay DEF InviteInv
<1>8. urls' \in SUBSET [key : Nat, cookie : Nat]
  BY DEF InviteInv
<1> QED BY <1>1, <1>4, <1>5, <1>7, <1>8, InviteFrame

(* ... and the files, the cookies and the inviter stay.                    *)
LEMMA QuietJoiner ==
    ASSUME InviteInv, NEW j \in Joiner, NEW join, NEW link, UNCHANGED <<settings, inviter, urls, spent>>,
           joins' = [joins EXCEPT ![j] = join], conns' = [conns EXCEPT ![j] = link],
           JoinFits(j, join, link, inviter.hosts, inviter.known, Bodies),
           joins[j].key # 0 => join.key = joins[j].key /\ join.config.name = joins[j].config.name
    PROVE  InviteInv'
<1>1. CookiesHold' /\ UsedOnce' /\ inviter' \in InviterType /\ spent' \in Seq(Nat)
  BY DEF InviteInv, CookiesHold, UsedOnce
<1> QED BY <1>1, OneJoiner

(* What is known of one joiner before a step.                              *)
LEMMA JoinerBefore ==
    ASSUME InviteInv, NEW j \in Joiner
    PROVE  /\ JoinFits(j, joins[j], conns[j], inviter.hosts, inviter.known, Bodies)
           /\ joins[j] \in JoinType(Bodies) /\ conns[j] \in ConnType(Bodies)
           /\ joins = [joins EXCEPT ![j] = joins[j]] /\ conns = [conns EXCEPT ![j] = conns[j]]
<1>1. joins \in [Joiner -> JoinType(Bodies)] /\ conns \in [Joiner -> ConnType(Bodies)]
  BY DEF InviteInv
<1>2. joins[j] \in JoinType(Bodies) /\ conns[j] \in ConnType(Bodies)
  BY <1>1
<1>3. joins = [joins EXCEPT ![j] = joins[j]] /\ conns = [conns EXCEPT ![j] = conns[j]]
  BY <1>1
<1> QED BY <1>2, <1>3 DEF InviteInv

LEMMA NoConnIs ==
    ASSUME NEW body
    PROVE  NoConn \in ConnType(body) /\ NoConn.out = <<>> /\ NoConn.in = <<>> /\ NoConn.name = ""
           /\ NoConn.phase = "none"
<1>1. PICK e : e = <<>>
  OBVIOUS
<1>2. e \in Seq(ToDaemon) /\ e \in Seq(FromDaemon(body))
  BY <1>1, EmptySeq
<1>3. NoConn = [phase |-> "none", name |-> "", in |-> e, out |-> e]
  BY <1>1 DEF NoConn
<1> QED BY <1>1, <1>2, <1>3 DEF ConnType, ConnPhases

(* A joiner that fails and has no connection.                              *)
LEMMA FailsAlone ==
    ASSUME InviteInv, NEW j \in Joiner, UNCHANGED <<settings, inviter, urls, spent>>,
           SetJoin(j, FailJoin(j)), SetConn(j, NoConn)
    PROVE  InviteInv'
<1>1. PICK body : body = Bodies
  OBVIOUS
<1>2. PICK join : join = joins[j]
  OBVIOUS
<1>3. PICK join2 : join2 = [join EXCEPT !.phase = "failed"]
  OBVIOUS
<1>4. PICK none : none = <<>>
  OBVIOUS
<1>5. JoinFits(j, join, conns[j], inviter.hosts, inviter.known, body) /\ join \in JoinType(body)
  BY <1>1, <1>2, JoinerBefore
<1>6. join2 \in JoinType(body) /\ join2.key = join.key /\ join2.written = join.written
      /\ join2.phase = "failed" /\ join2.config = join.config
  BY <1>3, <1>5 DEF JoinType, JoinPhases
<1>7. PICK link2 : link2 = NoConn
  OBVIOUS
<1>8. link2 \in ConnType(body) /\ link2.in = none /\ link2.out = <<>>
  BY <1>4, <1>7, NoConnIs
<1>9. From(none, none, {}) /\ Plain({}, {})
  BY <1>4, EmptyFrom DEF Plain
<1>10. JoinFits(j, join2, link2, inviter.hosts, inviter.known, body)
  BY <1>4, <1>5, <1>6, <1>8, <1>9, FitsFresh
<1>11. joins' = [joins EXCEPT ![j] = join2] /\ conns' = [conns EXCEPT ![j] = link2]
  BY <1>2, <1>3, <1>7 DEF SetJoin, SetConn, FailJoin
<1> QED BY <1>1, <1>2, <1>6, <1>10, <1>11, QuietJoiner

(* The connection is closed by the daemon or cut.                          *)
LEMMA ClosedFits ==
    ASSUME NEW body, NEW j \in Joiner, NEW hosts, NEW known, NEW join, NEW link,
           NEW link2, link2 = [link EXCEPT !.phase = "closed", !.in = <<>>],
           JoinFits(j, join, link, hosts, known, body)
    PROVE  JoinFits(j, join, link2, hosts, known, body)
<1>1. PICK e : e = <<>>
  OBVIOUS
<1>2. e \in Seq(ToDaemon) /\ From(e, link.in, {})
  BY <1>1, EmptyFrom
<1>3. link \in ConnType(body) /\ join \in JoinType(body)
  BY DEF JoinFits
<1>4. link2 = [link EXCEPT !["phase"] = "closed", !["in"] = e]
  BY <1>1
<1>5. link2 \in ConnType(body) /\ link2.in = e /\ link2.out = link.out /\ link2.name = link.name
      /\ link2.phase = "closed"
  BY <1>2, <1>3, <1>4 DEF ConnType, ConnPhases
<1>6. From(link2.out, link.out, {})
  BY <1>5 DEF From
<1>7. Plain({}, {})
  BY DEF Plain
<1> QED BY <1>2, <1>3, <1>5, <1>6, <1>7, FitsStays

-----------------------------------------------------------------------------
(* The inviter's commands and its reloads.                                 *)
LEMMA OnlyInviter ==
    ASSUME InviteInv, settings' = settings, joins' = joins,
           conns' = conns \/ conns' = [j \in Joiner |-> [conns[j] EXCEPT !.phase = "closed", !.in = <<>>]],
           inviter' \in InviterType, inviter'.hosts = inviter.hosts,
           inviter'.known \in {inviter.known, inviter.hosts},
           urls' \in SUBSET [key : Nat, cookie : Nat], spent' \in Seq(Nat), CookiesHold', UsedOnce'
    PROVE  InviteInv'
<1>1. PICK body : body = Bodies
  OBVIOUS
<1>2. joins' \in [Joiner -> JoinType(body)] /\ conns \in [Joiner -> ConnType(body)]
  BY <1>1 DEF InviteInv
<1>3. ASSUME NEW j \in Joiner
      PROVE  JoinFits(j, joins'[j], conns'[j], inviter'.hosts, inviter'.known, body)
  <2>1. PICK join : join = joins[j]
    OBVIOUS
  <2>2. PICK link : link = conns[j]
    OBVIOUS
  <2>3. JoinFits(j, join, link, inviter.hosts, inviter.known, body)
    BY <1>1, <2>1, <2>2, JoinerBefore
  <2>4. JoinFits(j, join, link, inviter'.hosts, inviter'.known, body)
    BY <2>3, FitsMore, JoinerAssumption
  <2>5. CASE conns' = conns
    BY <2>1, <2>2, <2>4, <2>5
  <2>6. CASE conns' = [i \in Joiner |-> [conns[i] EXCEPT !.phase = "closed", !.in = <<>>]]
    <3>1. PICK link2 : link2 = [link EXCEPT !.phase = "closed", !.in = <<>>]
      OBVIOUS
    <3>2. conns'[j] = link2
      BY <2>2, <2>6, <3>1
    <3> QED BY <2>1, <2>4, <3>1, <3>2, ClosedFits
  <2> QED BY <2>5, <2>6
<1>4. conns' \in [Joiner -> ConnType(body)]
  <2>1. \A j \in Joiner : conns'[j] \in ConnType(body)
    BY <1>3 DEF JoinFits
  <2>2. CASE conns' = conns
    BY <1>2, <2>2
  <2>3. CASE conns' = [i \in Joiner |-> [conns[i] EXCEPT !.phase = "closed", !.in = <<>>]]
    BY <2>1, <2>3
  <2> QED BY <2>2, <2>3
<1>5. HostsHaveJoiners'
  BY JoinersStay DEF InviteInv
<1> QED BY <1>1, <1>2, <1>3, <1>4, <1>5, InviteFrame

LEMMA ReloadFits ==
    ASSUME InviteInv, Reload \/ Restart
    PROVE  InviteInv'
<1>1. inviter' = [inviter EXCEPT !.loaded = inviter.key, !.known = inviter.hosts]
  BY DEF Reload, Restart
<1>2. inviter \in InviterType
  BY DEF InviteInv
<1>3. PICK k : k = inviter.key
  OBVIOUS
<1>4. PICK h : h = inviter.hosts
  OBVIOUS
<1>5. inviter' = [inviter EXCEPT !["loaded"] = k, !["known"] = h]
  BY <1>1, <1>3, <1>4
<1>6. inviter' \in InviterType /\ inviter'.hosts = inviter.hosts /\ inviter'.known = inviter.hosts
      /\ inviter'.files = inviter.files
  BY <1>2, <1>3, <1>4, <1>5 DEF InviterType
<1>7. CookiesHold' /\ UsedOnce'
  BY <1>6 DEF InviteInv, CookiesHold, UsedOnce, Reload, Restart
<1>8. urls' \in SUBSET [key : Nat, cookie : Nat] /\ spent' \in Seq(Nat)
  BY DEF InviteInv, Reload, Restart
<1>9. settings' = settings /\ joins' = joins
      /\ (conns' = conns \/ conns' = [j \in Joiner |-> [conns[j] EXCEPT !.phase = "closed", !.in = <<>>]])
  BY DEF Reload, Restart
<1> QED BY <1>6, <1>7, <1>8, <1>9, OnlyInviter

LEMMA AgeFits ==
    ASSUME InviteInv, Age
    PROVE  InviteInv'
<1>1. PICK f \in inviter.files :
         inviter' = [inviter EXCEPT !.files = (@ \ {f}) \union {[f EXCEPT !.age = @ + 1]}]
  BY DEF Age
<1>2. inviter \in InviterType
  BY DEF InviteInv
<1>3. PICK g : g = [f EXCEPT !.age = @ + 1]
  OBVIOUS
<1>4. f \in InviteFile
  BY <1>1, <1>2 DEF InviterType
<1>5. g \in InviteFile /\ g.cookie = f.cookie
  BY <1>3, <1>4 DEF InviteFile
<1>6. PICK stored : stored = (inviter.files \ {f}) \union {g}
  OBVIOUS
<1>7. inviter' = [inviter EXCEPT !["files"] = stored]
  BY <1>1, <1>3, <1>6
<1>8. stored \in SUBSET InviteFile
  BY <1>2, <1>5, <1>6 DEF InviterType
<1>9. inviter' \in InviterType /\ inviter'.hosts = inviter.hosts /\ inviter'.known = inviter.known
      /\ inviter'.files = stored
  BY <1>2, <1>7, <1>8 DEF InviterType
<1>10. UNCHANGED <<settings, urls, joins, conns, spent>>
  BY DEF Age
<1>11. CookiesHold' /\ UsedOnce'
  <2>1. \A a \in stored : \E b \in inviter.files : a.cookie = b.cookie /\ (a = b \/ (a = g /\ b = f))
    BY <1>1, <1>5, <1>6
  <2>2. \A a \in stored : a # g => a \in inviter.files /\ a # f
    BY <1>6
  <2>3. \A a, b \in stored : a.cookie = b.cookie => a = b
    <3>1. \A a, b \in inviter.files : a.cookie = b.cookie => a = b
      BY DEF InviteInv, CookiesHold
    <3>2. \A a \in stored : a # g => a.cookie # g.cookie
      BY <1>1, <1>5, <2>2, <3>1
    <3>3. SUFFICES ASSUME NEW a \in stored, NEW b \in stored, a.cookie = b.cookie PROVE a = b
      OBVIOUS
    <3>4. CASE a = g
      BY <3>2, <3>3, <3>4
    <3>5. CASE b = g
      BY <3>2, <3>3, <3>5
    <3>6. CASE a # g /\ b # g
      <4>1. a \in inviter.files /\ b \in inviter.files
        BY <2>2, <3>6
      <4> QED BY <3>1, <3>3, <4>1
    <3> QED BY <3>4, <3>5, <3>6
  <2>4. PICK made : made = Cardinality(urls)
    OBVIOUS
  <2>5. /\ IsFiniteSet(urls) /\ \A u \in urls : u.cookie <= made
        /\ \A h \in inviter.files : h.cookie <= made
        /\ \A i \in DOMAIN spent : spent[i] <= made /\ \A h \in inviter.files : h.cookie # spent[i]
        /\ UsedOnce
    BY <2>4 DEF InviteInv, CookiesHold
  <2>6. \A h \in stored : h.cookie <= made
    BY <2>1, <2>5
  <2>7. \A i \in DOMAIN spent : \A h \in stored : h.cookie # spent[i]
    BY <2>1, <2>5
  <2>8. CookiesHold'
    BY <1>9, <1>10, <2>3, <2>4, <2>5, <2>6, <2>7 DEF CookiesHold
  <2>9. UsedOnce'
    BY <1>10, <2>5 DEF UsedOnce
  <2> QED BY <2>8, <2>9
<1> QED BY <1>9, <1>10, <1>11, OnlyInviter DEF InviteInv

LEMMA InviteFits ==
    ASSUME InviteInv, NEW n \in Invitee, Invite(n)
    PROVE  InviteInv'
<1>1. PICK kept : kept = {f \in inviter.files : f.used \/ ~ExpiredForTool(f)}
  OBVIOUS
<1>2. PICK active : active = {f \in kept : ~f.used}
  OBVIOUS
<1>3. PICK key : key = IF active = {} \/ inviter.key = 0 THEN inviter.keys + 1 ELSE inviter.key
  OBVIOUS
<1>4. PICK keys : keys = IF active = {} \/ inviter.key = 0 THEN key ELSE inviter.keys
  OBVIOUS
<1>5. PICK cookie : cookie = Cardinality(urls) + 1
  OBVIOUS
<1>6. PICK file : file = [cookie |-> cookie, key |-> key, age |-> 0, used |-> FALSE, name |-> n]
  OBVIOUS
<1>7. PICK stored : stored = kept \union {file}
  OBVIOUS
<1>8. inviter' = [inviter EXCEPT !["files"] = stored, !["key"] = key, !["keys"] = keys]
  BY <1>1, <1>2, <1>3, <1>4, <1>5, <1>6, <1>7 DEF Invite
<1>9. urls' = urls \union {[key |-> key, cookie |-> cookie]}
  BY <1>1, <1>2, <1>3, <1>5 DEF Invite
<1>10. UNCHANGED <<settings, joins, conns, spent>>
  BY DEF Invite
<1>11. inviter \in InviterType /\ inviter.key \in Nat /\ inviter.keys \in Nat
       /\ inviter.files \in SUBSET InviteFile
  BY DEF InviteInv, InviterType
<1>12. IsFiniteSet(urls) /\ Cardinality(urls) \in Nat
  BY FS_CardinalityType DEF InviteInv, CookiesHold
<1>13. key \in Nat /\ keys \in Nat /\ cookie \in Nat
  BY <1>3, <1>4, <1>5, <1>11, <1>12
<1>14. file \in InviteFile /\ file.cookie = cookie
  BY <1>6, <1>13 DEF InviteFile
<1>15. stored \in SUBSET InviteFile /\ \A f \in stored : f = file \/ f \in inviter.files
  BY <1>1, <1>7, <1>11, <1>14
<1>16. inviter' \in InviterType /\ inviter'.hosts = inviter.hosts /\ inviter'.known = inviter.known
       /\ inviter'.files = stored
  BY <1>8, <1>11, <1>13, <1>15 DEF InviterType
<1>17. PICK url : url = [key |-> key, cookie |-> cookie]
  OBVIOUS
<1>18. url \in [key : Nat, cookie : Nat] /\ url.cookie = cookie
  BY <1>13, <1>17
<1>19. urls \in SUBSET [key : Nat, cookie : Nat] /\ \A u \in urls : u.cookie \in Nat /\ u.cookie <= Cardinality(urls)
  BY DEF InviteInv, CookiesHold
<1>20. url \notin urls
  BY <1>5, <1>12, <1>18, <1>19
<1>21. IsFiniteSet(urls') /\ Cardinality(urls') = cookie
  BY <1>5, <1>9, <1>12, <1>17, <1>20, FS_AddElement
<1>22. CookiesHold'
  <2>1. \A u \in urls' : u.cookie <= cookie
    BY <1>5, <1>9, <1>12, <1>13, <1>17, <1>18, <1>19
  <2>2. \A f \in inviter.files : f.cookie \in Nat /\ f.cookie <= Cardinality(urls)
    BY <1>11 DEF InviteInv, CookiesHold, InviteFile
  <2>3. \A f \in stored : f.cookie <= cookie
    BY <1>5, <1>12, <1>13, <1>14, <1>15, <2>2
  <2>4. \A f, g \in stored : f.cookie = g.cookie => f = g
    <3>1. \A f \in inviter.files : f.cookie # cookie
      BY <1>5, <1>12, <2>2
    <3> QED BY <1>14, <1>15, <3>1 DEF InviteInv, CookiesHold
  <2>5. \A i \in DOMAIN spent : spent[i] \in Nat /\ spent[i] <= Cardinality(urls)
    <3>1. spent \in Seq(Nat)
      BY DEF InviteInv
    <3>2. \A i \in DOMAIN spent : spent[i] \in Nat
      BY <3>1, ElementOfSeq, LenProperties
    <3> QED BY <3>2 DEF InviteInv, CookiesHold
  <2>6. \A i \in DOMAIN spent : spent[i] <= cookie /\ spent[i] # cookie
    BY <1>5, <1>12, <2>5
  <2>7. \A i \in DOMAIN spent : \A f \in stored : f.cookie # spent[i]
    BY <1>14, <1>15, <2>6 DEF InviteInv, CookiesHold
  <2> QED BY <1>10, <1>16, <1>21, <2>1, <2>3, <2>4, <2>6, <2>7 DEF CookiesHold
<1>23. UsedOnce'
  BY <1>10 DEF InviteInv, UsedOnce
<1>24. urls' \in SUBSET [key : Nat, cookie : Nat]
  BY <1>9, <1>17, <1>18, <1>19
<1>25. spent' \in Seq(Nat)
  BY <1>10 DEF InviteInv
<1> QED BY <1>10, <1>16, <1>22, <1>23, <1>24, <1>25, OnlyInviter

-----------------------------------------------------------------------------
(* The daemon answers on a joiner's connection.                            *)
Answers(link, new, m, phase, name) ==
    /\ new = [link EXCEPT !.in = Tail(@), !.out = Append(@, m), !.phase = phase, !.name = name]
    /\ new.phase = phase /\ new.name = name
    /\ From(new.in, link.in, {}) /\ From(new.out, link.out, {m})

LEMMA AnswerIs ==
    ASSUME NEW body, NEW link \in ConnType(body), link.in # <<>>, NEW m \in FromDaemon(body),
           NEW phase \in ConnPhases, NEW name \in Invitee \union {""}
    PROVE  \E new \in ConnType(body) : Answers(link, new, m, phase, name)
<1>1. link.in \in Seq(ToDaemon) /\ link.out \in Seq(FromDaemon(body))
  BY DEF ConnType
<1>2. PICK in : in = Tail(link.in)
  OBVIOUS
<1>3. PICK out : out = Append(link.out, m)
  OBVIOUS
<1>4. in \in Seq(ToDaemon) /\ From(in, link.in, {})
  BY <1>1, <1>2, TailFrom
<1>5. out \in Seq(FromDaemon(body)) /\ From(out, link.out, {m})
  BY <1>1, <1>3, AppendFrom
<1>6. PICK new : new = [link EXCEPT !.in = in, !.out = out, !.phase = phase, !.name = name]
  OBVIOUS
<1>7. new = [link EXCEPT !.in = Tail(@), !.out = Append(@, m), !.phase = phase, !.name = name]
  BY <1>2, <1>3, <1>6
<1>8. new = [phase |-> phase, name |-> name, in |-> in, out |-> out]
  BY <1>6 DEF ConnType
<1>9. new \in ConnType(body) /\ new.phase = phase /\ new.name = name /\ new.in = in /\ new.out = out
  BY <1>4, <1>5, <1>8 DEF ConnType
<1> QED BY <1>4, <1>5, <1>7, <1>9 DEF Answers

(* The daemon closes a connection.                                         *)
LEMMA ClosesAlone ==
    ASSUME InviteInv, NEW j \in Joiner, CloseConn(j), UNCHANGED <<settings, inviter, urls, joins, spent>>
    PROVE  InviteInv'
<1>1. PICK body : body = Bodies
  OBVIOUS
<1>2. PICK join : join = joins[j]
  OBVIOUS
<1>3. PICK link : link = conns[j]
  OBVIOUS
<1>4. PICK link2 : link2 = [link EXCEPT !.phase = "closed", !.in = <<>>]
  OBVIOUS
<1>5. JoinFits(j, join, link, inviter.hosts, inviter.known, body) /\ joins' = [joins EXCEPT ![j] = join]
  BY <1>1, <1>2, <1>3, JoinerBefore
<1>6. JoinFits(j, join, link2, inviter.hosts, inviter.known, body)
  BY <1>4, <1>5, ClosedFits
<1>7. conns' = [conns EXCEPT ![j] = link2]
  BY <1>3, <1>4 DEF CloseConn, SetConn
<1> QED BY <1>1, <1>2, <1>5, <1>6, <1>7, QuietJoiner

LEMMA HelloFits ==
    ASSUME InviteInv, NEW j \in Joiner, HandleHello(j)
    PROVE  InviteInv'
<1>1. CASE inviter.loaded = 0
  BY <1>1, ClosesAlone DEF HandleHello
<1>2. CASE inviter.loaded # 0
  <2>1. PICK body : body = Bodies
    OBVIOUS
  <2>2. PICK join : join = joins[j]
    OBVIOUS
  <2>3. PICK link : link = conns[j]
    OBVIOUS
  <2>4. PICK m : m = Record("key", inviter.loaded)
    OBVIOUS
  <2>5. m \in FromDaemon(body) /\ m.what = "key"
    BY <2>4 DEF InviteInv, InviterType, FromDaemon, Record
  <2>6. /\ JoinFits(j, join, link, inviter.hosts, inviter.known, body)
        /\ join \in JoinType(body) /\ link \in ConnType(body) /\ joins' = [joins EXCEPT ![j] = join]
    BY <2>1, <2>2, <2>3, JoinerBefore DEF HandleHello
  <2>7. link.phase = "pending" /\ link.in # <<>> /\ link.name \in Invitee \union {""}
    BY <2>3, <2>6 DEF HandleHello, ConnType
  <2>8. PICK new \in ConnType(body) : Answers(link, new, m, "cookie", link.name)
    <3>1. "cookie" \in ConnPhases
      BY DEF ConnPhases
    <3> QED BY <2>5, <2>6, <2>7, <3>1, AnswerIs
  <2>9. conns' = [conns EXCEPT ![j] = new]
    <3>1. conns' = [conns EXCEPT ![j] = [[link EXCEPT !.in = Tail(@), !.out = Append(@, m)] EXCEPT !.phase = "cookie"]]
      BY <1>2, <2>3, <2>4 DEF HandleHello, SetConn, Answered
    <3>2. new = [[link EXCEPT !.in = Tail(@), !.out = Append(@, m)] EXCEPT !.phase = "cookie"]
      BY <2>6, <2>8 DEF ConnType, Answers
    <3> QED BY <3>1, <3>2
  <2>10. Plain({}, {m})
    BY <2>5 DEF Plain
  <2>11. JoinFits(j, join, new, inviter.hosts, inviter.known, body)
    BY <2>6, <2>7, <2>8, <2>10, FitsStays DEF Answers
  <2> QED BY <2>1, <2>2, <2>6, <2>9, <2>11, QuietJoiner DEF HandleHello
<1> QED BY <1>1, <1>2

(* A cookie: the file is taken, and its data is sent or it was too old.    *)
LEMMA CookieFits ==
    ASSUME InviteInv, NEW j \in Joiner, HandleCookie(j)
    PROVE  InviteInv'
<1>0. UNCHANGED <<settings, urls, joins>>
  BY DEF HandleCookie
<1>1. PICK cookie : cookie = Head(conns[j].in).value
  OBVIOUS
<1>2. CASE conns[j].phase = "key" \/ inviter.loaded = 0 \/ Found(cookie) = {}
  BY <1>0, <1>1, <1>2, ClosesAlone DEF HandleCookie
<1>3. CASE ~(conns[j].phase = "key" \/ inviter.loaded = 0 \/ Found(cookie) = {})
  <2>1. PICK f \in Found(cookie) :
            /\ TakeFile(f)
            /\ IF ExpiredForDaemon(f) THEN CloseConn(j) /\ UNCHANGED spent
               ELSE /\ spent' = Append(spent, cookie)
                    /\ SetConn(j, [Answered(j, Record("data", BuildInvitationBody(f.name)))
                                     EXCEPT !.phase = "key", !.name = f.name])
    BY <1>1, <1>3 DEF HandleCookie
  <2>2. conns[j].phase = "cookie" /\ conns[j].in # <<>>
    BY <1>3 DEF HandleCookie
  <2>3. f \in inviter.files /\ f.cookie = cookie
    BY DEF Found
  <2>4. inviter \in InviterType /\ f \in InviteFile
    BY <2>3 DEF InviteInv, InviterType
  <2>5. PICK g : g = [f EXCEPT !.used = TRUE]
    OBVIOUS
  <2>6. g \in InviteFile /\ g.cookie = cookie
    BY <2>3, <2>4, <2>5 DEF InviteFile
  <2>7. PICK stored : stored = (inviter.files \ {f}) \union (IF ExpiredForDaemon(f) THEN {g} ELSE {})
    OBVIOUS
  <2>8. inviter' = [inviter EXCEPT !["files"] = stored]
    BY <2>1, <2>5, <2>7 DEF TakeFile
  <2>9. stored \in SUBSET InviteFile
    BY <2>4, <2>6, <2>7 DEF InviterType
  <2>10. inviter' \in InviterType /\ inviter'.hosts = inviter.hosts /\ inviter'.known = inviter.known
         /\ inviter'.files = stored
    BY <2>4, <2>8, <2>9 DEF InviterType
  <2>11. PICK body : body = Bodies
    OBVIOUS
  <2>12. PICK join : join = joins[j]
    OBVIOUS
  <2>13. PICK link : link = conns[j]
    OBVIOUS
  <2>14. /\ JoinFits(j, join, link, inviter.hosts, inviter.known, body)
         /\ join \in JoinType(body) /\ link \in ConnType(body) /\ joins' = [joins EXCEPT ![j] = join]
    BY <1>0, <2>11, <2>12, <2>13, JoinerBefore
  <2>15. \A a, b \in stored : a.cookie = b.cookie => a = b
    <3>1. \A a \in stored : (a \in inviter.files /\ a # f) \/ a = g
      BY <2>7
    <3> QED BY <2>3, <2>6, <3>1 DEF InviteInv, CookiesHold
  <2>16. \A a \in stored : \E b \in inviter.files : a.cookie = b.cookie
    BY <2>3, <2>6, <2>7
  <2>17. CASE ExpiredForDaemon(f)
    <3>1. CloseConn(j) /\ spent' = spent
      BY <2>1, <2>17
    <3>2. PICK link2 : link2 = [link EXCEPT !.phase = "closed", !.in = <<>>]
      OBVIOUS
    <3>3. JoinFits(j, join, link2, inviter.hosts, inviter.known, body)
      BY <2>14, <3>2, ClosedFits
    <3>4. conns' = [conns EXCEPT ![j] = link2]
      BY <2>13, <3>1, <3>2 DEF CloseConn, SetConn
    <3>5. CookiesHold' /\ UsedOnce' /\ spent' \in Seq(Nat)
      BY <1>0, <2>10, <2>15, <2>16, <3>1 DEF InviteInv, CookiesHold, UsedOnce
    <3> QED BY <1>0, <2>10, <2>11, <2>12, <2>14, <3>3, <3>4, <3>5, OneJoiner
  <2>18. CASE ~ExpiredForDaemon(f)
    <3>1. PICK m : m = Record("data", BuildInvitationBody(f.name))
      OBVIOUS
    <3>2. f.name \in Invitee
      BY <2>4 DEF InviteFile
    <3>3. m \in FromDaemon(body) /\ m.what = "data" /\ m.value = body[f.name]
      BY <2>11, <3>1, <3>2 DEF FromDaemon, Record, Bodies
    <3>4. PICK new \in ConnType(body) : Answers(link, new, m, "key", f.name)
      <4>1. "key" \in ConnPhases
        BY DEF ConnPhases
      <4> QED BY <2>2, <2>13, <2>14, <3>2, <3>3, <4>1, AnswerIs
    <3>5. conns' = [conns EXCEPT ![j] = new]
      <4>1. conns' = [conns EXCEPT ![j] = [[link EXCEPT !.in = Tail(@), !.out = Append(@, m)]
                                            EXCEPT !.phase = "key", !.name = f.name]]
        BY <2>1, <2>13, <2>18, <3>1 DEF SetConn, Answered
      <4>2. new = [[link EXCEPT !.in = Tail(@), !.out = Append(@, m)] EXCEPT !.phase = "key", !.name = f.name]
        BY <2>14, <3>4 DEF ConnType, Answers
      <4> QED BY <4>1, <4>2
    <3>6. ~Dealt(link) /\ Dealt(new)
      BY <2>2, <2>13, <3>2, <3>4 DEF Dealt, Answers
    <3>7. JoinFits(j, join, new, inviter.hosts, inviter.known, body)
      <4>1. KeyIsWritten(j, join) /\ ConfigFromData(join, new, body) /\ JoinedFits(join, inviter.hosts, inviter.known, body)
        BY <2>14, <3>6 DEF JoinFits, ConfigFromData
      <4>2. KeyFits(join, new)
        BY <2>14, <3>4, <3>6 DEF JoinFits, KeyFits, From, Answers
      <4>3. DataFits(new, body)
        BY <2>14, <3>3, <3>4, <3>6 DEF JoinFits, DataFits, From, Answers
      <4>4. DoneFits(join, new, inviter.hosts, inviter.known)
        BY <2>14, <3>3, <3>4, <3>6 DEF JoinFits, DoneFits, From, Answers
      <4> QED BY <2>14, <3>4, <4>1, <4>2, <4>3, <4>4 DEF JoinFits
    <3>8. stored = inviter.files \ {f} /\ spent' = Append(spent, cookie)
      BY <2>1, <2>7, <2>18
    <3>9. spent \in Seq(Nat) /\ cookie \in Nat
      BY <2>3, <2>4 DEF InviteInv, InviteFile
    <3>10. /\ spent' \in Seq(Nat) /\ DOMAIN spent = 1 .. Len(spent) /\ Len(spent) \in Nat
           /\ DOMAIN spent' = 1 .. Len(spent) + 1
           /\ \A i \in DOMAIN spent : spent'[i] = spent[i]
           /\ spent'[Len(spent) + 1] = cookie
      BY <3>8, <3>9, AppendProperties, LenProperties
    <3>11. \A i \in DOMAIN spent' : i \in DOMAIN spent \/ i = Len(spent) + 1
      BY <3>10
    <3>12. \A i \in DOMAIN spent : spent[i] # cookie
      BY <2>3 DEF InviteInv, CookiesHold
    <3>13. UsedOnce'
      BY <3>10, <3>11, <3>12 DEF InviteInv, UsedOnce
    <3>14. \A i \in DOMAIN spent' : spent'[i] <= Cardinality(urls) /\ \A a \in stored : a.cookie # spent'[i]
      <4>1. \A a \in stored : a.cookie # cookie
        BY <2>3, <3>8 DEF InviteInv, CookiesHold
      <4>2. cookie <= Cardinality(urls)
        BY <2>3 DEF InviteInv, CookiesHold
      <4> QED BY <3>8, <3>10, <3>11, <4>1, <4>2 DEF InviteInv, CookiesHold
    <3>15. CookiesHold'
      BY <1>0, <2>10, <2>15, <2>16, <3>14 DEF InviteInv, CookiesHold
    <3> QED BY <1>0, <2>10, <2>11, <2>12, <2>14, <3>5, <3>7, <3>10, <3>13, <3>15, OneJoiner
  <2> QED BY <2>17, <2>18
<1> QED BY <1>2, <1>3

(* A key: the host gets its file and is told that it has joined.           *)
LEMMA KeyHandled ==
    ASSUME InviteInv, NEW j \in Joiner, HandleKey(j)
    PROVE  InviteInv'
<1>0. UNCHANGED <<settings, urls, joins, spent>>
  BY DEF HandleKey
<1>1. PICK n : n = conns[j].name
  OBVIOUS
<1>2. PICK key : key = Head(conns[j].in).value
  OBVIOUS
<1>3. CASE ~(conns[j].phase = "key" /\ inviter.loaded # 0 /\ AcceptsName(n))
  <2>1. CloseConn(j) /\ inviter' = inviter
    BY <1>1, <1>3 DEF HandleKey
  <2> QED BY <1>0, <2>1, ClosesAlone
<1>4. CASE conns[j].phase = "key" /\ inviter.loaded # 0 /\ AcceptsName(n)
  <2>1. inviter' = [inviter EXCEPT !.hosts[n] = key, !.known[n] = key]
    BY <1>1, <1>2, <1>4 DEF HandleKey
  <2>2. SetConn(j, [Answered(j, Record("done", 0)) EXCEPT !.phase = "closed"])
    BY <1>1, <1>4 DEF HandleKey
  <2>3. conns[j].in # <<>> /\ Head(conns[j].in).what = "public key"
    BY DEF HandleKey
  <2>4. PICK body : body = Bodies
    OBVIOUS
  <2>5. PICK join : join = joins[j]
    OBVIOUS
  <2>6. PICK link : link = conns[j]
    OBVIOUS
  <2>7. /\ JoinFits(j, join, link, inviter.hosts, inviter.known, body)
        /\ join \in JoinType(body) /\ link \in ConnType(body)
    BY <2>4, <2>5, <2>6, JoinerBefore
  <2>8. 1 \in DOMAIN link.in /\ Head(link.in) = link.in[1]
    <3>1. link.in \in Seq(ToDaemon) /\ link.in # <<>>
      BY <2>3, <2>6, <2>7 DEF ConnType
    <3> QED BY <3>1, TailFrom
  <2>9. Dealt(link) /\ join.written = 6 /\ key = join.key /\ join.config.name = n
    BY <1>1, <1>2, <2>3, <2>6, <2>7, <2>8 DEF JoinFits, KeyFits
  <2>10. n \in Invitee /\ n = link.name
    BY <1>1, <2>6, <2>9 DEF Dealt
  <2>11. key = j /\ key \in Joiner
    BY <2>7, <2>9 DEF JoinFits, KeyIsWritten
  <2>12. inviter \in InviterType
    BY DEF InviteInv
  <2>13. PICK hosts : hosts = [inviter.hosts EXCEPT ![n] = key]
    OBVIOUS
  <2>14. PICK known : known = [inviter.known EXCEPT ![n] = key]
    OBVIOUS
  <2>15. inviter' = [inviter EXCEPT !["hosts"] = hosts, !["known"] = known]
    BY <2>1, <2>13, <2>14
  <2>16. hosts \in [Invitee -> Joiner \union {0}] /\ known \in [Invitee -> Joiner \union {0}]
    BY <2>11, <2>12, <2>13, <2>14 DEF InviterType
  <2>17. inviter' \in InviterType /\ inviter'.hosts = hosts /\ inviter'.known = known
         /\ inviter'.files = inviter.files
    BY <2>12, <2>15, <2>16 DEF InviterType
  <2>18. hosts[n] = key /\ known[n] = key /\ \A i \in Invitee : i # n => hosts[i] = inviter.hosts[i] /\ known[i] = inviter.known[i]
    BY <2>10, <2>12, <2>13, <2>14 DEF InviterType
  <2>19. inviter.hosts[n] = 0
    BY <1>4 DEF AcceptsName
  <2>20. \A i \in Invitee : inviter.hosts[i] # 0 =>
            hosts[i] = inviter.hosts[i] /\ (inviter.known[i] = inviter.hosts[i] => known[i] = inviter.hosts[i])
    BY <2>18, <2>19
  <2>21. \A i \in Joiner : JoinFits(i, joins[i], conns[i], hosts, known, body)
    <3>1. SUFFICES ASSUME NEW i \in Joiner PROVE JoinFits(i, joins[i], conns[i], hosts, known, body)
      OBVIOUS
    <3>2. JoinFits(i, joins[i], conns[i], inviter.hosts, inviter.known, body)
      BY <2>4, JoinerBefore
    <3>3. i # 0
      BY JoinerAssumption
    <3> QED BY <2>20, <3>2, <3>3, FitsMore
  <2>22. PICK m : m = Record("done", 0)
    OBVIOUS
  <2>23. m \in FromDaemon(body) /\ m.what = "done"
    BY <2>22 DEF FromDaemon, Record
  <2>24. PICK new \in ConnType(body) : Answers(link, new, m, "closed", n)
    <3>1. "closed" \in ConnPhases
      BY DEF ConnPhases
    <3> QED BY <2>3, <2>6, <2>7, <2>10, <2>23, <3>1, AnswerIs
  <2>25. conns' = [conns EXCEPT ![j] = new]
    <3>1. conns' = [conns EXCEPT ![j] = [[link EXCEPT !.in = Tail(@), !.out = Append(@, m)] EXCEPT !.phase = "closed"]]
      BY <2>2, <2>6, <2>22 DEF SetConn, Answered
    <3>2. new = [[link EXCEPT !.in = Tail(@), !.out = Append(@, m)] EXCEPT !.phase = "closed"]
      BY <2>7, <2>10, <2>24 DEF ConnType, Answers
    <3> QED BY <3>1, <3>2
  <2>26. JoinFits(j, join, link, hosts, known, body)
    BY <2>5, <2>6, <2>21
  <2>27. Dealt(new) /\ new.name = link.name
    BY <2>10, <2>24 DEF Dealt, Answers
  <2>28. JoinFits(j, join, new, hosts, known, body)
    <3>1. KeyIsWritten(j, join) /\ ConfigFromData(join, new, body) /\ JoinedFits(join, hosts, known, body)
      BY <2>26, <2>27 DEF JoinFits, ConfigFromData
    <3>2. KeyFits(join, new)
      BY <2>24, <2>26, <2>27, ZenonT(60) DEF JoinFits, KeyFits, From, Answers
    <3>3. DataFits(new, body)
      BY <2>23, <2>24, <2>26, <2>27 DEF JoinFits, DataFits, From, Answers
    <3>4. Holds(hosts, known, new.name, join.key) /\ join.config.name = new.name
      BY <2>9, <2>10, <2>18, <2>27 DEF Holds
    <3>5. DoneFits(join, new, hosts, known)
      BY <2>9, <2>27, <3>4 DEF DoneFits
    <3> QED BY <2>7, <2>24, <3>1, <3>2, <3>3, <3>5 DEF JoinFits
  <2>29. joins' = joins /\ joins \in [Joiner -> JoinType(body)] /\ conns \in [Joiner -> ConnType(body)]
    BY <1>0, <2>4 DEF InviteInv
  <2>30. conns' \in [Joiner -> ConnType(body)]
    BY <2>24, <2>25, <2>29
  <2>31. \A i \in Joiner : JoinFits(i, joins'[i], conns'[i], hosts, known, body)
    <3>1. SUFFICES ASSUME NEW i \in Joiner PROVE JoinFits(i, joins'[i], conns'[i], hosts, known, body)
      OBVIOUS
    <3>2. CASE i = j
      <4>1. conns'[i] = new /\ joins'[i] = join
        BY <2>5, <2>25, <2>29, <3>2
      <4> QED BY <2>28, <3>2, <4>1
    <3>3. CASE i # j
      <4>1. conns'[i] = conns[i] /\ joins'[i] = joins[i]
        BY <2>25, <2>29, <3>3
      <4> QED BY <2>21, <4>1
    <3> QED BY <3>2, <3>3
  <2>32. HostsHaveJoiners'
    <3>1. SUFFICES ASSUME NEW i \in Invitee, hosts[i] # 0
                   PROVE  \E k \in Joiner : joins[k].key = hosts[i] /\ joins[k].config.name = i
      BY <2>17, <2>29 DEF HostsHaveJoiners
    <3>2. CASE i = n
      BY <2>5, <2>9, <2>18, <3>2
    <3>3. CASE i # n
      BY <2>18, <3>1, <3>3 DEF InviteInv, HostsHaveJoiners
    <3> QED BY <3>2, <3>3
  <2>33. CookiesHold' /\ UsedOnce' /\ spent' \in Seq(Nat) /\ urls' \in SUBSET [key : Nat, cookie : Nat]
    BY <1>0, <2>17 DEF InviteInv, CookiesHold, UsedOnce
  <2> QED BY <1>0, <2>4, <2>17, <2>29, <2>30, <2>31, <2>32, <2>33, InviteFrame
<1> QED BY <1>3, <1>4

-----------------------------------------------------------------------------
(* A joiner reads, writes and sends.                                       *)
SameConn(new, link) == new.phase = link.phase /\ new.name = link.name

LEMMA ReadIs ==
    ASSUME NEW body, NEW link \in ConnType(body), link.out # <<>>, NEW new, new = [link EXCEPT !.out = Tail(@)]
    PROVE  /\ new \in ConnType(body) /\ SameConn(new, link) /\ new.in = link.in
           /\ From(new.out, link.out, {}) /\ From(new.in, link.in, {})
           /\ 1 \in DOMAIN link.out /\ Head(link.out) = link.out[1]
<1>1. link.out \in Seq(FromDaemon(body))
  BY DEF ConnType
<1>2. PICK out : out = Tail(link.out)
  OBVIOUS
<1>3. out \in Seq(FromDaemon(body)) /\ From(out, link.out, {}) /\ 1 \in DOMAIN link.out /\ Head(link.out) = link.out[1]
  BY <1>1, <1>2, TailFrom
<1>4. new = [link EXCEPT !["out"] = out]
  BY <1>2
<1>5. new \in ConnType(body) /\ SameConn(new, link) /\ new.in = link.in /\ new.out = out
  BY <1>3, <1>4 DEF ConnType, SameConn
<1>6. From(new.in, link.in, {})
  BY <1>5 DEF From
<1> QED BY <1>3, <1>5, <1>6

Adds(new, link, m) == new = [link EXCEPT !.in = IF link.phase = "closed" THEN @ ELSE Append(@, m)]

LEMMA SendIs ==
    ASSUME NEW body, NEW link \in ConnType(body), NEW m \in ToDaemon, NEW new, Adds(new, link, m)
    PROVE  /\ new \in ConnType(body) /\ SameConn(new, link) /\ new.out = link.out
           /\ From(new.in, link.in, {m}) /\ From(new.out, link.out, {})
<1>1. link.in \in Seq(ToDaemon)
  BY DEF ConnType
<1>2. PICK in : in = IF link.phase = "closed" THEN link.in ELSE Append(link.in, m)
  OBVIOUS
<1>3. in \in Seq(ToDaemon) /\ From(in, link.in, {m})
  <2>1. CASE link.phase = "closed"
    <3>1. in = link.in
      BY <1>2, <2>1
    <3> QED BY <1>1, <3>1 DEF From
  <2>2. CASE link.phase # "closed"
    <3>1. in = Append(link.in, m)
      BY <1>2, <2>2
    <3> QED BY <1>1, <3>1, AppendFrom
  <2> QED BY <2>1, <2>2
<1>4. new = [link EXCEPT !["in"] = in]
  BY <1>2 DEF Adds
<1>5. new \in ConnType(body) /\ SameConn(new, link) /\ new.out = link.out /\ new.in = in
  BY <1>3, <1>4 DEF ConnType, SameConn
<1>6. From(new.out, link.out, {})
  BY <1>5 DEF From
<1> QED BY <1>3, <1>5, <1>6

(* A joiner that goes on to another phase, with all that it has.           *)
LEMMA PhaseIs ==
    ASSUME NEW body, NEW join \in JoinType(body), NEW phase \in JoinPhases,
           NEW new, new = [join EXCEPT !.phase = phase]
    PROVE  /\ new \in JoinType(body) /\ new.phase = phase /\ new.key = join.key
           /\ new.written = join.written /\ new.config = join.config /\ new.force = join.force
BY DEF JoinType

LEMMA StartJoinFits ==
    ASSUME InviteInv, NEW j \in Joiner, NEW url \in urls, NEW given \in BOOLEAN, NEW force \in BOOLEAN,
           StartJoin(j, url, given, force)
    PROVE  InviteInv'
<1>0. UNCHANGED <<settings, inviter, urls, spent>>
  BY DEF StartJoin
<1>1. PICK body : body = Bodies
  OBVIOUS
<1>2. PICK join : join = joins[j]
  OBVIOUS
<1>3. PICK join2 : join2 = [join EXCEPT !.phase = "hello", !.url = url, !.force = force]
  OBVIOUS
<1>4. JoinFits(j, join, conns[j], inviter.hosts, inviter.known, body) /\ join \in JoinType(body)
  BY <1>1, <1>2, JoinerBefore
<1>5. url \in [key : Nat, cookie : Nat]
  BY DEF InviteInv
<1>6. join2 \in JoinType(body) /\ join2.key = join.key /\ join2.written = join.written
      /\ join2.phase = "hello" /\ join2.config = join.config
  BY <1>3, <1>4, <1>5 DEF JoinType, JoinPhases
<1>7. PICK none : none = <<>>
  OBVIOUS
<1>8. PICK m : m = Record("hello", 0)
  OBVIOUS
<1>9. PICK in : in = <<m>>
  OBVIOUS
<1>10. m \in ToDaemon /\ m.what = "hello"
  BY <1>8 DEF ToDaemon, Record
<1>11. in \in Seq(ToDaemon) /\ From(in, none, {m})
  <2>1. in \in Seq(ToDaemon) /\ Len(in) = 1 /\ in[1] = m
    BY <1>9, <1>10
  <2>2. DOMAIN in = 1 .. 1
    BY <2>1, LenProperties
  <2> QED BY <2>1, <2>2 DEF From
<1>12. PICK link2 : link2 = [NoConn EXCEPT !.phase = "pending", !.in = in]
  OBVIOUS
<1>13. link2 \in ConnType(body) /\ link2.in = in /\ link2.out = <<>>
  <2>1. PICK c : c = NoConn
    OBVIOUS
  <2>2. c \in ConnType(body) /\ c.out = none
    BY <1>7, <2>1, NoConnIs
  <2>3. link2 = [c EXCEPT !["phase"] = "pending", !["in"] = in]
    BY <1>12, <2>1
  <2>4. link2 \in ConnType(body) /\ link2.in = in /\ link2.out = c.out
    BY <1>11, <2>2, <2>3 DEF ConnType, ConnPhases
  <2> QED BY <1>7, <2>2, <2>4
<1>14. Plain({m}, {})
  BY <1>10 DEF Plain
<1>15. JoinFits(j, join2, link2, inviter.hosts, inviter.known, body)
  BY <1>4, <1>6, <1>7, <1>11, <1>13, <1>14, FitsFresh
<1>16. joins' = [joins EXCEPT ![j] = join2] /\ conns' = [conns EXCEPT ![j] = link2]
  BY <1>2, <1>3, <1>8, <1>9, <1>12 DEF StartJoin, SetJoin, SetConn
<1> QED BY <1>0, <1>1, <1>2, <1>6, <1>15, <1>16, QuietJoiner

LEMMA ReadKeyFits ==
    ASSUME InviteInv, NEW j \in Joiner, ReadKey(j)
    PROVE  InviteInv'
<1>0. UNCHANGED <<settings, inviter, urls, spent>>
  BY DEF ReadKey
<1>1. CASE ~(Head(conns[j].out).value = joins[j].url.key)
  BY <1>0, <1>1, FailsAlone DEF ReadKey
<1>2. CASE Head(conns[j].out).value = joins[j].url.key
  <2>1. PICK body : body = Bodies
    OBVIOUS
  <2>2. PICK join : join = joins[j]
    OBVIOUS
  <2>3. PICK link : link = conns[j]
    OBVIOUS
  <2>4. /\ JoinFits(j, join, link, inviter.hosts, inviter.known, body)
        /\ join \in JoinType(body) /\ link \in ConnType(body)
    BY <2>1, <2>2, <2>3, JoinerBefore
  <2>5. PICK join2 : join2 = [join EXCEPT !.phase = "cookie"]
    OBVIOUS
  <2>6. /\ join2 \in JoinType(body) /\ join2.phase = "cookie" /\ join2.key = join.key
        /\ join2.written = join.written /\ join2.config = join.config /\ join2.force = join.force
    <3>1. "cookie" \in JoinPhases
      BY DEF JoinPhases
    <3> QED BY <2>4, <2>5, <3>1, PhaseIs
  <2>7. PICK m : m = Record("cookie", join.url.cookie)
    OBVIOUS
  <2>8. m \in ToDaemon /\ m.what = "cookie"
    BY <2>4, <2>7 DEF ToDaemon, Record, JoinType
  <2>9. PICK conn1 : conn1 = [link EXCEPT !.out = Tail(@)]
    OBVIOUS
  <2>10. link.out # <<>>
    BY <2>3 DEF ReadKey, Reads
  <2>11. /\ conn1 \in ConnType(body) /\ SameConn(conn1, link) /\ conn1.in = link.in
         /\ From(conn1.out, link.out, {})
    BY <2>4, <2>9, <2>10, ReadIs
  <2>12. PICK link2 : Adds(link2, conn1, m)
    BY DEF Adds
  <2>13. /\ link2 \in ConnType(body) /\ SameConn(link2, conn1) /\ link2.out = conn1.out
         /\ From(link2.in, conn1.in, {m})
    BY <2>8, <2>11, <2>12, SendIs
  <2>14. Plain({m}, {})
    BY <2>8 DEF Plain
  <2>15. JoinFits(j, join2, link2, inviter.hosts, inviter.known, body)
    <3>1. From(link2.in, link.in, {m}) /\ From(link2.out, link.out, {})
      BY <2>11, <2>13
    <3>2. link2.name = link.name /\ link2.phase = link.phase
      BY <2>11, <2>13 DEF SameConn
    <3> QED BY <2>4, <2>6, <2>13, <2>14, <3>1, <3>2, FitsStays
  <2>16. joins' = [joins EXCEPT ![j] = join2]
    BY <1>2, <2>2, <2>5 DEF ReadKey, SetJoin
  <2>17. conns' = [conns EXCEPT ![j] = link2]
    <3>1. conns' = [conns EXCEPT ![j] = [conn1 EXCEPT !.in = IF link.phase = "closed" THEN @ ELSE Append(@, m)]]
      BY <1>2, <2>2, <2>3, <2>7, <2>9 DEF ReadKey, SetConn, Sends, Consumed
    <3>2. conn1.phase = link.phase
      BY <2>11 DEF SameConn
    <3> QED BY <2>12, <3>1, <3>2 DEF Adds
  <2> QED BY <1>0, <2>1, <2>2, <2>6, <2>15, <2>16, <2>17, QuietJoiner
<1> QED BY <1>1, <1>2

LEMMA ReadDataFits ==
    ASSUME InviteInv, NEW j \in Joiner, ReadData(j)
    PROVE  InviteInv'
<1>0. UNCHANGED <<settings, inviter, urls, spent>>
  BY DEF ReadData
<1>1. CASE joins[j].written > 0
  BY <1>0, <1>1, FailsAlone DEF ReadData
<1>2. CASE ~(joins[j].written > 0)
  <2>1. PICK body : body = Bodies
    OBVIOUS
  <2>2. PICK join : join = joins[j]
    OBVIOUS
  <2>3. PICK link : link = conns[j]
    OBVIOUS
  <2>4. /\ JoinFits(j, join, link, inviter.hosts, inviter.known, body)
        /\ join \in JoinType(body) /\ link \in ConnType(body)
    BY <2>1, <2>2, <2>3, JoinerBefore
  <2>5. PICK new : new = [link EXCEPT !.out = Tail(@)]
    OBVIOUS
  <2>6. link.out # <<>> /\ Head(link.out).what = "data"
    BY <2>3 DEF ReadData, Reads
  <2>7. /\ new \in ConnType(body) /\ SameConn(new, link) /\ From(new.in, link.in, {})
        /\ From(new.out, link.out, {}) /\ 1 \in DOMAIN link.out /\ Head(link.out) = link.out[1]
    BY <2>4, <2>5, <2>6, ReadIs
  <2>8. Dealt(link) /\ Head(link.out).value = body[link.name]
    BY <2>4, <2>6, <2>7 DEF JoinFits, DataFits
  <2>9. Dealt(new) /\ new.name = link.name
    BY <2>7, <2>8 DEF Dealt, SameConn
  <2>10. PICK config : config = Finalized(body[link.name], join.force)
    OBVIOUS
  <2>11. config \in JoinConfigs(body)
    BY <2>4, <2>8, <2>10 DEF JoinConfigs, Dealt, JoinType
  <2>12. PICK join2 : join2 = [join EXCEPT !.phase = "write", !.config = config]
    OBVIOUS
  <2>13. /\ join2 \in JoinType(body) /\ join2.phase = "write" /\ join2.key = join.key
         /\ join2.written = join.written /\ join2.config = config /\ join2.force = join.force
    BY <2>4, <2>11, <2>12 DEF JoinType, JoinPhases
  <2>14. join.written \in 0 .. 6 /\ join.written = 0 /\ join.key = 0
    <3>1. join.written \in 0 .. 6
      BY <2>4 DEF JoinType
    <3>2. join.written = 0
      BY <1>2, <2>2, <3>1
    <3> QED BY <2>4, <3>1, <3>2 DEF JoinFits, KeyIsWritten
  <2>15. JoinFits(j, join2, new, inviter.hosts, inviter.known, body)
    <3>1. KeyIsWritten(j, join2) /\ ConfigFromData(join2, new, body)
          /\ JoinedFits(join2, inviter.hosts, inviter.known, body)
      BY <2>4, <2>9, <2>10, <2>13 DEF JoinFits, KeyIsWritten, ConfigFromData, JoinedFits
    <3>2. KeyFits(join2, new)
      <4>1. \A i \in DOMAIN link.in : link.in[i].what # "public key"
        <5>1. KeyFits(join, link)
          BY <2>4 DEF JoinFits
        <5>2. join.written # 6
          BY <2>14
        <5> QED BY <5>1, <5>2 DEF KeyFits
      <4>2. \A i \in DOMAIN new.in : \E k \in DOMAIN link.in : new.in[i] = link.in[k]
        BY <2>7 DEF From
      <4>3. \A i \in DOMAIN new.in : new.in[i].what # "public key"
        BY <4>1, <4>2
      <4> QED BY <4>3 DEF KeyFits
    <3>3. DataFits(new, body)
      BY <2>4, <2>7, <2>9 DEF JoinFits, DataFits, From
    <3>4. DoneFits(join2, new, inviter.hosts, inviter.known)
      BY <2>4, <2>7, <2>14 DEF JoinFits, DoneFits, From
    <3> QED BY <2>7, <2>13, <3>1, <3>2, <3>3, <3>4 DEF JoinFits
  <2>16. joins' = [joins EXCEPT ![j] = join2]
    BY <1>2, <2>2, <2>3, <2>8, <2>10, <2>12 DEF ReadData, SetJoin
  <2>17. conns' = [conns EXCEPT ![j] = new]
    BY <1>2, <2>3, <2>5 DEF ReadData, SetConn, Consumed
  <2> QED BY <1>0, <2>1, <2>2, <2>14, <2>15, <2>16, <2>17, QuietJoiner
<1> QED BY <1>1, <1>2

LEMMA WriteFits ==
    ASSUME InviteInv, NEW j \in Joiner, Write(j)
    PROVE  InviteInv'
<1>0. UNCHANGED <<settings, inviter, urls, spent>> /\ conns' = conns
  BY DEF Write
<1>1. PICK body : body = Bodies
  OBVIOUS
<1>2. PICK join : join = joins[j]
  OBVIOUS
<1>3. PICK link : link = conns[j]
  OBVIOUS
<1>4. /\ JoinFits(j, join, link, inviter.hosts, inviter.known, body)
      /\ join \in JoinType(body) /\ link \in ConnType(body) /\ conns = [conns EXCEPT ![j] = link]
  BY <1>1, <1>2, <1>3, JoinerBefore
<1>5. join.phase = "write" /\ join.written \in 0 .. 5
  <2>1. Len(Writes) = 6
    BY DEF Writes
  <2>2. join.written \in 0 .. 6 /\ join.written < 6
    BY <1>2, <1>4, <2>1 DEF Write, JoinType
  <2> QED BY <1>2, <2>2 DEF Write
<1>6. PICK w : w = join.written + 1
  OBVIOUS
<1>7. PICK key : key = IF Writes[join.written + 1] = "private key" THEN j ELSE join.key
  OBVIOUS
<1>8. w \in 1 .. 6 /\ key = IF w < 3 THEN 0 ELSE j
  <2>1. join.key = IF join.written < 3 THEN 0 ELSE j
    BY <1>4 DEF JoinFits, KeyIsWritten
  <2>2. join.written \in {0, 1, 2, 3, 4, 5}
    BY <1>5
  <2>3. \A x \in 1 .. 6 : Writes[x] = "private key" <=> x = 3
    <3>1. /\ Writes[1] # "private key" /\ Writes[2] # "private key" /\ Writes[3] = "private key"
          /\ Writes[4] # "private key" /\ Writes[5] # "private key" /\ Writes[6] # "private key"
      BY DEF Writes
    <3>2. \A x \in 1 .. 6 : x \in {1, 2, 3, 4, 5, 6}
      OBVIOUS
    <3> QED BY <3>1, <3>2
  <2>4. w \in 1 .. 6 /\ w \in Nat
    BY <1>6, <2>2
  <2>5. key = IF w = 3 THEN j ELSE join.key
    BY <1>6, <1>7, <2>3, <2>4
  <2> QED BY <1>6, <2>1, <2>2, <2>4, <2>5
<1>9. PICK join2 : join2 = [join EXCEPT !.written = w, !.key = key]
  OBVIOUS
<1>10. /\ join2 \in JoinType(body) /\ join2.phase = join.phase /\ join2.key = key
       /\ join2.written = w /\ join2.config = join.config /\ join2.force = join.force
  <2>1. w \in 0 .. 6 /\ key \in Joiner \union {0}
    BY <1>8
  <2> QED BY <1>4, <1>9, <2>1 DEF JoinType
<1>11. join.written # 6 /\ join.phase # "joined"
  BY <1>5
<1>12. JoinFits(j, join2, link, inviter.hosts, inviter.known, body)
  <2>1. KeyIsWritten(j, join2) /\ ConfigFromData(join2, link, body) /\ DataFits(link, body)
    BY <1>4, <1>8, <1>10 DEF JoinFits, KeyIsWritten, ConfigFromData
  <2>2. KeyFits(join, link) /\ DoneFits(join, link, inviter.hosts, inviter.known)
    BY <1>4 DEF JoinFits
  <2>3. KeyFits(join2, link)
    BY <1>11, <2>2 DEF KeyFits
  <2>4. DoneFits(join2, link, inviter.hosts, inviter.known)
    BY <1>11, <2>2 DEF DoneFits
  <2>5. JoinedFits(join2, inviter.hosts, inviter.known, body)
    BY <1>10, <1>11 DEF JoinedFits
  <2> QED BY <1>4, <1>10, <2>1, <2>3, <2>4, <2>5 DEF JoinFits
<1>13. joins' = [joins EXCEPT ![j] = join2]
  <2>1. joins' = [joins EXCEPT ![j] = [join EXCEPT !.written = @ + 1,
                     !.key = IF Writes[join.written + 1] = "private key" THEN j ELSE @]]
    BY <1>2 DEF Write, SetJoin
  <2> QED BY <1>6, <1>7, <1>9, <2>1
<1>14. join.key # 0 => join2.key = join.key
  <2>1. join.key # 0 => ~(join.written < 3)
    BY <1>4 DEF JoinFits, KeyIsWritten
  <2>2. ~(join.written < 3) => join.key = j /\ ~(w < 3)
    BY <1>4, <1>5, <1>6 DEF JoinFits, KeyIsWritten
  <2> QED BY <1>8, <1>10, <2>1, <2>2
<1>15. conns' = [conns EXCEPT ![j] = link]
  BY <1>0, <1>4
<1> QED BY <1>0, <1>1, <1>2, <1>10, <1>12, <1>13, <1>14, <1>15, QuietJoiner

LEMMA SendKeyFits ==
    ASSUME InviteInv, NEW j \in Joiner, SendKey(j)
    PROVE  InviteInv'
<1>0. UNCHANGED <<settings, inviter, urls, spent>>
  BY DEF SendKey
<1>1. PICK body : body = Bodies
  OBVIOUS
<1>2. PICK join : join = joins[j]
  OBVIOUS
<1>3. PICK link : link = conns[j]
  OBVIOUS
<1>4. /\ JoinFits(j, join, link, inviter.hosts, inviter.known, body)
      /\ join \in JoinType(body) /\ link \in ConnType(body)
  BY <1>1, <1>2, <1>3, JoinerBefore
<1>5. join.phase = "write" /\ join.written = 6
  BY <1>2 DEF SendKey, Writes
<1>6. PICK join2 : join2 = [join EXCEPT !.phase = "sent"]
  OBVIOUS
<1>7. /\ join2 \in JoinType(body) /\ join2.phase = "sent" /\ join2.key = join.key
      /\ join2.written = join.written /\ join2.config = join.config /\ join2.force = join.force
  <2>1. "sent" \in JoinPhases
    BY DEF JoinPhases
  <2> QED BY <1>4, <1>6, <2>1, PhaseIs
<1>8. join.key = j
  BY <1>4, <1>5 DEF JoinFits, KeyIsWritten
<1>9. PICK m : m = Record("public key", join.key)
  OBVIOUS
<1>10. m \in ToDaemon /\ m.value = join.key
  BY <1>8, <1>9 DEF ToDaemon, Record
<1>11. PICK new : Adds(new, link, m)
  BY DEF Adds
<1>12. /\ new \in ConnType(body) /\ SameConn(new, link) /\ new.out = link.out
       /\ From(new.in, link.in, {m}) /\ From(new.out, link.out, {})
  BY <1>4, <1>10, <1>11, SendIs
<1>13. Dealt(link) /\ join.config = Finalized(body[link.name], join.force) /\ link.name \in Invitee
  BY <1>4, <1>5 DEF JoinFits, ConfigFromData, Dealt
<1>14. join.config.name = link.name
  <2>1. settings \in Settings /\ join.force \in BOOLEAN
    BY <1>4 DEF InviteInv, JoinType
  <2>2. join.config = Finalized(BuildInvitationBody(link.name), join.force)
    BY <1>1, <1>13 DEF Bodies
  <2> QED BY <1>13, <2>1, <2>2, FinalizedFits
<1>15. Dealt(new) /\ new.name = link.name
  BY <1>12, <1>13 DEF Dealt, SameConn
<1>16. JoinFits(j, join2, new, inviter.hosts, inviter.known, body)
  <2>1. KeyIsWritten(j, join2) /\ ConfigFromData(join2, new, body)
        /\ JoinedFits(join2, inviter.hosts, inviter.known, body)
    BY <1>4, <1>7, <1>13, <1>15 DEF JoinFits, KeyIsWritten, ConfigFromData, JoinedFits
  <2>2. KeyFits(join, link) /\ DataFits(link, body) /\ DoneFits(join, link, inviter.hosts, inviter.known)
    BY <1>4 DEF JoinFits
  <2>3. KeyFits(join2, new)
    BY <1>5, <1>7, <1>10, <1>12, <1>14, <1>15, <2>2 DEF KeyFits, From
  <2>4. DataFits(new, body)
    BY <1>12, <1>15, <2>2 DEF DataFits
  <2>5. DoneFits(join2, new, inviter.hosts, inviter.known)
    BY <1>7, <1>12, <1>15, <2>2 DEF DoneFits
  <2> QED BY <1>7, <1>12, <2>1, <2>3, <2>4, <2>5 DEF JoinFits
<1>17. joins' = [joins EXCEPT ![j] = join2]
  BY <1>2, <1>6 DEF SendKey, SetJoin
<1>18. conns' = [conns EXCEPT ![j] = new]
  <2>1. conns' = [conns EXCEPT ![j] = [link EXCEPT !.in = IF link.phase = "closed" THEN @ ELSE Append(@, m)]]
    BY <1>2, <1>3, <1>9 DEF SendKey, SetConn
  <2> QED BY <1>11, <2>1 DEF Adds
<1> QED BY <1>0, <1>1, <1>2, <1>7, <1>16, <1>17, <1>18, QuietJoiner

LEMMA ReadDoneFits ==
    ASSUME InviteInv, NEW j \in Joiner, ReadDone(j)
    PROVE  InviteInv'
<1>0. UNCHANGED <<settings, inviter, urls, spent>>
  BY DEF ReadDone
<1>1. PICK body : body = Bodies
  OBVIOUS
<1>2. PICK join : join = joins[j]
  OBVIOUS
<1>3. PICK link : link = conns[j]
  OBVIOUS
<1>4. /\ JoinFits(j, join, link, inviter.hosts, inviter.known, body)
      /\ join \in JoinType(body) /\ link \in ConnType(body)
  BY <1>1, <1>2, <1>3, JoinerBefore
<1>5. join.phase = "sent" /\ link.out # <<>> /\ Head(link.out).what = "done"
  BY <1>2, <1>3 DEF ReadDone, Reads
<1>6. 1 \in DOMAIN link.out /\ Head(link.out) = link.out[1]
  <2>1. link.out \in Seq(FromDaemon(body))
    BY <1>4 DEF ConnType
  <2> QED BY <1>5, <2>1, TailFrom
<1>7. join.written = 6 /\ Holds(inviter.hosts, inviter.known, link.name, join.key)
  BY <1>4, <1>5, <1>6 DEF JoinFits, DoneFits
<1>8. link.name \in Invitee /\ join.config = Finalized(body[link.name], join.force)
  BY <1>4, <1>5 DEF JoinFits, ConfigFromData, Dealt
<1>9. PICK join2 : join2 = [join EXCEPT !.phase = "joined"]
  OBVIOUS
<1>10. /\ join2 \in JoinType(body) /\ join2.phase = "joined" /\ join2.key = join.key
       /\ join2.written = join.written /\ join2.config = join.config /\ join2.force = join.force
  <2>1. "joined" \in JoinPhases
    BY DEF JoinPhases
  <2> QED BY <1>4, <1>9, <2>1, PhaseIs
<1>11. PICK link2 : link2 = NoConn
  OBVIOUS
<1>12. PICK none : none = <<>>
  OBVIOUS
<1>13. link2 \in ConnType(body) /\ link2.in = none /\ link2.out = none /\ DOMAIN none = {}
  <2>1. link2 \in ConnType(body) /\ link2.in = none /\ link2.out = none
    BY <1>11, <1>12, NoConnIs
  <2>2. none \in Seq({}) /\ Len(none) = 0
    BY <1>12, EmptySeq
  <2>3. DOMAIN none = 1 .. 0
    BY <2>2, LenProperties
  <2> QED BY <2>1, <2>3
<1>14. JoinFits(j, join2, link2, inviter.hosts, inviter.known, body)
  <2>1. KeyIsWritten(j, join2) /\ ConfigFromData(join2, link2, body)
    BY <1>4, <1>10 DEF JoinFits, KeyIsWritten, ConfigFromData
  <2>2. JoinedFits(join2, inviter.hosts, inviter.known, body)
    BY <1>7, <1>8, <1>10 DEF JoinedFits
  <2>3. KeyFits(join2, link2) /\ DataFits(link2, body) /\ DoneFits(join2, link2, inviter.hosts, inviter.known)
    BY <1>13 DEF KeyFits, DataFits, DoneFits
  <2> QED BY <1>10, <1>13, <2>1, <2>2, <2>3 DEF JoinFits
<1>15. joins' = [joins EXCEPT ![j] = join2] /\ conns' = [conns EXCEPT ![j] = link2]
  BY <1>2, <1>9, <1>11 DEF ReadDone, SetJoin, SetConn
<1> QED BY <1>0, <1>1, <1>2, <1>10, <1>14, <1>15, QuietJoiner

LEMMA AbortFits ==
    ASSUME InviteInv, NEW j \in Joiner, Abort(j)
    PROVE  InviteInv'
<1>0. UNCHANGED <<settings, inviter, urls, spent>>
  BY DEF Abort
<1>1. PICK body : body = Bodies
  OBVIOUS
<1>2. PICK join : join = joins[j]
  OBVIOUS
<1>3. PICK link : link = conns[j]
  OBVIOUS
<1>4. /\ JoinFits(j, join, link, inviter.hosts, inviter.known, body)
      /\ join \in JoinType(body) /\ link \in ConnType(body)
  BY <1>1, <1>2, <1>3, JoinerBefore
<1>5. PICK join2 : join2 = [join EXCEPT !.phase = "failed"]
  OBVIOUS
<1>6. /\ join2 \in JoinType(body) /\ join2.phase = "failed" /\ join2.key = join.key
      /\ join2.written = join.written /\ join2.config = join.config /\ join2.force = join.force
  <2>1. "failed" \in JoinPhases
    BY DEF JoinPhases
  <2> QED BY <1>4, <1>5, <2>1, PhaseIs
<1>7. PICK none : none = <<>>
  OBVIOUS
<1>8. none \in Seq(FromDaemon(body)) /\ From(none, link.out, {}) /\ Plain({}, {})
  BY <1>7, EmptyFrom DEF Plain
<1>9. PICK new : new = [link EXCEPT !["out"] = none]
  OBVIOUS
<1>10. new \in ConnType(body) /\ new.out = none /\ new.in = link.in /\ new.name = link.name /\ new.phase = link.phase
  BY <1>4, <1>8, <1>9 DEF ConnType
<1>11. From(new.in, link.in, {})
  BY <1>10 DEF From
<1>12. JoinFits(j, join2, new, inviter.hosts, inviter.known, body)
  BY <1>4, <1>6, <1>8, <1>10, <1>11, FitsStays
<1>13. joins' = [joins EXCEPT ![j] = join2] /\ conns' = [conns EXCEPT ![j] = new]
  BY <1>2, <1>3, <1>5, <1>7, <1>9 DEF Abort, SetJoin, SetConn, FailJoin
<1> QED BY <1>0, <1>1, <1>2, <1>6, <1>12, <1>13, QuietJoiner

LEMMA InviteNextKeeps == InviteInv /\ [InviteNext]_inviteVars => InviteInv'
<1> SUFFICES ASSUME InviteInv, [InviteNext]_inviteVars PROVE InviteInv'
  OBVIOUS
<1>1. CASE UNCHANGED inviteVars
  <2>1. UNCHANGED <<settings, inviter, urls, joins, conns, spent>>
    BY <1>1 DEF inviteVars
  <2>2. CookiesHold' /\ UsedOnce'
    BY <2>1 DEF InviteInv, CookiesHold, UsedOnce
  <2> QED BY <2>1, <2>2, OnlyInviter DEF InviteInv
<1>2. CASE \E n \in Invitee : Invite(n)
  BY <1>2, InviteFits
<1>3. CASE Age
  BY <1>3, AgeFits
<1>4. CASE Reload \/ Restart
  BY <1>4, ReloadFits
<1>5. ASSUME NEW j \in Joiner,
             \E url \in urls, given \in BOOLEAN, force \in BOOLEAN : StartJoin(j, url, given, force)
      PROVE  InviteInv'
  BY <1>5, StartJoinFits
<1>6. ASSUME NEW j \in Joiner, HandleHello(j) \/ HandleCookie(j) \/ HandleKey(j)
      PROVE  InviteInv'
  BY <1>6, HelloFits, CookieFits, KeyHandled
<1>7. ASSUME NEW j \in Joiner, ReadKey(j) \/ ReadData(j) \/ Write(j) \/ SendKey(j) \/ ReadDone(j)
      PROVE  InviteInv'
  BY <1>7, ReadKeyFits, ReadDataFits, WriteFits, SendKeyFits, ReadDoneFits
<1>8. ASSUME NEW j \in Joiner, EndOfFile(j) PROVE InviteInv'
  BY <1>8, FailsAlone DEF EndOfFile
<1>9. ASSUME NEW j \in Joiner, Abort(j) PROVE InviteInv'
  BY <1>9, AbortFits
<1>10. ASSUME NEW j \in Joiner, Cut(j) PROVE InviteInv'
  BY <1>10, ClosesAlone DEF Cut
<1> QED BY <1>1, <1>2, <1>3, <1>4, <1>5, <1>6, <1>7, <1>8, <1>9, <1>10 DEF InviteNext

-----------------------------------------------------------------------------
(* The first state, and what follows.                                      *)
LEMMA InviteBegins == InviteInit => InviteInv
<1> SUFFICES ASSUME InviteInit PROVE InviteInv
  OBVIOUS
<1>1. PICK body : body = Bodies
  OBVIOUS
<1>2. PICK none : none = <<>>
  OBVIOUS
<1>3. none \in Seq(Nat) /\ DOMAIN none = {}
  <2>1. none \in Seq(Nat) /\ Len(none) = 0
    BY <1>2, EmptySeq
  <2>2. DOMAIN none = 1 .. 0
    BY <2>1, LenProperties
  <2> QED BY <2>1, <2>2
<1>4. inviter \in InviterType /\ inviter.files = {} /\ \A n \in Invitee : inviter.hosts[n] = 0
  BY DEF InviteInit, InviterType
<1>5. PICK idle : idle = Idle
  OBVIOUS
<1>6. /\ idle \in JoinType(body) /\ idle.phase = "idle" /\ idle.key = 0 /\ idle.written = 0
  <2>1. PICK c : c = NoConfig
    OBVIOUS
  <2>2. c \in JoinConfigs(body)
    BY <2>1 DEF JoinConfigs
  <2>3. PICK url : url = [key |-> 0, cookie |-> 0]
    OBVIOUS
  <2>4. url \in [key : Nat, cookie : Nat]
    BY <2>3
  <2>5. idle = [phase |-> "idle", url |-> url, force |-> FALSE, config |-> c, key |-> 0, written |-> 0]
    BY <1>5, <2>1, <2>3 DEF Idle
  <2> QED BY <2>2, <2>4, <2>5 DEF JoinType, JoinPhases
<1>7. PICK link : link = NoConn
  OBVIOUS
<1>8. link \in ConnType(body) /\ link.in = none /\ link.out = none
  BY <1>2, <1>7, NoConnIs
<1>9. ASSUME NEW j \in Joiner
      PROVE  JoinFits(j, idle, link, inviter.hosts, inviter.known, body)
  <2>1. KeyIsWritten(j, idle) /\ ConfigFromData(idle, link, body)
        /\ JoinedFits(idle, inviter.hosts, inviter.known, body)
    BY <1>6 DEF KeyIsWritten, ConfigFromData, JoinedFits
  <2>2. KeyFits(idle, link) /\ DataFits(link, body) /\ DoneFits(idle, link, inviter.hosts, inviter.known)
    BY <1>3, <1>8 DEF KeyFits, DataFits, DoneFits
  <2> QED BY <1>6, <1>8, <2>1, <2>2 DEF JoinFits
<1>10. joins = [j \in Joiner |-> idle] /\ conns = [j \in Joiner |-> link]
  BY <1>5, <1>7 DEF InviteInit
<1>11. CookiesHold /\ UsedOnce
  BY <1>2, <1>3, <1>4, FS_EmptySet DEF InviteInit, CookiesHold, UsedOnce
<1>12. settings \in Settings /\ urls = {} /\ spent = none
  BY <1>2 DEF InviteInit
<1>13. joins \in [Joiner -> JoinType(body)] /\ conns \in [Joiner -> ConnType(body)]
  BY <1>6, <1>8, <1>10
<1>14. \A j \in Joiner : JoinFits(j, joins[j], conns[j], inviter.hosts, inviter.known, body)
  BY <1>9, <1>10
<1> QED BY <1>1, <1>3, <1>4, <1>11, <1>12, <1>13, <1>14 DEF InviteInv, HostsHaveJoiners

LEMMA InviteInvHolds == InviteInv => InvitationsHold
<1> SUFFICES ASSUME InviteInv PROVE InvitationsHold
  OBVIOUS
<1>1. UsedOnce
  BY DEF InviteInv
<1>2. ASSUME NEW j \in Joiner, joins[j].phase \in {"write", "sent", "joined"}
      PROVE  \E n \in Invitee : /\ joins[j].config = Finalized(BuildInvitationBody(n), joins[j].force)
                                /\ joins[j].phase = "joined" =>
                                      /\ joins[j].written = 6
                                      /\ Holds(inviter.hosts, inviter.known, n, joins[j].key)
  <2>1. JoinFits(j, joins[j], conns[j], inviter.hosts, inviter.known, Bodies)
    BY JoinerBefore
  <2>2. CASE joins[j].phase = "joined"
    BY <2>1, <2>2 DEF JoinFits, JoinedFits, Bodies
  <2>3. CASE joins[j].phase \in {"write", "sent"}
    <3>1. conns[j].name \in Invitee /\ joins[j].config = Finalized(Bodies[conns[j].name], joins[j].force)
      BY <2>1, <2>3 DEF JoinFits, ConfigFromData, Dealt
    <3> QED BY <2>3, <3>1 DEF Bodies
  <2> QED BY <1>2, <2>2, <2>3
<1>3. ASSUME NEW j \in Joiner, NEW n \in Invitee,
             joins[j].config = Finalized(BuildInvitationBody(n), joins[j].force)
      PROVE  joins[j].config.name = n /\ ConfigFits(joins[j].config, joins[j].force)
  <2>1. joins[j].force \in BOOLEAN /\ settings \in Settings
    <3>1. joins[j] \in JoinType(Bodies)
      BY JoinerBefore
    <3> QED BY <3>1 DEF JoinType, InviteInv
  <2> QED BY <1>3, <2>1, FinalizedFits
<1>4. JoinedIsKnown
  <2>1. ASSUME NEW j \in Joiner, joins[j].phase = "joined"
        PROVE  /\ inviter.hosts[joins[j].config.name] = joins[j].key
               /\ inviter.known[joins[j].config.name] = joins[j].key
               /\ joins[j].written = Len(Writes)
    <3>1. PICK n \in Invitee : /\ joins[j].config = Finalized(BuildInvitationBody(n), joins[j].force)
                               /\ joins[j].written = 6
                               /\ Holds(inviter.hosts, inviter.known, n, joins[j].key)
      BY <1>2, <2>1
    <3>2. joins[j].config.name = n
      BY <1>3, <3>1
    <3>3. Len(Writes) = 6
      BY DEF Writes
    <3> QED BY <3>1, <3>2, <3>3 DEF Holds
  <2> QED BY <2>1 DEF JoinedIsKnown, InviteInv, HostsHaveJoiners
<1>5. JoinedConfigFits
  <2>1. SUFFICES ASSUME NEW j \in Joiner, joins[j].phase \in {"write", "sent", "joined"}
                 PROVE  joins[j].config.name \in Invitee /\ ConfigFits(joins[j].config, joins[j].force)
    BY DEF JoinedConfigFits, ConfigFits
  <2> QED BY <1>2, <1>3, <2>1
<1> QED BY <1>1, <1>4, <1>5 DEF InvitationsHold

(* However many join with whatever invitations, and whatever is cut off or *)
(* started again in between: an invitation is used once, who was told that *)
(* it has joined is known under its name with its key, and every key in    *)
(* the inviter's files belongs to a joiner of that name; and what a joiner *)
(* takes from the invitation is what the inviter meant, and no more.       *)
THEOREM InvitationsAlwaysHold == InviteSpec => []InvitationsHold
<1>1. InviteInit => InviteInv
  BY InviteBegins
<1>2. InviteInv /\ [InviteNext]_inviteVars => InviteInv'
  BY InviteNextKeeps
<1>3. InviteInv => InvitationsHold
  BY InviteInvHolds
<1> QED BY <1>1, <1>2, <1>3, PTL DEF InviteSpec

-----------------------------------------------------------------------------
(***************************************************************************)
(* The configuration files.                                                *)
(***************************************************************************)

(* Where the elements of w come from, if w is what is left of the first n  *)
(* elements of seq when those in S are gone.                               *)
Picks(w, seq, n, S, p) ==
    /\ p \in [DOMAIN w -> 1 .. n]
    /\ \A k \in DOMAIN w : w[k] = seq[p[k]] /\ w[k] \notin S
    /\ \A k, l \in DOMAIN w : k < l => p[k] < p[l]
    /\ \A j \in 1 .. n : seq[j] \notin S => \E k \in DOMAIN w : p[k] = j

(* AllBut leaves the others in their order.                                *)
LEMMA AllButPicks ==
    ASSUME NEW T, NEW seq \in Seq(T), NEW S
    PROVE  AllBut(seq, S) \in Seq(T) /\ \E p : Picks(AllBut(seq, S), seq, Len(seq), S, p)
<1>1. PICK f : Filters(seq, S, T, f, Len(seq)) /\ AllBut(seq, S) = f[Len(seq)]
  BY AllButFilters
<1>2. Len(seq) \in Nat /\ DOMAIN seq = 1 .. Len(seq) /\ \A n \in 1 .. Len(seq) : seq[n] \in T
  BY LenProperties, ElementOfSeq
<1> DEFINE Good(n, w) == w \in Seq(T) /\ \E p : Picks(w, seq, n, S, p)
           K == {n \in Nat : n <= Len(seq) => Good(n, f[n])}
<1>3. 0 \in K
  <2>1. PICK e : e = <<>>
    OBVIOUS
  <2>2. e \in Seq(T) /\ DOMAIN e = {}
    BY <2>1, EmptySeq
  <2>3. f[0] = e
    BY <1>1, <2>1 DEF Filters
  <2>4. Picks(e, seq, 0, S, e)
    <3>1. e \in [DOMAIN e -> 1 .. 0]
      BY <2>1
    <3>2. 1 .. 0 = {}
      OBVIOUS
    <3> QED BY <2>2, <3>1, <3>2 DEF Picks
  <2> QED BY <2>2, <2>3, <2>4
<1>4. ASSUME NEW n \in Nat, n \in K PROVE n + 1 \in K
  <2>1. SUFFICES ASSUME n + 1 <= Len(seq) PROVE Good(n + 1, f[n + 1])
    OBVIOUS
  <2>2. PICK m : m = n + 1
    OBVIOUS
  <2>3. PICK w : w = f[n]
    OBVIOUS
  <2>4. /\ m \in 1 .. Len(seq) /\ m - 1 = n /\ n \in 0 .. Len(seq) /\ seq[m] \in T /\ m \in Nat
        /\ \A j \in 1 .. m : j \in 1 .. n \/ j = m
        /\ \A j \in 1 .. n : j \in 1 .. m /\ j < m
    BY <1>2, <2>1, <2>2
  <2>5. Good(n, w) /\ f[m] = Kept(seq, S, m, w)
    BY <1>1, <1>2, <1>4, <2>1, <2>3, <2>4 DEF Filters
  <2>6. PICK p : Picks(w, seq, n, S, p)
    BY <2>5
  <2>7. w \in Seq(T)
    BY <2>5
  <2>8. CASE seq[m] \in S
    <3>1. f[m] = w
      BY <2>5, <2>8 DEF Kept
    <3>2. p \in [DOMAIN w -> 1 .. m]
      BY <2>4, <2>6 DEF Picks
    <3>3. Picks(w, seq, m, S, p)
      BY <2>4, <2>6, <2>8, <3>2 DEF Picks
    <3> QED BY <2>2, <2>7, <3>1, <3>3
  <2>9. CASE seq[m] \notin S
    <3>1. PICK v : v = Append(w, seq[m])
      OBVIOUS
    <3>2. f[m] = v
      BY <2>5, <2>9, <3>1 DEF Kept
    <3>3. /\ v \in Seq(T) /\ Len(v) = Len(w) + 1 /\ v[Len(w) + 1] = seq[m]
          /\ \A i \in 1 .. Len(w) : v[i] = w[i]
      BY <2>4, <2>7, <3>1, AppendProperties
    <3>4. DOMAIN v = 1 .. Len(w) + 1 /\ DOMAIN w = 1 .. Len(w) /\ Len(w) \in Nat
      BY <2>7, <3>3, LenProperties
    <3>5. PICK q : q = [k \in DOMAIN v |-> IF k = Len(w) + 1 THEN m ELSE p[k]]
      OBVIOUS
    <3>6. \A k \in DOMAIN v : \/ k \in DOMAIN w /\ v[k] = w[k] /\ q[k] = p[k] /\ k < Len(w) + 1
                              \/ k = Len(w) + 1 /\ v[k] = seq[m] /\ q[k] = m
      <4>1. SUFFICES ASSUME NEW k \in DOMAIN v, k # Len(w) + 1
                     PROVE  k \in DOMAIN w /\ v[k] = w[k] /\ q[k] = p[k] /\ k < Len(w) + 1
        BY <3>3, <3>5
      <4>2. k \in 1 .. Len(w)
        BY <3>4, <4>1
      <4> QED BY <3>3, <3>4, <3>5, <4>1, <4>2
    <3>7. q \in [DOMAIN v -> 1 .. m]
      <4>1. \A k \in DOMAIN w : p[k] \in 1 .. n
        BY <2>6 DEF Picks
      <4> QED BY <2>4, <3>5, <3>6, <4>1
    <3>8. \A k \in DOMAIN v : v[k] = seq[q[k]] /\ v[k] \notin S
      BY <2>6, <2>9, <3>6 DEF Picks
    <3>9. ASSUME NEW k \in DOMAIN v, NEW l \in DOMAIN v, k < l PROVE q[k] < q[l]
      <4>1. k \in DOMAIN w /\ q[k] = p[k] /\ p[k] \in 1 .. n
        BY <2>6, <3>4, <3>6, <3>9 DEF Picks
      <4>2. CASE l \in DOMAIN w /\ q[l] = p[l]
        BY <2>6, <3>9, <4>1, <4>2 DEF Picks
      <4>3. CASE q[l] = m
        BY <2>4, <4>1, <4>3
      <4> QED BY <3>6, <4>2, <4>3
    <3>10. ASSUME NEW j \in 1 .. m, seq[j] \notin S PROVE \E k \in DOMAIN v : q[k] = j
      <4>1. CASE j = m
        <5>1. PICK k : k = Len(w) + 1
          OBVIOUS
        <5>2. k \in DOMAIN v
          BY <3>4, <5>1
        <5>3. k \notin DOMAIN w
          BY <3>4, <5>1
        <5>4. q[k] = m
          BY <3>6, <5>2, <5>3
        <5> QED BY <4>1, <5>2, <5>4
      <4>2. CASE j \in 1 .. n
        <5>1. PICK k \in DOMAIN w : p[k] = j
          BY <2>6, <3>10, <4>2 DEF Picks
        <5>2. k \in DOMAIN v /\ k # Len(w) + 1
          BY <3>4
        <5> QED BY <3>6, <5>1, <5>2
      <4> QED BY <2>4, <4>1, <4>2
    <3>11. Picks(v, seq, m, S, q)
      BY <3>7, <3>8, <3>9, <3>10 DEF Picks
    <3> QED BY <2>2, <3>2, <3>3, <3>11
  <2> QED BY <2>8, <2>9
<1>5. Nat \subseteq K
  <2> HIDE DEF K
  <2> QED BY <1>3, <1>4, Induct
<1> QED BY <1>1, <1>2, <1>5

-----------------------------------------------------------------------------
(* What an edit about var makes of a file, where p tells for each line     *)
(* which one it was: lines of other variables and of keys stay, in their   *)
(* order; a new entry takes the place of a line of var or comes last.      *)
IsMark(l) == l.form \in {"begin", "end"}
IsNew(l, before, j, var) ==
    /\ l.form = "entry" /\ l.var = var
    /\ j = Len(before) + 1 \/ (j \in 1 .. Len(before) /\ ToolReads(before[j], var))
Edited(after, before, p, var) ==
    /\ Len(after) \in Nat /\ DOMAIN after = 1 .. Len(after)
    /\ Len(before) \in Nat /\ DOMAIN before = 1 .. Len(before)
    /\ p \in [1 .. Len(after) -> 1 .. Len(before) + 1]
    /\ \A k, l \in 1 .. Len(after) : k < l => p[k] < p[l]
    /\ \A k \in 1 .. Len(after) : \/ p[k] \in 1 .. Len(before) /\ after[k] = before[p[k]]
                                  \/ IsNew(after[k], before, p[k], var)
    /\ \A j \in 1 .. Len(before) : ~ToolReads(before[j], var) =>
          \E k \in 1 .. Len(after) : p[k] = j /\ after[k] = before[j]

(* The lines of keys are the same.                                         *)
LEMMA MarksStay ==
    ASSUME NEW after, NEW before, NEW p, NEW var, Edited(after, before, p, var)
    PROVE  /\ \A k \in 1 .. Len(after) : IsMark(after[k]) =>
                 p[k] \in 1 .. Len(before) /\ after[k] = before[p[k]]
           /\ \A j \in 1 .. Len(before) : IsMark(before[j]) =>
                 \E k \in 1 .. Len(after) : p[k] = j /\ after[k] = before[j]
<1>1. ASSUME NEW k \in 1 .. Len(after), IsMark(after[k])
      PROVE  p[k] \in 1 .. Len(before) /\ after[k] = before[p[k]]
  <2>1. ~IsNew(after[k], before, p[k], var)
    BY <1>1 DEF IsNew, IsMark
  <2> QED BY <2>1 DEF Edited
<1>2. ASSUME NEW j \in 1 .. Len(before), IsMark(before[j])
      PROVE  \E k \in 1 .. Len(after) : p[k] = j /\ after[k] = before[j]
  <2>1. ~ToolReads(before[j], var)
    BY <1>2 DEF ToolReads, IsMark
  <2> QED BY <2>1 DEF Edited
<1> QED BY <1>1, <1>2

(* So what is in a key stays in it, and the other lines stay outside.      *)
LEMMA KeysStay ==
    ASSUME NEW after, NEW before, NEW p, NEW var, Edited(after, before, p, var)
    PROVE  \A k \in 1 .. Len(after) : InKey(after, k) <=> InKey(before, p[k])
<1>1. /\ Len(after) \in Nat /\ Len(before) \in Nat
      /\ \A k \in 1 .. Len(after) : p[k] \in 1 .. Len(before) + 1
      /\ \A k, l \in 1 .. Len(after) : k < l => p[k] < p[l]
  BY DEF Edited
<1>2. ASSUME NEW k \in 1 .. Len(after), NEW l \in 1 .. Len(after), p[k] < p[l] PROVE k < l
  <2>1. CASE l < k
    BY <1>1, <1>2, <2>1
  <2>2. CASE l = k
    BY <1>1, <1>2, <2>2
  <2> QED BY <1>1, <2>1, <2>2
<1>3. ASSUME NEW k \in 1 .. Len(after), InKey(after, k) PROVE InKey(before, p[k])
  <2>1. PICK b \in 1 .. k - 1 : after[b].form = "begin" /\ \A i \in b + 1 .. k - 1 : after[i].form # "end"
    BY <1>3 DEF InKey
  <2>2. b \in 1 .. Len(after) /\ b < k
    BY <1>1
  <2>3. p[b] \in 1 .. Len(before) /\ before[p[b]].form = "begin"
    BY <2>1, <2>2, MarksStay DEF IsMark
  <2>4. p[b] \in 1 .. p[k] - 1
    BY <1>1, <2>2, <2>3
  <2>5. ASSUME NEW j \in p[b] + 1 .. p[k] - 1, before[j].form = "end" PROVE FALSE
    <3>1. j \in 1 .. Len(before) /\ p[b] < j /\ j < p[k]
      BY <1>1, <2>3
    <3>2. PICK i \in 1 .. Len(after) : p[i] = j /\ after[i] = before[j]
      BY <2>5, <3>1, MarksStay DEF IsMark
    <3>3. b < i /\ i < k
      BY <1>2, <2>2, <3>1, <3>2
    <3>4. i \in b + 1 .. k - 1
      BY <3>3
    <3> QED BY <2>1, <2>5, <3>2, <3>4
  <2> QED BY <2>3, <2>4, <2>5 DEF InKey
<1>4. ASSUME NEW k \in 1 .. Len(after), InKey(before, p[k]) PROVE InKey(after, k)
  <2>1. PICK c \in 1 .. p[k] - 1 :
            before[c].form = "begin" /\ \A i \in c + 1 .. p[k] - 1 : before[i].form # "end"
    BY <1>4 DEF InKey
  <2>2. c \in 1 .. Len(before) /\ c < p[k]
    BY <1>1
  <2>3. PICK b \in 1 .. Len(after) : p[b] = c /\ after[b] = before[c]
    BY <2>1, <2>2, MarksStay DEF IsMark
  <2>4. b < k
    BY <1>2, <2>2, <2>3
  <2>5. b \in 1 .. k - 1
    BY <2>4
  <2>6. ASSUME NEW i \in b + 1 .. k - 1, after[i].form = "end" PROVE FALSE
    <3>1. i \in 1 .. Len(after) /\ b < i /\ i < k
      OBVIOUS
    <3>2. p[i] \in 1 .. Len(before) /\ before[p[i]].form = "end"
      BY <2>6, <3>1, MarksStay DEF IsMark
    <3>3. p[b] < p[i] /\ p[i] < p[k]
      BY <1>1, <3>1
    <3>4. p[i] \in c + 1 .. p[k] - 1
      BY <1>1, <2>2, <2>3, <3>2, <3>3
    <3> QED BY <2>1, <3>2, <3>4
  <2> QED BY <2>1, <2>3, <2>5, <2>6 DEF InKey
<1> QED BY <1>3, <1>4

(* The other variables are read as before, and the file is not spoilt.     *)
LEMMA OthersAreReadAsBefore ==
    ASSUME NEW after, NEW before, NEW p, NEW var, Edited(after, before, p, var)
    PROVE  /\ \A v \in ReadVars \ {var} : ReadValues(after, v) = ReadValues(before, v)
           /\ Parses(before) => Parses(after)
<1>1. \A k \in 1 .. Len(after) : InKey(after, k) <=> InKey(before, p[k])
  BY KeysStay
<1>2. DOMAIN after = 1 .. Len(after) /\ DOMAIN before = 1 .. Len(before)
  BY DEF Edited
<1>3. ASSUME NEW v, v # var PROVE ReadValues(after, v) = ReadValues(before, v)
  <2>1. ASSUME NEW k \in ReadLines(after, v)
        PROVE  p[k] \in ReadLines(before, v) /\ after[k].val = before[p[k]].val
    <3>1. k \in 1 .. Len(after) /\ after[k].form = "entry" /\ after[k].var = v /\ ~InKey(after, k)
      BY <1>2 DEF ReadLines
    <3>2. ~IsNew(after[k], before, p[k], var)
      BY <1>3, <3>1 DEF IsNew
    <3>3. p[k] \in 1 .. Len(before) /\ after[k] = before[p[k]]
      BY <3>1, <3>2 DEF Edited
    <3> QED BY <1>1, <1>2, <3>1, <3>3 DEF ReadLines
  <2>2. ASSUME NEW j \in ReadLines(before, v)
        PROVE  \E k \in ReadLines(after, v) : after[k].val = before[j].val
    <3>1. j \in 1 .. Len(before) /\ before[j].form = "entry" /\ before[j].var = v /\ ~InKey(before, j)
      BY <1>2 DEF ReadLines
    <3>2. ~ToolReads(before[j], var)
      BY <1>3, <3>1 DEF ToolReads
    <3>3. PICK k \in 1 .. Len(after) : p[k] = j /\ after[k] = before[j]
      BY <3>1, <3>2 DEF Edited
    <3>4. k \in ReadLines(after, v)
      BY <1>1, <1>2, <3>1, <3>3 DEF ReadLines
    <3> QED BY <3>3, <3>4
  <2>3. ReadValues(after, v) \subseteq ReadValues(before, v)
    BY <2>1 DEF ReadValues
  <2>4. ReadValues(before, v) \subseteq ReadValues(after, v)
    BY <2>2 DEF ReadValues
  <2> QED BY <2>3, <2>4
<1>4. ASSUME Parses(before), NEW k \in DOMAIN after, after[k].form = "no value" PROVE InKey(after, k)
  <2>1. k \in 1 .. Len(after)
    BY <1>2
  <2>2. ~IsNew(after[k], before, p[k], var)
    BY <1>4 DEF IsNew
  <2>3. p[k] \in 1 .. Len(before) /\ after[k] = before[p[k]]
    BY <2>1, <2>2 DEF Edited
  <2>4. InKey(before, p[k])
    BY <1>2, <1>4, <2>3 DEF Parses
  <2> QED BY <1>1, <2>1, <2>4
<1>5. Parses(before) => Parses(after)
  BY <1>4 DEF Parses
<1> QED BY <1>3, <1>5

-----------------------------------------------------------------------------
(* What the commands do to a file, a sequence of lines.                    *)
AppendsTo(after, lines, e, p, var) ==
    /\ Edited(after, lines, p, var)
    /\ Len(after) = Len(lines) + 1 /\ after[Len(lines) + 1] = e
    /\ \A k \in 1 .. Len(lines) : after[k] = lines[k]
Replaces(after, e, p, first, var) ==
    /\ first \in 1 .. Len(after) /\ p[first] = first /\ after[first] = e
    /\ \A k \in 1 .. Len(after) : k # first => ~ToolReads(after[k], var)
LEMMA AppendedIsEdited ==
    ASSUME NEW T, NEW lines \in Seq(T), NEW var, NEW val
    PROVE  /\ AppendsTo(Append(lines, Entry(var, val)), lines, Entry(var, val),
                        [k \in 1 .. Len(lines) + 1 |-> k], var)
           /\ Append(lines, Entry(var, val)) \in Seq(T \union {Entry(var, val)})
<1>1. Len(lines) \in Nat /\ DOMAIN lines = 1 .. Len(lines)
  BY LenProperties
<1>2. PICK e : e = Entry(var, val)
  OBVIOUS
<1>3. lines \in Seq(T \union {e})
  <2>1. \A i \in 1 .. Len(lines) : lines[i] \in T \union {e}
    BY ElementOfSeq
  <2> QED BY <1>1, <2>1, SeqDef
<1>4. PICK after : after = Append(lines, e)
  OBVIOUS
<1>5. /\ after \in Seq(T \union {e}) /\ Len(after) = Len(lines) + 1
      /\ after[Len(lines) + 1] = e /\ \A k \in 1 .. Len(lines) : after[k] = lines[k]
  BY <1>3, <1>4, AppendProperties
<1>6. DOMAIN after = 1 .. Len(after) /\ Len(after) \in Nat
  BY <1>5, LenProperties
<1>7. PICK p : p = [k \in 1 .. Len(lines) + 1 |-> k]
  OBVIOUS
<1>8. p \in [1 .. Len(after) -> 1 .. Len(lines) + 1]
  BY <1>5, <1>7
<1>9. \A k, l \in 1 .. Len(after) : k < l => p[k] < p[l]
  BY <1>5, <1>7
<1>10. e.form = "entry" /\ e.var = var
  BY <1>2 DEF Entry, ConfigLine
<1>11. ASSUME NEW k \in 1 .. Len(after)
       PROVE  \/ p[k] \in 1 .. Len(lines) /\ after[k] = lines[p[k]]
              \/ IsNew(after[k], lines, p[k], var)
  <2>1. CASE k = Len(lines) + 1
    <3>1. after[k] = e /\ p[k] = Len(lines) + 1
      BY <1>1, <1>5, <1>7, <2>1
    <3> QED BY <1>10, <3>1 DEF IsNew
  <2>2. CASE k # Len(lines) + 1
    <3>1. k \in 1 .. Len(lines)
      BY <1>1, <1>5, <2>2
    <3>2. p[k] = k
      BY <1>5, <1>7
    <3> QED BY <1>5, <3>1, <3>2
  <2> QED BY <2>1, <2>2
<1>12. \A j \in 1 .. Len(lines) : \E k \in 1 .. Len(after) : p[k] = j /\ after[k] = lines[j]
  <2>1. SUFFICES ASSUME NEW j \in 1 .. Len(lines)
                 PROVE  \E k \in 1 .. Len(after) : p[k] = j /\ after[k] = lines[j]
    OBVIOUS
  <2>2. j \in 1 .. Len(after) /\ p[j] = j
    BY <1>1, <1>5, <1>7
  <2> QED BY <1>5, <2>2
<1>13. Edited(after, lines, p, var)
  BY <1>1, <1>6, <1>8, <1>9, <1>11, <1>12 DEF Edited
<1>14. AppendsTo(after, lines, e, p, var)
  BY <1>5, <1>13 DEF AppendsTo
<1> QED BY <1>2, <1>4, <1>5, <1>7, <1>14

LEMMA UnchangedIsEdited ==
    ASSUME NEW T, NEW lines \in Seq(T), NEW var
    PROVE  Edited(lines, lines, [k \in 1 .. Len(lines) |-> k], var)
<1>1. Len(lines) \in Nat /\ DOMAIN lines = 1 .. Len(lines)
  BY LenProperties
<1>2. PICK p : p = [k \in 1 .. Len(lines) |-> k]
  OBVIOUS
<1>3. p \in [1 .. Len(lines) -> 1 .. Len(lines) + 1] /\ \A k \in 1 .. Len(lines) : p[k] = k
  BY <1>1, <1>2
<1> QED BY <1>1, <1>2, <1>3 DEF Edited

(* `del`                                                                   *)
LEMMA DeletedIsEdited ==
    ASSUME NEW T, NEW lines \in Seq(T), NEW var, NEW val
    PROVE  LET after == AllBut(lines, ToolLines(lines, var, val))
           IN  \E p : /\ Edited(after, lines, p, var)
                      /\ Picks(after, lines, Len(lines), ToolLines(lines, var, val), p)
                      /\ after \in Seq(T)
<1>1. PICK S : S = ToolLines(lines, var, val)
  OBVIOUS
<1>2. PICK after : after = AllBut(lines, S)
  OBVIOUS
<1>3. after \in Seq(T) /\ \E p : Picks(after, lines, Len(lines), S, p)
  BY <1>2, AllButPicks
<1>4. PICK p : Picks(after, lines, Len(lines), S, p)
  BY <1>3
<1>5. /\ Len(lines) \in Nat /\ DOMAIN lines = 1 .. Len(lines)
      /\ Len(after) \in Nat /\ DOMAIN after = 1 .. Len(after)
  BY <1>3, LenProperties
<1>6. \A k \in 1 .. Len(after) : p[k] \in 1 .. Len(lines) /\ after[k] = lines[p[k]]
  BY <1>4, <1>5 DEF Picks
<1>7. p \in [1 .. Len(after) -> 1 .. Len(lines) + 1]
  <2>1. p \in [1 .. Len(after) -> 1 .. Len(lines)]
    BY <1>4, <1>5 DEF Picks
  <2>2. 1 .. Len(lines) \subseteq 1 .. Len(lines) + 1
    BY <1>5
  <2> QED BY <2>1, <2>2
<1>8. ASSUME NEW j \in 1 .. Len(lines), ~ToolReads(lines[j], var)
      PROVE  \E k \in 1 .. Len(after) : p[k] = j /\ after[k] = lines[j]
  <2>1. lines[j] \notin S
    BY <1>1, <1>8 DEF ToolLines
  <2>2. PICK k \in DOMAIN after : p[k] = j
    BY <1>4, <2>1 DEF Picks
  <2> QED BY <1>5, <1>6, <2>2
<1>9. \A k, l \in 1 .. Len(after) : k < l => p[k] < p[l]
  BY <1>4, <1>5 DEF Picks
<1>10. Edited(after, lines, p, var)
  BY <1>5, <1>6, <1>7, <1>8, <1>9 DEF Edited
<1> QED BY <1>1, <1>2, <1>3, <1>4, <1>10

(* The first line of a variable.                                           *)
LEMMA FirstIsFound ==
    ASSUME NEW T, NEW lines \in Seq(T), NEW var, ToolFinds(lines, var) # {}
    PROVE  LET first == Min(ToolFinds(lines, var))
           IN  /\ first \in DOMAIN lines /\ ToolReads(lines[first], var)
               /\ \A i \in DOMAIN lines : i < first => ~ToolReads(lines[i], var)
<1>1. DOMAIN lines = 1 .. Len(lines) /\ Len(lines) \in Nat
  BY LenProperties
<1>2. PICK first : first = Min(ToolFinds(lines, var))
  OBVIOUS
<1>3. ToolFinds(lines, var) \in SUBSET Nat
  BY <1>1 DEF ToolFinds
<1>4. PICK m \in ToolFinds(lines, var) : \A i \in ToolFinds(lines, var) : m <= i
  BY <1>3, LeastNat
<1>5. first \in ToolFinds(lines, var) /\ \A i \in ToolFinds(lines, var) : first <= i
  BY <1>2, <1>4 DEF Min
<1>6. first \in DOMAIN lines /\ ToolReads(lines[first], var)
  BY <1>5 DEF ToolFinds
<1>7. ASSUME NEW i \in DOMAIN lines, i < first, ToolReads(lines[i], var) PROVE FALSE
  <2>1. i \in ToolFinds(lines, var) /\ first \in Int /\ i \in Int
    BY <1>1, <1>6, <1>7 DEF ToolFinds
  <2> QED BY <1>5, <1>7, <2>1
<1> QED BY <1>2, <1>6, <1>7

(* `set`, when there is a line of var: the first is replaced, the others   *)
(* are gone.                                                               *)
LEMMA SetIsEdited ==
    ASSUME NEW T, NEW lines \in Seq(T), NEW var, NEW val, ToolFinds(lines, var) # {}
    PROVE  /\ \E p : /\ Edited(SetLine(lines, var, val), lines, p, var)
                     /\ Replaces(SetLine(lines, var, val), Entry(var, val), p, Min(ToolFinds(lines, var)), var)
           /\ SetLine(lines, var, val) \in Seq(T \union {Entry(var, val)})
<1>1. Len(lines) \in Nat /\ DOMAIN lines = 1 .. Len(lines) /\ \A i \in 1 .. Len(lines) : lines[i] \in T
  BY LenProperties, ElementOfSeq
<1>2. PICK e : e = Entry(var, val)
  OBVIOUS
<1>3. e.form = "entry" /\ e.var = var
  BY <1>2 DEF Entry, ConfigLine
<1>4. PICK first : first = Min(ToolFinds(lines, var))
  OBVIOUS
<1>5. /\ first \in 1 .. Len(lines) /\ ToolReads(lines[first], var)
      /\ \A i \in 1 .. Len(lines) : i < first => ~ToolReads(lines[i], var)
  BY <1>1, <1>4, FirstIsFound
<1>6. PICK U : U = T \union {e}
  OBVIOUS
<1>7. PICK a : a = SubSeq(lines, 1, first - 1)
  OBVIOUS
<1>8. PICK tail : tail = SubSeq(lines, first + 1, Len(lines))
  OBVIOUS
<1>9. a \in Seq(U) /\ Len(a) = first - 1 /\ \A i \in 1 .. first - 1 : a[i] = lines[i]
  <2>1. first - 1 \in Nat /\ \A i \in 1 .. first - 1 : lines[i] \in T
    BY <1>1, <1>5
  <2>2. a \in Seq(T) /\ Len(a) = first - 1 /\ \A i \in 1 .. first - 1 : a[i] = lines[i]
    BY <1>1, <1>5, <1>7, <2>1, SubSeqProperties
  <2>3. DOMAIN a = 1 .. first - 1 /\ \A i \in 1 .. first - 1 : a[i] \in U
    BY <1>6, <2>1, <2>2, LenProperties
  <2>4. a \in [1 .. first - 1 -> U]
    BY <2>2, <2>3, LenProperties
  <2> QED BY <2>1, <2>2, <2>4, SeqDef
<1>10. tail \in Seq(T) /\ Len(tail) = Len(lines) - first
       /\ \A i \in 1 .. Len(lines) - first : tail[i] = lines[first + i]
  <2>1. PICK m : m = first + 1
    OBVIOUS
  <2>2. PICK n : n = Len(lines)
    OBVIOUS
  <2>3. m \in Nat /\ n \in Nat /\ m \in 1 .. n + 1 /\ \A i \in m .. n : lines[i] \in T
    BY <1>1, <1>5, <2>1, <2>2
  <2>4. tail = SubSeq(lines, m, n)
    BY <1>8, <2>1, <2>2
  <2>5. /\ tail \in Seq(T) /\ Len(tail) = n - m + 1
        /\ \A i \in 1 .. n - m + 1 : tail[i] = lines[m + i - 1]
    BY <2>3, <2>4, SubSeqProperties
  <2>6. n - m + 1 = n - first /\ \A i \in 1 .. n - first : m + i - 1 = first + i
    BY <1>1, <1>5, <2>1, <2>2
  <2>7. tail \in Seq(T) /\ Len(tail) = n - first /\ \A i \in 1 .. n - first : tail[i] = lines[first + i]
    BY <2>5, <2>6
  <2> QED BY <2>2, <2>7
<1>11. PICK S : S = ToolLines(lines, var, None)
  OBVIOUS
<1>12. \A i \in 1 .. Len(lines) : lines[i] \in S <=> ToolReads(lines[i], var)
  BY <1>1, <1>11 DEF ToolLines, ToSet
<1>13. PICK b : b = AllBut(tail, S)
  OBVIOUS
<1>14. b \in Seq(T) /\ \E q : Picks(b, tail, Len(tail), S, q)
  BY <1>10, <1>13, AllButPicks
<1>15. PICK q : Picks(b, tail, Len(tail), S, q)
  BY <1>14
<1>16. Len(b) \in Nat /\ DOMAIN b = 1 .. Len(b)
  BY <1>14, LenProperties
<1>17. b \in Seq(U)
  <2>1. b \in [1 .. Len(b) -> U]
    BY <1>6, <1>14, <1>16, ElementOfSeq, LenProperties
  <2> QED BY <1>16, <2>1, SeqDef
<1>18. PICK c : c = a \o <<e>>
  OBVIOUS
<1>19. c \in Seq(U) /\ Len(c) = first /\ c[first] = e /\ \A i \in 1 .. first - 1 : c[i] = lines[i]
  <2>1. <<e>> \in Seq(U) /\ Len(<<e>>) = 1 /\ <<e>>[1] = e
    BY <1>6
  <2>2. c \in Seq(U) /\ Len(c) = Len(a) + 1
        /\ \A i \in 1 .. Len(a) + 1 : c[i] = IF i <= Len(a) THEN a[i] ELSE <<e>>[i - Len(a)]
    BY <1>9, <1>18, <2>1, ConcatProperties
  <2>3. first \in Nat /\ Len(a) + 1 = first /\ first - Len(a) = 1 /\ ~(first <= Len(a)) /\ first \in 1 .. Len(a) + 1
    BY <1>5, <1>9
  <2>4. c[first] = e
    BY <2>1, <2>2, <2>3
  <2>5. \A i \in 1 .. first - 1 : c[i] = a[i]
    BY <1>5, <1>9, <2>2
  <2> QED BY <1>9, <2>2, <2>3, <2>4, <2>5
<1>20. PICK after : after = c \o b
  OBVIOUS
<1>21. after = SetLine(lines, var, val)
  BY <1>2, <1>4, <1>7, <1>8, <1>11, <1>13, <1>18, <1>20 DEF SetLine
<1>22. /\ after \in Seq(U) /\ Len(after) = first + Len(b)
       /\ \A k \in 1 .. first + Len(b) : after[k] = IF k <= first THEN c[k] ELSE b[k - first]
  BY <1>17, <1>19, <1>20, ConcatProperties
<1>23. DOMAIN after = 1 .. Len(after) /\ Len(after) \in Nat
  BY <1>22, LenProperties
<1>24. PICK p : p = [k \in 1 .. Len(after) |-> IF k <= first THEN k ELSE first + q[k - first]]
  OBVIOUS
<1>25. ASSUME NEW k \in 1 .. Len(after)
       PROVE  \/ /\ k < first /\ after[k] = lines[k] /\ p[k] = k
                 /\ ~ToolReads(after[k], var) /\ k \in 1 .. Len(lines)
              \/ k = first /\ after[k] = e /\ p[k] = k
              \/ /\ k > first /\ k - first \in DOMAIN b /\ p[k] = first + q[k - first]
                 /\ p[k] \in 1 .. Len(lines) /\ p[k] > first
                 /\ after[k] = lines[p[k]] /\ ~ToolReads(after[k], var)
  <2>1. CASE k < first
    <3>1. k \in 1 .. first - 1 /\ k <= first /\ k \in 1 .. Len(lines)
      BY <1>5, <2>1
    <3>2. after[k] = lines[k] /\ p[k] = k
      BY <1>19, <1>22, <1>24, <3>1
    <3> QED BY <1>5, <2>1, <3>1, <3>2
  <2>2. CASE k = first
    <3>1. k <= first
      BY <1>5, <2>2
    <3> QED BY <1>19, <1>22, <1>24, <2>2, <3>1
  <2>3. CASE k > first
    <3>1. k - first \in DOMAIN b /\ ~(k <= first)
      BY <1>5, <1>16, <1>22, <2>3
    <3>2. p[k] = first + q[k - first] /\ after[k] = b[k - first]
      BY <1>22, <1>24, <3>1
    <3>3. q[k - first] \in 1 .. Len(tail) /\ b[k - first] = tail[q[k - first]] /\ b[k - first] \notin S
      BY <1>15, <3>1 DEF Picks
    <3>4. PICK i : i = q[k - first]
      OBVIOUS
    <3>5. i \in 1 .. Len(lines) - first /\ after[k] = tail[i] /\ p[k] = first + i
      BY <1>10, <3>2, <3>3, <3>4
    <3>6. p[k] \in 1 .. Len(lines) /\ p[k] > first
      BY <1>1, <1>5, <3>5
    <3>7. after[k] = lines[p[k]]
      BY <1>10, <3>5
    <3> QED BY <1>12, <2>3, <3>1, <3>2, <3>3, <3>6, <3>7
  <2>4. k \in Int /\ first \in Int
    BY <1>5
  <2> QED BY <2>1, <2>2, <2>3, <2>4
<1>26. p \in [1 .. Len(after) -> 1 .. Len(lines) + 1]
  <2>1. \A k \in 1 .. Len(after) : p[k] \in 1 .. Len(lines) + 1
    BY <1>1, <1>5, <1>25
  <2> QED BY <1>24, <2>1
<1>27. ASSUME NEW k \in 1 .. Len(after), NEW l \in 1 .. Len(after), k < l PROVE p[k] < p[l]
  <2>1. first \in Int
    BY <1>5
  <2>2. CASE l <= first
    <3>1. p[l] = l
      BY <1>24, <2>2
    <3>2. k <= first
      BY <1>27, <2>1, <2>2
    <3>3. p[k] = k
      BY <1>24, <3>2
    <3> QED BY <1>27, <3>1, <3>3
  <2>3. CASE ~(l <= first)
    <3>1. l - first \in DOMAIN b /\ p[l] = first + q[l - first] /\ p[l] > first /\ p[l] \in Int
      BY <1>25, <2>1, <2>3
    <3>2. CASE k <= first
      <4>1. p[k] = k
        BY <1>24, <3>2
      <4> QED BY <2>1, <3>1, <3>2, <4>1
    <3>3. CASE ~(k <= first)
      <4>1. k - first \in DOMAIN b /\ p[k] = first + q[k - first]
        BY <1>25, <2>1, <3>3
      <4>2. k - first < l - first
        BY <1>27, <2>1
      <4>3. q[k - first] < q[l - first] /\ q[k - first] \in 1 .. Len(tail) /\ q[l - first] \in 1 .. Len(tail)
        BY <1>15, <3>1, <4>1, <4>2 DEF Picks
      <4> QED BY <2>1, <3>1, <4>1, <4>3
    <3> QED BY <3>2, <3>3
  <2> QED BY <2>2, <2>3
<1>28. ASSUME NEW k \in 1 .. Len(after)
       PROVE  \/ p[k] \in 1 .. Len(lines) /\ after[k] = lines[p[k]]
              \/ IsNew(after[k], lines, p[k], var)
  <2>1. CASE k = first
    <3>1. after[k] = e /\ p[k] = first
      BY <1>5, <1>25, <2>1
    <3> QED BY <1>3, <1>5, <3>1 DEF IsNew
  <2>2. CASE k # first
    BY <1>25, <2>2
  <2> QED BY <2>1, <2>2
<1>29. ASSUME NEW j \in 1 .. Len(lines), ~ToolReads(lines[j], var)
       PROVE  \E k \in 1 .. Len(after) : p[k] = j /\ after[k] = lines[j]
  <2>1. CASE j < first
    <3>1. j \in 1 .. Len(after)
      BY <1>5, <1>16, <1>22, <2>1
    <3> QED BY <1>5, <1>25, <2>1, <3>1
  <2>2. CASE j > first
    <3>1. PICK i : i = j - first
      OBVIOUS
    <3>2. i \in 1 .. Len(lines) - first /\ first + i = j /\ i \in 1 .. Len(tail)
      BY <1>5, <1>10, <2>2, <3>1
    <3>3. tail[i] = lines[j] /\ lines[j] \notin S
      BY <1>10, <1>12, <1>29, <3>2
    <3>4. PICK m \in DOMAIN b : q[m] = i
      BY <1>15, <3>2, <3>3 DEF Picks
    <3>5. PICK k : k = first + m
      OBVIOUS
    <3>6. k \in 1 .. Len(after) /\ k > first /\ k - first = m
      BY <1>5, <1>16, <1>22, <3>4, <3>5
    <3>7. p[k] = first + q[m] /\ after[k] = lines[p[k]]
      BY <1>5, <1>25, <3>6
    <3> QED BY <3>2, <3>4, <3>6, <3>7
  <2>3. j # first
    BY <1>5, <1>29
  <2>4. j \in Int /\ first \in Int
    BY <1>5
  <2> QED BY <2>1, <2>2, <2>3, <2>4
<1>30. Edited(after, lines, p, var)
  BY <1>1, <1>23, <1>26, <1>27, <1>28, <1>29 DEF Edited
<1>31. first \in 1 .. Len(after) /\ p[first] = first /\ after[first] = e
  <2>1. first \in 1 .. Len(after)
    BY <1>5, <1>16, <1>22
  <2> QED BY <1>5, <1>25, <2>1
<1>32. \A k \in 1 .. Len(after) : k # first => ~ToolReads(after[k], var)
  BY <1>25
<1>33. Replaces(after, e, p, first, var)
  BY <1>31, <1>32 DEF Replaces
<1> QED BY <1>2, <1>4, <1>6, <1>21, <1>22, <1>30, <1>33

-----------------------------------------------------------------------------
(* A value is never taken for none, whatever the case of its letters.      *)
LEMMA ValueIsNotNone ==
    ASSUME NEW a, NEW b, b # None, SameWord(a, b)
    PROVE  a # None
<1>1. Folded(b) # None
  BY ConfigAssumption DEF Folded
<1>2. Folded(None) = None
  BY ConfigAssumption DEF Folded
<1> QED BY <1>1, <1>2 DEF SameWord

(* What the daemon reads of a file the tool has edited.                    *)
LEMMA SetIsRead ==
    ASSUME NEW T, NEW lines \in Seq(T), NEW var, NEW val
    PROVE  IsReadAs(SetLine(lines, var, val), lines, "set", var, val)
<1>1. PICK after : after = SetLine(lines, var, val)
  OBVIOUS
<1>2. Len(lines) \in Nat /\ DOMAIN lines = 1 .. Len(lines)
  BY LenProperties
<1>3. PICK e : e = Entry(var, val)
  OBVIOUS
<1>4. e.form = "entry" /\ e.var = var /\ e.val = val
  BY <1>3 DEF Entry, ConfigLine
<1>5. \E p, i : /\ Edited(after, lines, p, var) /\ i \in 1 .. Len(after) /\ after[i] = e
                /\ \A k \in 1 .. Len(after) : k # i => ~ToolReads(after[k], var)
                /\ ~HidesSome(lines, var) /\ ~IsOpen(lines) => ~InKey(lines, p[i])
  <2>1. CASE ToolFinds(lines, var) = {}
    <3>1. after = Append(lines, e)
      BY <1>1, <1>3, <2>1 DEF SetLine
    <3>2. PICK p : p = [k \in 1 .. Len(lines) + 1 |-> k]
      OBVIOUS
    <3>3. /\ Edited(after, lines, p, var)
          /\ Len(after) = Len(lines) + 1 /\ after[Len(lines) + 1] = e
          /\ \A k \in 1 .. Len(lines) : after[k] = lines[k]
      <4>1. AppendsTo(after, lines, e, p, var)
        BY <1>3, <3>1, <3>2, AppendedIsEdited
      <4> QED BY <4>1 DEF AppendsTo
    <3>4. ASSUME NEW k \in 1 .. Len(after), k # Len(lines) + 1 PROVE ~ToolReads(after[k], var)
      <4>1. k \in 1 .. Len(lines)
        BY <1>2, <3>3, <3>4
      <4>2. ~ToolReads(lines[k], var)
        BY <1>2, <2>1, <4>1 DEF ToolFinds
      <4> QED BY <3>3, <4>1, <4>2
    <3>5. Len(lines) + 1 \in 1 .. Len(after) /\ p[Len(lines) + 1] = Len(lines) + 1
      BY <1>2, <3>2, <3>3
    <3>6. ~IsOpen(lines) => ~InKey(lines, p[Len(lines) + 1])
      BY <3>5 DEF IsOpen
    <3> QED BY <3>3, <3>4, <3>5, <3>6
  <2>2. CASE ToolFinds(lines, var) # {}
    <3>1. PICK i : i = Min(ToolFinds(lines, var))
      OBVIOUS
    <3>2. PICK p : /\ Edited(after, lines, p, var)
                   /\ i \in 1 .. Len(after) /\ p[i] = i /\ after[i] = e
                   /\ \A k \in 1 .. Len(after) : k # i => ~ToolReads(after[k], var)
      <4>1. PICK p : Edited(after, lines, p, var) /\ Replaces(after, e, p, i, var)
        BY <1>1, <1>3, <2>2, <3>1, SetIsEdited
      <4> QED BY <4>1 DEF Replaces
    <3>3. ToolReads(lines[i], var) /\ i \in DOMAIN lines
      BY <2>2, <3>1, FirstIsFound
    <3>4. ~HidesSome(lines, var) => ~InKey(lines, p[i])
      BY <3>2, <3>3 DEF HidesSome
    <3> QED BY <3>2, <3>4
  <2> QED BY <2>1, <2>2
<1>6. PICK p, i : /\ Edited(after, lines, p, var) /\ i \in 1 .. Len(after) /\ after[i] = e
                  /\ \A k \in 1 .. Len(after) : k # i => ~ToolReads(after[k], var)
                  /\ ~HidesSome(lines, var) /\ ~IsOpen(lines) => ~InKey(lines, p[i])
  BY <1>5
<1>7. DOMAIN after = 1 .. Len(after)
  BY <1>6 DEF Edited
<1>8. ASSUME ~HidesSome(lines, var), ~IsOpen(lines)
      PROVE  \E k \in DOMAIN after : ReadLines(after, var) = {k} /\ after[k].val = val
  <2>1. ~InKey(after, i)
    BY <1>6, <1>8, KeysStay
  <2>2. i \in ReadLines(after, var)
    BY <1>4, <1>6, <1>7, <2>1 DEF ReadLines
  <2>3. ASSUME NEW k \in ReadLines(after, var) PROVE k = i
    BY <1>6, <1>7 DEF ReadLines, ToolReads
  <2> QED BY <1>4, <1>6, <1>7, <2>2, <2>3
<1>9. /\ \A v \in ReadVars \ {var} : ReadValues(after, v) = ReadValues(lines, v)
      /\ Parses(lines) => Parses(after)
  BY <1>6, OthersAreReadAsBefore
<1> QED BY <1>1, <1>8, <1>9 DEF IsReadAs

LEMMA AddIsRead ==
    ASSUME NEW T, NEW lines \in Seq(T), \A l \in T : IsLine(l), NEW var, NEW val, val # None
    PROVE  IsReadAs(AddLine(lines, var, val), lines, "add", var, val)
<1>1. PICK after : after = AddLine(lines, var, val)
  OBVIOUS
<1>2. Len(lines) \in Nat /\ DOMAIN lines = 1 .. Len(lines) /\ \A i \in 1 .. Len(lines) : lines[i] \in T
  BY LenProperties, ElementOfSeq
<1>3. CASE ToolLines(lines, var, val) # {}
  <2>1. after = lines
    BY <1>1, <1>3 DEF AddLine
  <2>2. PICK i \in 1 .. Len(lines) : ToolReads(lines[i], var) /\ SameWord(lines[i].val, val)
    BY <1>2, <1>3 DEF ToolLines, ToSet
  <2>3. lines[i].form \in {"entry", "indented"} /\ lines[i].var = var
    <3>1. lines[i].val # None
      BY <2>2, ValueIsNotNone
    <3> QED BY <1>2, <2>2, <3>1 DEF ToolReads, IsLine
  <2>4. ~HidesSome(lines, var) => i \in ReadLines(lines, var)
    BY <1>2, <2>2, <2>3 DEF HidesSome, ReadLines
  <2>5. ~HidesSome(lines, var) => \E v \in ReadValues(lines, var) : SameWord(v, val)
    BY <2>2, <2>4 DEF ReadValues
  <2>6. IsReadAs(lines, lines, "add", var, val)
    BY <2>5 DEF IsReadAs
  <2> QED BY <1>1, <2>1, <2>6
<1>4. CASE ToolLines(lines, var, val) = {}
  <2>1. PICK e : e = Entry(var, val)
    OBVIOUS
  <2>2. e.form = "entry" /\ e.var = var /\ e.val = val
    BY <2>1 DEF Entry, ConfigLine
  <2>3. after = Append(lines, e)
    BY <1>1, <1>4, <2>1 DEF AddLine
  <2>4. PICK p : p = [k \in 1 .. Len(lines) + 1 |-> k]
    OBVIOUS
  <2>5. PICK n : n = Len(lines) + 1
    OBVIOUS
  <2>6. /\ Edited(after, lines, p, var) /\ Len(after) = n /\ after[n] = e
        /\ \A k \in 1 .. Len(lines) : after[k] = lines[k]
    <3>1. AppendsTo(after, lines, e, p, var)
      BY <2>1, <2>3, <2>4, AppendedIsEdited
    <3> QED BY <2>5, <3>1 DEF AppendsTo
  <2>7. /\ n \in 1 .. n /\ p[n] = n /\ DOMAIN after = 1 .. n
        /\ \A k \in 1 .. n : p[k] = k /\ (k = n \/ k \in 1 .. Len(lines))
        /\ 1 .. Len(lines) \subseteq 1 .. n
    BY <1>2, <2>4, <2>5, <2>6 DEF Edited
  <2>8. \A k \in 1 .. n : InKey(after, k) <=> InKey(lines, k)
    BY <2>6, <2>7, KeysStay
  <2>9. ASSUME ~IsOpen(lines) PROVE ReadValues(after, var) = ReadValues(lines, var) \union {val}
    <3>1. n \in ReadLines(after, var)
      BY <2>2, <2>5, <2>6, <2>7, <2>8, <2>9 DEF ReadLines, IsOpen
    <3>2. \A k \in 1 .. Len(lines) : k \in ReadLines(after, var) <=> k \in ReadLines(lines, var)
      BY <1>2, <2>6, <2>7, <2>8 DEF ReadLines
    <3>3. ReadLines(after, var) \subseteq 1 .. n /\ ReadLines(lines, var) \subseteq 1 .. Len(lines)
      BY <1>2, <2>7 DEF ReadLines
    <3>4. ReadValues(after, var) \subseteq ReadValues(lines, var) \union {val}
      <4>1. SUFFICES ASSUME NEW k \in ReadLines(after, var)
                     PROVE  after[k].val \in ReadValues(lines, var) \union {val}
        BY DEF ReadValues
      <4>2. CASE k = n
        BY <2>2, <2>6, <4>2
      <4>3. CASE k \in 1 .. Len(lines)
        BY <2>6, <3>2, <4>1, <4>3 DEF ReadValues
      <4> QED BY <2>7, <3>3, <4>2, <4>3
    <3>5. ASSUME NEW k \in ReadLines(lines, var) PROVE lines[k].val \in ReadValues(after, var)
      <4>1. k \in 1 .. Len(lines) /\ k \in ReadLines(after, var)
        BY <3>2, <3>3
      <4> QED BY <2>6, <4>1 DEF ReadValues
    <3>6. val \in ReadValues(after, var)
      BY <2>2, <2>6, <3>1 DEF ReadValues
    <3>7. ReadValues(lines, var) \subseteq ReadValues(after, var)
      BY <3>5 DEF ReadValues
    <3> QED BY <3>4, <3>6, <3>7
  <2>10. /\ \A v \in ReadVars \ {var} : ReadValues(after, v) = ReadValues(lines, v)
         /\ Parses(lines) => Parses(after)
    BY <2>6, OthersAreReadAsBefore
  <2>11. ~\E v \in ReadValues(lines, var) : SameWord(v, val)
    <3>1. SUFFICES ASSUME NEW k \in ReadLines(lines, var) PROVE ~SameWord(lines[k].val, val)
      BY DEF ReadValues
    <3>2. k \in DOMAIN lines /\ ToolReads(lines[k], var)
      BY DEF ReadLines, ToolReads
    <3>3. lines[k] \in ToSet(lines)
      BY <3>2 DEF ToSet
    <3> QED BY <1>4, <3>2, <3>3 DEF ToolLines
  <2>12. IsReadAs(after, lines, "add", var, val)
    BY <2>9, <2>10, <2>11 DEF IsReadAs
  <2> QED BY <1>1, <2>12
<1> QED BY <1>3, <1>4

LEMMA DelIsRead ==
    ASSUME NEW T, NEW lines \in Seq(T), NEW var, NEW val
    PROVE  IsReadAs(AllBut(lines, ToolLines(lines, var, val)), lines, "del", var, val)
<1>1. PICK S : S = ToolLines(lines, var, val)
  OBVIOUS
<1>2. PICK after : after = AllBut(lines, S)
  OBVIOUS
<1>3. PICK p : Edited(after, lines, p, var) /\ Picks(after, lines, Len(lines), S, p)
  BY <1>1, <1>2, DeletedIsEdited
<1>4. DOMAIN after = 1 .. Len(after) /\ DOMAIN lines = 1 .. Len(lines)
  BY <1>3 DEF Edited
<1>5. \A k \in 1 .. Len(after) : InKey(after, k) <=> InKey(lines, p[k])
  BY <1>3, KeysStay
<1>6. ASSUME NEW k \in ReadLines(after, var)
      PROVE  /\ p[k] \in ReadLines(lines, var) /\ after[k].val = lines[p[k]].val
             /\ val # None /\ ~SameWord(after[k].val, val)
  <2>1. k \in 1 .. Len(after) /\ after[k].form = "entry" /\ after[k].var = var /\ ~InKey(after, k)
    BY <1>4 DEF ReadLines
  <2>2. after[k] = lines[p[k]] /\ p[k] \in 1 .. Len(lines) /\ lines[p[k]] \notin S
    BY <1>3, <1>4, <2>1 DEF Picks
  <2>3. ~(val = None \/ SameWord(lines[p[k]].val, val))
    BY <1>1, <1>4, <2>1, <2>2 DEF ToolLines, ToolReads, ToSet
  <2> QED BY <1>4, <1>5, <2>1, <2>2, <2>3 DEF ReadLines
<1>7. ASSUME val # None, NEW j \in ReadLines(lines, var), ~SameWord(lines[j].val, val)
      PROVE  \E k \in ReadLines(after, var) : after[k].val = lines[j].val
  <2>1. j \in 1 .. Len(lines) /\ lines[j].form = "entry" /\ lines[j].var = var /\ ~InKey(lines, j)
    BY <1>4 DEF ReadLines
  <2>2. lines[j] \notin S
    BY <1>1, <1>7 DEF ToolLines
  <2>3. PICK k \in 1 .. Len(after) : p[k] = j /\ after[k] = lines[j]
    BY <1>3, <1>4, <2>1, <2>2 DEF Picks
  <2>4. k \in ReadLines(after, var)
    BY <1>4, <1>5, <2>1, <2>3 DEF ReadLines
  <2> QED BY <2>3, <2>4
<1>8. ReadValues(after, var) =
          IF val = None THEN {} ELSE {v \in ReadValues(lines, var) : ~SameWord(v, val)}
  <2>1. CASE val = None
    <3>1. ReadLines(after, var) = {}
      BY <1>6, <2>1
    <3> QED BY <2>1, <3>1 DEF ReadValues
  <2>2. CASE val # None
    <3>1. ReadValues(after, var) \subseteq {v \in ReadValues(lines, var) : ~SameWord(v, val)}
      BY <1>6 DEF ReadValues
    <3>2. {v \in ReadValues(lines, var) : ~SameWord(v, val)} \subseteq ReadValues(after, var)
      BY <1>7, <2>2 DEF ReadValues
    <3> QED BY <2>2, <3>1, <3>2
  <2> QED BY <2>1, <2>2
<1>9. /\ \A v \in ReadVars \ {var} : ReadValues(after, v) = ReadValues(lines, v)
      /\ Parses(lines) => Parses(after)
  BY <1>3, OthersAreReadAsBefore
<1> QED BY <1>1, <1>2, <1>8, <1>9 DEF IsReadAs

-----------------------------------------------------------------------------
(* Files are sequences of lines.                                           *)
GoodFile(f) == f \in Seq(ToSet(f)) /\ \A l \in ToSet(f) : IsLine(l)
GoodFiles(fs) == DOMAIN fs = Places /\ \A p \in Places : GoodFile(fs[p])

LEMMA LinesMakeAFile ==
    ASSUME NEW T, NEW f \in Seq(T), \A l \in T : IsLine(l)
    PROVE  GoodFile(f)
<1>1. Len(f) \in Nat /\ DOMAIN f = 1 .. Len(f) /\ \A i \in 1 .. Len(f) : f[i] \in T
  BY LenProperties, ElementOfSeq
<1>2. \A l \in ToSet(f) : l \in T
  BY <1>1 DEF ToSet
<1>3. \A i \in 1 .. Len(f) : f[i] \in ToSet(f)
  BY <1>1 DEF ToSet
<1>4. f \in [1 .. Len(f) -> ToSet(f)]
  BY <1>1, <1>3, LenProperties
<1>5. f \in Seq(ToSet(f))
  BY <1>1, <1>4, SeqDef
<1> QED BY <1>2, <1>5 DEF GoodFile

(* One more line, in front or behind.                                      *)
LEMMA OneMoreLine ==
    ASSUME NEW f, GoodFile(f), NEW l, IsLine(l)
    PROVE  GoodFile(<<l>> \o f) /\ GoodFile(Append(f, l))
<1>1. PICK T : T = ToSet(f) \union {l}
  OBVIOUS
<1>2. \A k \in T : IsLine(k)
  BY <1>1 DEF GoodFile
<1>3. f \in Seq(T)
  <2>1. f \in Seq(ToSet(f))
    BY DEF GoodFile
  <2>2. Len(f) \in Nat /\ f \in [1 .. Len(f) -> ToSet(f)]
    BY <2>1, LenProperties
  <2>3. f \in [1 .. Len(f) -> T]
    BY <1>1, <2>2
  <2> QED BY <2>2, <2>3, SeqDef
<1>4. l \in T
  BY <1>1
<1>5. <<l>> \in Seq(T)
  BY <1>4
<1>6. <<l>> \o f \in Seq(T) /\ Append(f, l) \in Seq(T)
  BY <1>3, <1>4, <1>5
<1> QED BY <1>2, <1>6, LinesMakeAFile

-----------------------------------------------------------------------------
(* A change of a file is read as the tool says, when its new lines are.    *)
ConfigInv ==
    /\ GoodFiles(files)
    /\ Startable(files, spoilt) \subseteq startable
    /\ EditsAreRead
    /\ ReloadIsWhole

LEMMA ConfigStarts == ConfigInit => ConfigInv
<1> SUFFICES ASSUME ConfigInit PROVE ConfigInv
  OBVIOUS
<1>1. GoodFiles(files)
  <2>1. files \in FirstFiles
    BY DEF ConfigInit
  <2> QED BY <2>1, ConfigAssumption DEF GoodFiles, GoodFile
<1>2. Startable(files, spoilt) \subseteq startable
  BY DEF ConfigInit, Startable
<1>3. EditsAreRead
  <2>1. last.action = "start"
    BY DEF ConfigInit
  <2> QED BY <2>1 DEF EditsAreRead
<1>4. ReloadIsWhole
  BY DEF ConfigInit, ReloadIsWhole
<1> QED BY <1>1, <1>2, <1>3, <1>4 DEF ConfigInv

(* Whatever is changed, a daemon might start with it; the copies stay.     *)
LEMMA ChangesKeepTheRest ==
    ASSUME ConfigInv, NEW action, NEW edit, NEW place \in Places, NEW lines, GoodFile(lines),
           Changed(action, edit, place, lines), UNCHANGED <<spoilt, runtime, server>>
    PROVE  /\ GoodFiles(files') /\ (Startable(files, spoilt) \subseteq startable)' /\ ReloadIsWhole'
           /\ files'[place] = lines
           /\ last' = [action |-> action, edit |-> edit, place |-> place, before |-> files]
<1>1. /\ files' = [files EXCEPT ![place] = lines] /\ answer' = None
      /\ last' = [action |-> action, edit |-> edit, place |-> place, before |-> files]
      /\ startable' = startable \union Startable(files', spoilt)
      /\ spoilt' = spoilt /\ runtime' = runtime /\ server' = server
  BY DEF Changed
<1>2. GoodFiles(files')
  <2>1. DOMAIN files = Places /\ \A p \in Places : GoodFile(files[p])
    BY DEF ConfigInv, GoodFiles
  <2>2. DOMAIN files' = Places /\ \A p \in Places : GoodFile(files'[p])
    BY <1>1, <2>1
  <2> QED BY <2>2 DEF GoodFiles
<1>3. files'[place] = lines
  BY <1>1 DEF ConfigInv, GoodFiles
<1>4. (Startable(files, spoilt) \subseteq startable)'
  <2>1. Startable(files', spoilt) \subseteq startable'
    BY <1>1
  <2> QED BY <1>1, <2>1
<1>5. ReloadIsWhole'
  <2>1. answer' # "ok"
    BY <1>1 DEF None
  <2>2. runtime \in startable /\ server \in startable
    BY DEF ConfigInv, ReloadIsWhole
  <2> QED BY <1>1, <2>1, <2>2 DEF ReloadIsWhole
<1> QED BY <1>1, <1>2, <1>3, <1>4, <1>5

(* What the tool writes is a file, and it is read as it says.              *)
LEMMA RewrittenIsRead ==
    ASSUME NEW f, GoodFile(f), NEW action \in {"set", "add", "del"}, NEW var, NEW val,
           action = "add" => val # None
    PROVE  GoodFile(Rewritten(f, action, var, val)) /\ IsReadAs(Rewritten(f, action, var, val), f, action, var, val)
<1>1. PICK T : T = ToSet(f)
  OBVIOUS
<1>2. f \in Seq(T) /\ \A l \in T : IsLine(l)
  BY <1>1 DEF GoodFile
<1>3. PICK e : e = Entry(var, val)
  OBVIOUS
<1>4. IsLine(e)
  BY <1>3 DEF Entry, ConfigLine, IsLine, Forms
<1>5. \A l \in T \union {e} : IsLine(l)
  BY <1>2, <1>4
<1>6. GoodFile(Append(f, e))
  BY <1>4, OneMoreLine
<1>7. CASE action = "set"
  <2>1. Rewritten(f, action, var, val) = SetLine(f, var, val)
    BY <1>7 DEF Rewritten
  <2>2. IsReadAs(SetLine(f, var, val), f, "set", var, val)
    BY <1>2, SetIsRead
  <2>3. GoodFile(SetLine(f, var, val))
    <3>1. CASE ToolFinds(f, var) = {}
      BY <1>3, <1>6, <3>1 DEF SetLine
    <3>2. CASE ToolFinds(f, var) # {}
      <4>1. SetLine(f, var, val) \in Seq(T \union {e})
        BY <1>2, <1>3, <3>2, SetIsEdited
      <4> QED BY <1>5, <4>1, LinesMakeAFile
    <3> QED BY <3>1, <3>2
  <2> QED BY <1>7, <2>1, <2>2, <2>3
<1>8. CASE action = "add"
  <2>1. Rewritten(f, action, var, val) = AddLine(f, var, val)
    BY <1>8 DEF Rewritten
  <2>2. IsReadAs(AddLine(f, var, val), f, "add", var, val)
    BY <1>2, <1>8, AddIsRead
  <2>3. GoodFile(AddLine(f, var, val))
    BY <1>3, <1>6 DEF AddLine
  <2> QED BY <1>8, <2>1, <2>2, <2>3
<1>9. CASE action = "del"
  <2>1. PICK S : S = ToolLines(f, var, val)
    OBVIOUS
  <2>2. Rewritten(f, action, var, val) = AllBut(f, S)
    BY <1>9, <2>1 DEF Rewritten
  <2>3. IsReadAs(AllBut(f, S), f, "del", var, val)
    BY <1>2, <2>1, DelIsRead
  <2>4. AllBut(f, S) \in Seq(T)
    BY <1>2, AllButPicks
  <2>5. GoodFile(AllBut(f, S))
    BY <1>2, <2>4, LinesMakeAFile
  <2> QED BY <1>9, <2>2, <2>3, <2>5
<1> QED BY <1>7, <1>8, <1>9

LEMMA EditKeeps ==
    ASSUME ConfigInv, NEW edit \in Edits, Edit(edit)
    PROVE  ConfigInv'
<1>1. PICK place : place = Place(edit)
  OBVIOUS
<1>2. PICK action : action = Prepared(edit)
  OBVIOUS
<1>3. PICK lines : lines = Rewritten(files[place], action, edit.var, edit.val)
  OBVIOUS
<1>4. /\ action # "get" /\ ~Refused(edit)
      /\ Changed(action, edit, place, lines) /\ UNCHANGED <<spoilt, runtime, server>>
  BY <1>1, <1>2, <1>3 DEF Edit
<1>5. edit.node \in {None, "self", "peer"} /\ edit.action \in {"get", "set", "add", "del"}
  BY ConfigAssumption
<1>6. place \in Places
  BY <1>1, <1>5 DEF Place, Places
<1>7. action \in {"set", "add", "del"} /\ (action = "add" => Action(edit) = "add")
  BY <1>2, <1>4, <1>5 DEF Prepared, Action
<1>8. action = "add" => edit.val # None
  BY <1>4, <1>7 DEF Refused, WantsValue
<1>9. GoodFile(files[place])
  BY <1>6 DEF ConfigInv, GoodFiles
<1>10. GoodFile(lines) /\ IsReadAs(lines, files[place], action, edit.var, edit.val)
  BY <1>3, <1>7, <1>8, <1>9, RewrittenIsRead
<1>11. /\ GoodFiles(files') /\ (Startable(files, spoilt) \subseteq startable)' /\ ReloadIsWhole'
       /\ files'[place] = lines
       /\ last' = [action |-> action, edit |-> edit, place |-> place, before |-> files]
  BY <1>4, <1>6, <1>10, ChangesKeepTheRest
<1>12. EditsAreRead'
  <2>1. /\ last'.action = action /\ last'.edit = edit /\ last'.place = place
        /\ last'.before = files
    BY <1>11
  <2>2. IsReadAs(files'[last'.place], last'.before[last'.place], last'.action, last'.edit.var, last'.edit.val)
    BY <1>10, <1>11, <2>1
  <2> QED BY <2>2 DEF EditsAreRead
<1> QED BY <1>11, <1>12 DEF ConfigInv

LEMMA EditByHandKeeps ==
    ASSUME ConfigInv, NEW hand \in HandEdits, EditByHand(hand)
    PROVE  ConfigInv'
<1>1. PICK edit : edit = [var |-> None, val |-> None]
  OBVIOUS
<1>2. PICK f : f = files[hand.place]
  OBVIOUS
<1>3. hand.place \in Places /\ IsLine(hand.line)
  BY ConfigAssumption
<1>4. GoodFile(f)
  BY <1>2, <1>3 DEF ConfigInv, GoodFiles
<1>5. GoodFile(<<hand.line>> \o f) /\ GoodFile(Append(f, hand.line))
  BY <1>3, <1>4, OneMoreLine
<1>6. PICK lines : lines = IF hand.first THEN <<hand.line>> \o f ELSE Append(f, hand.line)
  OBVIOUS
<1>7. GoodFile(lines)
  BY <1>5, <1>6
<1>8. Changed("hand", edit, hand.place, lines) /\ UNCHANGED <<spoilt, runtime, server>>
  BY <1>1, <1>2, <1>6 DEF EditByHand
<1>9. /\ GoodFiles(files') /\ (Startable(files, spoilt) \subseteq startable)' /\ ReloadIsWhole'
      /\ last' = [action |-> "hand", edit |-> edit, place |-> hand.place, before |-> files]
  BY <1>3, <1>7, <1>8, ChangesKeepTheRest
<1>10. EditsAreRead'
  <2>1. last'.action = "hand"
    BY <1>9
  <2> QED BY <2>1 DEF EditsAreRead
<1> QED BY <1>9, <1>10 DEF ConfigInv

LEMMA SpoilKeeps ==
    ASSUME ConfigInv, NEW key, Spoil(key)
    PROVE  ConfigInv'
<1>1. /\ files' = files /\ last' = last /\ runtime' = runtime /\ server' = server
      /\ answer' = None /\ startable' = startable \union Startable(files, spoilt')
  BY DEF Spoil
<1>2. (Startable(files, spoilt) \subseteq startable)'
  BY <1>1
<1>3. ReloadIsWhole'
  <2>1. answer' # "ok"
    BY <1>1 DEF None
  <2>2. runtime \in startable /\ server \in startable
    BY DEF ConfigInv, ReloadIsWhole
  <2> QED BY <1>1, <2>1, <2>2 DEF ReloadIsWhole
<1>4. EditsAreRead' /\ GoodFiles(files')
  <2>1. EditsAreRead /\ GoodFiles(files)
    BY DEF ConfigInv
  <2> QED BY <1>1, <2>1 DEF EditsAreRead
<1> QED BY <1>2, <1>3, <1>4 DEF ConfigInv

(* What is taken over is what a daemon that is started now would read.     *)
LEMMA ReloadKeeps ==
    ASSUME ConfigInv, ReloadConfig
    PROVE  ConfigInv'
<1>1. PICK now : now = Reading(files)
  OBVIOUS
<1>2. /\ files' = files /\ spoilt' = spoilt /\ last' = last /\ startable' = startable
      /\ runtime' = IF IsApplicable THEN now ELSE runtime
      /\ server' = IF IsApplicable /\ "invitation" \notin spoilt THEN now ELSE server
      /\ answer' = IF IsApplicable /\ "invitation" \notin spoilt THEN "ok" ELSE "failed"
  BY <1>1 DEF ReloadConfig
<1>3. IsApplicable => now \in startable
  <2>1. Startable(files, spoilt) \subseteq startable
    BY DEF ConfigInv
  <2>2. IsApplicable => now \in Startable(files, spoilt)
    BY <1>1 DEF IsApplicable, Startable
  <2> QED BY <2>1, <2>2
<1>4. runtime \in startable /\ server \in startable
  BY DEF ConfigInv, ReloadIsWhole
<1>5. runtime' \in startable' /\ server' \in startable'
  BY <1>2, <1>3, <1>4
<1>6. answer' = "ok" => runtime' = now /\ server' = now
  BY <1>2
<1>7. Reading(files') = now
  BY <1>1, <1>2
<1>8. ReloadIsWhole'
  BY <1>5, <1>6, <1>7 DEF ReloadIsWhole
<1>9. (Startable(files, spoilt) \subseteq startable)'
  <2>1. Startable(files, spoilt) \subseteq startable
    BY DEF ConfigInv
  <2> QED BY <1>2, <2>1
<1>10. EditsAreRead' /\ GoodFiles(files')
  <2>1. EditsAreRead /\ GoodFiles(files)
    BY DEF ConfigInv
  <2> QED BY <1>2, <2>1 DEF EditsAreRead
<1> QED BY <1>8, <1>9, <1>10 DEF ConfigInv

(* A reload takes all of the configuration or nothing, and what the tool   *)
(* has edited is read as it says, for all files, commands and lines put in *)
(* by hand, and however many there are.  What `add` and `del` say is meant *)
(* as the tool compares values, which is without regard to case            *)
(* (edit_config_file, parse_config_file, reload_runtime_config).           *)
THEOREM ConfigurationAlwaysHolds == ConfigSpec => []ConfigurationHolds
<1>1. ConfigInv /\ [ConfigNext]_configVars => ConfigInv'
  <2>1. SUFFICES ASSUME ConfigInv, [ConfigNext]_configVars PROVE ConfigInv'
    OBVIOUS
  <2>2. CASE ConfigNext
    BY <2>1, <2>2, EditKeeps, EditByHandKeeps, SpoilKeeps, ReloadKeeps DEF ConfigNext
  <2>3. CASE UNCHANGED configVars
    <3>1. /\ files' = files /\ spoilt' = spoilt /\ last' = last /\ runtime' = runtime
          /\ server' = server /\ answer' = answer /\ startable' = startable
      BY <2>3 DEF configVars
    <3> QED BY <2>1, <3>1 DEF ConfigInv, EditsAreRead, ReloadIsWhole
  <2> QED BY <2>1, <2>2, <2>3
<1>2. ConfigInv => ConfigurationHolds
  BY DEF ConfigInv, ConfigurationHolds
<1> QED BY ConfigStarts, <1>1, <1>2, PTL DEF ConfigSpec
=============================================================================
