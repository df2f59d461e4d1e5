----------------------------- MODULE LinkProofs ------------------------------
(***************************************************************************)
(* The link between two daemons of the legacy protocol.  Its replay window *)
(* lets every number through at most once (LegacyReplayWindow implements   *)
(* EachOnce), no old key is used for good (LegacyKeys), however many       *)
(* messages are on their way, lost or overtaken by expired keys, and what  *)
(* one end makes under the key of both the other opens, and nothing else   *)
(* (LegacyDatagrams), whatever they are configured with.                   *)
(*                                                                         *)
(* The link between a daemon and the commands on its control socket: what  *)
(* a command shows is of one moment, and what it subscribes to comes in    *)
(* whole frames (ControlTalk).                                             *)
(***************************************************************************)
EXTENDS LegacyReplayWindow, LegacyKeys, LegacyDatagrams, ControlTalk, BasicLemmas, FiniteSetTheorems

-----------------------------------------------------------------------------
(***************************************************************************)
(* The replay window.                                                      *)
(***************************************************************************)

(* The sizes that the constants give the window are natural numbers, and   *)
(* the numbers end far enough beyond the limit.                            *)
LEMMA LegacySizes ==
    /\ Window \in Nat /\ MaxSeqno \in Nat /\ SeqnoMod \in Nat
    /\ MaxSeqno + Window < SeqnoMod
PROOF BY LegacyWindowAssumption DEF Window

(* Two numbers less than a window apart have different remainders.         *)
LEMMA SlotsDiffer ==
    ASSUME NEW w \in Nat \ {0}, NEW a \in Nat, NEW b \in Nat,
           a < b, b - a < w
    PROVE  a % w # b % w
PROOF
  <1> DEFINE q == a \div w
             r == b \div w
  <1>1. q \in Int /\ r \in Int
    OBVIOUS
  <1>2. a = w * q + (a % w) /\ b = w * r + (b % w)
    OBVIOUS
  <1>3. SUFFICES ASSUME a % w = b % w PROVE FALSE
    OBVIOUS
  <1>4. b - a = w * (r - q)
    BY <1>1, <1>2, <1>3
  <1>5. r - q >= 1
    BY <1>1, <1>4
  <1>6. w * (r - q) >= w
    BY <1>1, <1>5
  <1>7. QED BY <1>4, <1>6

(* Two different numbers in a stretch shorter than the window have         *)
(* different slots.                                                        *)
LEMMA LegacySlots ==
    ASSUME Window # 0
    PROVE  \A a, b \in Nat : a < b /\ b - a < Window => Slot(a) # Slot(b)
PROOF
  <1>1. Window \in Nat \ {0}
    BY LegacySizes
  <1>2. QED BY <1>1, SlotsDiffer DEF Slot

(***************************************************************************)
(* The inductive invariant.  That a number is let through once follows     *)
(* from the bits: a bit that is set belongs to no accepted number of the   *)
(* window.  This in turn needs that accepted numbers do not exceed the     *)
(* highest, and the count is exact only because the window starts again    *)
(* before it could saturate.                                               *)
(***************************************************************************)
Bounded ==
    /\ received_seqno \in 0 .. MaxSeqno
    /\ accepted \subseteq 0 .. received_seqno
Counted == received \in Nat /\ IsFiniteSet(accepted) /\ received = Cardinality(accepted)
LegacyIInv == Bounded /\ Counted /\ BitsAreMissingNumbers

(* A window that starts satisfies the invariant.                           *)
LEMMA EmptyIInv ==
    ASSUME received_seqno = 0, received = 0, accepted = {}
    PROVE  LegacyIInv
PROOF BY LegacySizes, FS_EmptySet DEF LegacyIInv, Bounded, Counted, BitsAreMissingNumbers

(* A number that was accepted is refused.                                  *)
LEMMA AcceptedIsOld ==
    ASSUME LegacyIInv, Window # 0, NEW s \in Seqno, ~TooFar(s), ~Replay(s)
    PROVE  s \notin accepted
PROOF
  <1> SUFFICES ASSUME s \in accepted PROVE FALSE
    OBVIOUS
  <1>1. /\ s \in Nat /\ received_seqno \in Nat /\ s <= received_seqno
        /\ received_seqno + Window < SeqnoMod
    BY LegacySizes DEF LegacyIInv, Bounded, Seqno
  <1>2. s # (received_seqno + 1) % SeqnoMod
    <2>1. (received_seqno + 1) % SeqnoMod = received_seqno + 1
      BY <1>1, LegacySizes
    <2>2. QED BY <1>1, <2>1
  <1>3. s < FutureCutoff
    BY <1>1, LegacySizes DEF FutureCutoff
  <1>4. Old(s)
    BY <1>1, <1>2, <1>3 DEF Old, Unexpected
  <1>5. OutsideWindow(s) \/ Slot(s) \notin late
    BY DEF LegacyIInv, BitsAreMissingNumbers
  <1>6. QED BY <1>4, <1>5 DEF Replay

(* What Accept does when the numbers do not start again.                   *)
KeptKeys(s) ==
    /\ received_seqno' = IF s > received_seqno THEN s ELSE received_seqno
    /\ received_seqno' <= MaxSeqno
    /\ received' = IF received + 1 < SeqnoMod THEN received + 1 ELSE received
    /\ late' = LateAfter(s)
    /\ accepted' = accepted \union {s}

(* Accepting a number either starts again or keeps what was accepted.      *)
LEMMA AcceptCases ==
    ASSUME LegacyIInv, Window # 0, NEW s \in Seqno, Accept(s)
    PROVE  \/ received_seqno' = 0 /\ received' = 0 /\ accepted' = {}
           \/ KeptKeys(s)
PROOF
  <1>1. s \in Int /\ received_seqno \in Int /\ MaxSeqno \in Int
    BY LegacySizes DEF LegacyIInv, Bounded, Seqno
  <1>2. QED BY <1>1 DEF Accept, KeptKeys

(* The accepted numbers stay in their range.                               *)
LEMMA KeptBounded ==
    ASSUME LegacyIInv, NEW s \in Seqno, KeptKeys(s)
    PROVE  Bounded'
PROOF BY LegacySizes DEF LegacyIInv, Bounded, KeptKeys, Seqno

(* The count does not saturate: there are no more accepted numbers than    *)
(* numbers up to the limit.                                                *)
LEMMA KeptCounted ==
    ASSUME LegacyIInv, Window # 0, NEW s \in Seqno, KeptKeys(s), s \notin accepted
    PROVE  Counted' /\ received' = received + 1
PROOF
  <1>1. /\ IsFiniteSet(accepted') /\ Cardinality(accepted') = received + 1
    BY FS_AddElement DEF LegacyIInv, Counted, KeptKeys
  <1>2. /\ IsFiniteSet(0 .. MaxSeqno) /\ Cardinality(0 .. MaxSeqno) = MaxSeqno + 1
    <2>1. MaxSeqno \in Int /\ 0 \in Int /\ 0 <= MaxSeqno
      BY LegacySizes
    <2>2. QED BY <2>1, FS_Interval
  <1>3. accepted' \subseteq 0 .. MaxSeqno
    BY KeptBounded, LegacySizes DEF Bounded
  <1>4. Cardinality(accepted') <= MaxSeqno + 1
    BY <1>2, <1>3, FS_Subset
  <1>5. received \in Nat /\ received + 1 < SeqnoMod
    BY <1>1, <1>4, LegacySizes DEF LegacyIInv, Counted
  <1>6. received' = received + 1
    BY <1>5 DEF KeptKeys
  <1>7. QED BY <1>1, <1>5, <1>6 DEF Counted

(* The bits that are set afterwards still belong to missing numbers.       *)
LEMMA KeptBits ==
    ASSUME LegacyIInv, Window # 0, NEW s \in Seqno, KeptKeys(s), ~Replay(s)
    PROVE  BitsAreMissingNumbers'
PROOF
  <1> DEFINE r == received_seqno
  <1>1. /\ r \in Nat /\ s \in Nat /\ Window \in Nat /\ SeqnoMod \in Nat
        /\ r + Window < SeqnoMod /\ accepted \subseteq 0 .. r
    BY LegacySizes DEF LegacyIInv, Bounded, Seqno
  <1>2. FutureCutoff = r + Window
    BY <1>1 DEF FutureCutoff
  <1>3. \A t \in accepted' : t \in Nat /\ t <= received_seqno'
    BY <1>1 DEF KeptKeys
  <1>4. ASSUME NEW t \in accepted', ~OutsideWindow(t)' PROVE Slot(t) \notin late'
    <2>1. t \in Nat /\ (t = s \/ (t \in accepted /\ t <= r))
      BY <1>1 DEF KeptKeys
    <2>2. CASE t = s \/ FarFuture(s)
      <3>1. CASE t = s
        BY <3>1 DEF KeptKeys, LateAfter
      <3>2. CASE FarFuture(s)
        BY <3>2 DEF KeptKeys, LateAfter
      <3>3. QED BY <2>2, <3>1, <3>2
    <2>3. CASE t # s /\ ~FarFuture(s) /\ Old(s)
      <3>1. received_seqno' = r
        BY <1>1, <2>3 DEF KeptKeys, Old
      <3>2. ~OutsideWindow(t)
        BY <1>4, <3>1 DEF OutsideWindow
      <3>3. Slot(t) \notin late
        BY <2>1, <2>3, <3>2 DEF LegacyIInv, BitsAreMissingNumbers
      <3>4. QED BY <2>3, <3>3 DEF KeptKeys, LateAfter
    <2>4. CASE t # s /\ ~FarFuture(s) /\ ~Old(s)
      <3>1. s > r
        <4>1. CASE s = (r + 1) % SeqnoMod
          BY <1>1, <4>1, LegacySizes
        <4>2. CASE s # (r + 1) % SeqnoMod
          <5>1. Unexpected(s)
            BY <4>2 DEF Unexpected
          <5>2. s < FutureCutoff
            BY <1>1, <1>2, <2>4, <5>1 DEF FarFuture
          <5>3. QED BY <1>1, <2>4, <5>1, <5>2 DEF Old
        <4>3. QED BY <4>1, <4>2
      <3>2. received_seqno' = s
        BY <1>1, <3>1 DEF KeptKeys
      <3>3. s < Window \/ t > s - Window
        BY <1>1, <1>4, <2>1, <3>2 DEF OutsideWindow
      <3>4. t \in accepted /\ t <= r /\ ~OutsideWindow(t)
        BY <1>1, <2>1, <2>4, <3>1, <3>3 DEF OutsideWindow
      <3>5. Slot(t) \notin late
        BY <3>4 DEF LegacyIInv, BitsAreMissingNumbers
      <3>6. \A m \in r + 1 .. s - 1 : m \in Nat /\ t < m /\ m - t < Window
        BY <1>1, <2>1, <3>1, <3>3, <3>4
      <3>7. \A m \in r + 1 .. s - 1 : Slot(t) # Slot(m)
        BY <2>1, <3>6, LegacySlots
      <3>8. QED BY <2>4, <3>5, <3>7 DEF KeptKeys, LateAfter
    <2>5. QED BY <2>2, <2>3, <2>4
  <1>5. QED BY <1>3, <1>4 DEF BitsAreMissingNumbers, OutsideWindow

(* Every step preserves the invariant and is a step of EachOnce, or leaves *)
(* what EachOnce sees alone.                                               *)
LEMMA LegacyStep ==
    ASSUME Window # 0, LegacyIInv, [Next]_windowVars
    PROVE  LegacyIInv' /\ [Once!Next]_<<accepted, received>>
PROOF
  <1>1. CASE UNCHANGED windowVars
    BY <1>1 DEF windowVars, LegacyIInv, Bounded, Counted, BitsAreMissingNumbers, OutsideWindow
  <1>2. CASE received_seqno' = 0 /\ received' = 0 /\ accepted' = {}
    <2>1. LegacyIInv'
      BY <1>2, LegacySizes, FS_EmptySet DEF LegacyIInv, Bounded, Counted, BitsAreMissingNumbers
    <2>2. Once!Next
      BY <1>2 DEF Once!Next, Once!StartAgain
    <2>3. QED BY <2>1, <2>2
  <1>3. ASSUME NEW s \in Seqno, RefuseFarFuture(s)
        PROVE  LegacyIInv' /\ [Once!Next]_<<accepted, received>>
    BY <1>3 DEF RefuseFarFuture, LegacyIInv, Bounded, Counted, BitsAreMissingNumbers, OutsideWindow
  <1>4. ASSUME NEW s \in Seqno, RefuseReplay(s)
        PROVE  LegacyIInv' /\ [Once!Next]_<<accepted, received>>
    BY <1>1, <1>4 DEF RefuseReplay
  <1>5. ASSUME NEW s \in Seqno, Accept(s)
        PROVE  LegacyIInv' /\ [Once!Next]_<<accepted, received>>
    <2>1. CASE KeptKeys(s)
      <3>1. s \notin accepted
        BY <1>5, AcceptedIsOld DEF Accept
      <3>2. LegacyIInv' /\ received' = received + 1
        BY <1>5, <2>1, <3>1, KeptBounded, KeptCounted, KeptBits DEF Accept, LegacyIInv
      <3>3. Once!Next
        BY <2>1, <3>1, <3>2 DEF Once!Next, Once!Take, KeptKeys
      <3>4. QED BY <3>2, <3>3
    <2>2. CASE received_seqno' = 0 /\ received' = 0 /\ accepted' = {}
      BY <1>2, <2>2
    <2>3. QED BY <1>5, <2>1, <2>2, AcceptCases
  <1>6. CASE NewKey
    BY <1>2, <1>6 DEF NewKey
  <1>7. QED BY <1>1, <1>3, <1>4, <1>5, <1>6 DEF Next

(* LegacyReplayWindow::accept lets every number through at most once per   *)
(* key and cycle of the numbers, and counts what it let through, for every *)
(* window that is not turned off: it implements EachOnce.                  *)
THEOREM LegacyImplementsEachOnce ==
    ASSUME Window # 0
    PROVE  WindowSpec => OnceOnly
PROOF
  <1>1. Init => LegacyIInv /\ Once!Init
    BY EmptyIInv DEF Init, Once!Init
  <1>2. LegacyIInv /\ [Next]_windowVars => LegacyIInv' /\ [Once!Next]_Once!onceVars
    BY LegacyStep DEF Once!onceVars
  <1>3. QED BY <1>1, <1>2, PTL DEF WindowSpec, OnceOnly, Once!Spec

-----------------------------------------------------------------------------
(***************************************************************************)
(* Keys.                                                                   *)
(***************************************************************************)

(***************************************************************************)
(* The messages from the receiver on a route that never changes.  An old   *)
(* answer may still be on its way, but never as the last one: the answer   *)
(* that made it old was sent after it on the same route.                   *)
(***************************************************************************)
Message == {"current", "old", KeyChanged}
ToldKeys(queue) == \E i \in DOMAIN queue : queue[i] = "current"
EndsCurrent(queue) ==
    \A i \in DOMAIN queue : queue[i] = "old" => \E j \in DOMAIN queue : j > i /\ queue[j] = "current"
OnlyChanges(queue) == \A i \in DOMAIN queue : queue[i] = KeyChanged

KeyTypes ==
    /\ outKey \in {"none", "current", "old"}
    /\ validKey \in BOOLEAN
    /\ toSender \in [Routes -> Seq(Message)]
    /\ route \in Routes
    /\ switches \in Nat

KeyIInv ==
    /\ KeyTypes
    /\ switches = 0 =>
          /\ route = 1
          /\ EndsCurrent(toSender[1]) /\ OnlyChanges(toSender[2])
          /\ validKey /\ outKey = "old" => ToldKeys(toSender[1])

-----------------------------------------------------------------------------
(* Aging.                                                                  *)
LEMMA Aged ==
    ASSUME NEW queues \in [Routes -> Seq(Message)], NEW r \in Routes
    PROVE  /\ Age(queues) \in [Routes -> Seq(Message)]
           /\ Len(Age(queues)[r]) = Len(queues[r])
           /\ \A i \in DOMAIN queues[r] : Age(queues)[r][i] = Stale(queues[r][i])
           /\ DOMAIN Age(queues)[r] = DOMAIN queues[r]
PROOF
<1> DEFINE Q(s) == [i \in DOMAIN queues[s] |-> Stale(queues[s][i])]
<1>1. ASSUME NEW s \in Routes PROVE Q(s) \in Seq(Message) /\ Len(Q(s)) = Len(queues[s])
  <2>1. queues[s] \in Seq(Message) /\ DOMAIN queues[s] = 1 .. Len(queues[s]) /\ Len(queues[s]) \in Nat
    BY LenProperties
  <2>2. \A i \in 1 .. Len(queues[s]) : queues[s][i] \in Message
    BY <2>1, ElementOfSeq
  <2>3. \A i \in 1 .. Len(queues[s]) : Stale(queues[s][i]) \in Message
    BY <2>2 DEF Stale, Message
  <2>4. Q(s) = [i \in 1 .. Len(queues[s]) |-> Stale(queues[s][i])]
    BY <2>1
  <2>5. Q(s) \in Seq(Message)
    BY <2>1, <2>3, <2>4, IsASeq
  <2>6. DOMAIN Q(s) = 1 .. Len(queues[s])
    BY <2>4
  <2> QED BY <2>1, <2>5, <2>6, LenProperties
<1>2. Age(queues) = [s \in Routes |-> Q(s)]
  BY DEF Age
<1>3. Age(queues)[r] = Q(r)
  BY <1>2
<1> HIDE DEF Q
<1>4. Age(queues) \in [Routes -> Seq(Message)]
  BY <1>1, <1>2
<1>5. Len(Age(queues)[r]) = Len(queues[r])
  BY <1>1, <1>3
<1>6. DOMAIN Q(r) = DOMAIN queues[r] /\ \A i \in DOMAIN queues[r] : Q(r)[i] = Stale(queues[r][i])
  BY DEF Q
<1> QED BY <1>3, <1>4, <1>5, <1>6

(* An answer is sent: what was on its way is old, and the last message is  *)
(* not.                                                                    *)
LEMMA Answered ==
    ASSUME NEW queues \in [Routes -> Seq(Message)], route = 1, OnlyChanges(queues[2])
    PROVE  /\ Answer(queues) \in [Routes -> Seq(Message)]
           /\ EndsCurrent(Answer(queues)[1]) /\ ToldKeys(Answer(queues)[1])
           /\ OnlyChanges(Answer(queues)[2])
PROOF
<1> USE DEF Routes
<1>1. PICK aged : aged = Age(queues)
  OBVIOUS
<1>2. /\ aged \in [Routes -> Seq(Message)]
      /\ DOMAIN aged[2] = DOMAIN queues[2]
      /\ \A i \in DOMAIN queues[2] : aged[2][i] = Stale(queues[2][i])
  BY <1>1, Aged
<1>3. Answer(queues) = [aged EXCEPT ![1] = Append(@, "current")]
  BY <1>1 DEF Answer
<1>4. PICK q : q = aged[1]
  OBVIOUS
<1>5. q \in Seq(Message) /\ "current" \in Message
  BY <1>2, <1>4 DEF Message
<1>6. /\ Append(q, "current") \in Seq(Message)
      /\ Len(Append(q, "current")) = Len(q) + 1
      /\ Append(q, "current")[Len(q) + 1] = "current"
      /\ Len(q) \in Nat
  BY <1>5, AppendProperties, LenProperties
<1>7. DOMAIN Append(q, "current") = 1 .. Len(q) + 1
  BY <1>6, LenProperties
<1>8. EndsCurrent(Append(q, "current")) /\ ToldKeys(Append(q, "current"))
  <2>1. PICK a : a = Append(q, "current")
    OBVIOUS
  <2>2. Len(q) + 1 \in DOMAIN a /\ a[Len(q) + 1] = "current"
    BY <2>1, <1>6, <1>7
  <2>3. ASSUME NEW i \in DOMAIN a, a[i] = "old" PROVE Len(q) + 1 > i
    <3>1. i \in 1 .. Len(q) + 1 /\ i # Len(q) + 1
      BY <2>1, <2>2, <2>3, <1>7
    <3> QED BY <3>1, <1>6
  <2> QED BY <2>1, <2>2, <2>3 DEF EndsCurrent, ToldKeys
<1>9. Answer(queues) \in [Routes -> Seq(Message)] /\ Answer(queues)[1] = Append(q, "current")
  BY <1>2, <1>3, <1>4, <1>6
<1>10. Answer(queues)[2] = aged[2]
  BY <1>2, <1>3
<1>11. OnlyChanges(Answer(queues)[2])
  BY <1>2, <1>10 DEF OnlyChanges, Stale, KeyChanged
<1> QED BY <1>8, <1>9, <1>11

(* SendAnswer keeps what the invariant says of the routes and of the key.  *)
LEMMA SendAnswerKeeps ==
    ASSUME KeyTypes, NEW queues \in [Routes -> Seq(Message)], SendAnswer(queues),
           switches = 0 => route = 1 /\ OnlyChanges(queues[2])
    PROVE  /\ toSender' \in [Routes -> Seq(Message)] /\ outKey' \in {"none", "current", "old"}
           /\ switches = 0 =>
                 EndsCurrent(toSender'[1]) /\ ToldKeys(toSender'[1]) /\ OnlyChanges(toSender'[2])
PROOF
<1>1. outKey' \in {"none", "current", "old"}
  BY DEF SendAnswer, KeyTypes, Stale
<1>2. toSender' = Answer(queues)
  BY DEF SendAnswer
<1>3. Answer(queues) \in [Routes -> Seq(Message)]
  <2>1. PICK aged : aged = Age(queues)
    OBVIOUS
  <2>2. aged \in [Routes -> Seq(Message)]
    BY <2>1, Aged DEF Routes
  <2>3. route \in Routes /\ aged[route] \in Seq(Message) /\ "current" \in Message
    BY <2>2 DEF KeyTypes, Message
  <2>4. Append(aged[route], "current") \in Seq(Message)
    BY <2>3, AppendProperties
  <2> QED BY <2>1, <2>2, <2>3, <2>4 DEF Answer
<1>4. CASE switches = 0
  BY <1>1, <1>2, <1>4, Answered
<1> QED BY <1>1, <1>2, <1>3, <1>4

(* KEY_CHANGED at the end of a queue changes nothing of what it says.      *)
LEMMA ChangeAppended ==
    ASSUME NEW q \in Seq(Message)
    PROVE  /\ Append(q, KeyChanged) \in Seq(Message)
           /\ EndsCurrent(q) => EndsCurrent(Append(q, KeyChanged))
           /\ ToldKeys(q) => ToldKeys(Append(q, KeyChanged))
           /\ OnlyChanges(q) => OnlyChanges(Append(q, KeyChanged))
PROOF
<1>1. PICK a : a = Append(q, KeyChanged)
  OBVIOUS
<1>2. KeyChanged \in Message
  BY DEF Message
<1>3. /\ a \in Seq(Message) /\ Len(a) = Len(q) + 1 /\ a[Len(q) + 1] = KeyChanged
      /\ \A i \in 1 .. Len(q) : a[i] = q[i]
  BY <1>1, <1>2, AppendProperties
<1>4. DOMAIN a = 1 .. Len(q) + 1 /\ DOMAIN q = 1 .. Len(q) /\ Len(q) \in Nat
  BY <1>3, LenProperties
<1>5. \A i \in DOMAIN q : i \in DOMAIN a /\ a[i] = q[i]
  BY <1>3, <1>4
<1>6. \A i \in DOMAIN a : i \in DOMAIN q \/ a[i] = KeyChanged
  BY <1>3, <1>4
<1>7. KeyChanged # "old"
  BY DEF KeyChanged
<1>8. EndsCurrent(q) => EndsCurrent(a)
  BY <1>5, <1>6, <1>7 DEF EndsCurrent
<1>9. (ToldKeys(q) => ToldKeys(a)) /\ (OnlyChanges(q) => OnlyChanges(a))
  BY <1>5, <1>6 DEF ToldKeys, OnlyChanges
<1> QED BY <1>1, <1>3, <1>8, <1>9

(* And a queue without its first message.                                  *)
LEMMA FirstTaken ==
    ASSUME NEW q \in Seq(Message), q # <<>>
    PROVE  /\ Tail(q) \in Seq(Message) /\ Head(q) \in Message
           /\ EndsCurrent(q) => EndsCurrent(Tail(q))
           /\ OnlyChanges(q) => OnlyChanges(Tail(q)) /\ Head(q) = KeyChanged
           /\ ToldKeys(q) /\ Head(q) # "current" => ToldKeys(Tail(q))
           /\ EndsCurrent(q) /\ Head(q) = "old" => ToldKeys(Tail(q))
PROOF
<1>1. PICK t : t = Tail(q)
  OBVIOUS
<1>2. /\ t \in Seq(Message) /\ Head(q) \in Message /\ Len(q) \in Nat \ {0}
      /\ DOMAIN q = 1 .. Len(q) /\ Len(t) = Len(q) - 1 /\ Head(q) = q[1]
      /\ \A i \in 1 .. Len(t) : t[i] = q[i + 1]
  BY <1>1, HeadTailProperties, LenProperties, EmptySeq
<1>3. DOMAIN t = 1 .. Len(q) - 1
  BY <1>2, LenProperties
<1>4. \A i \in DOMAIN t : i + 1 \in DOMAIN q /\ t[i] = q[i + 1]
  BY <1>2, <1>3
<1>5. \A j \in DOMAIN q : j > 1 => j - 1 \in DOMAIN t /\ t[j - 1] = q[j]
  BY <1>2, <1>3
<1>6. 1 \in DOMAIN q /\ \A j \in DOMAIN q : j \in Nat /\ (j = 1 \/ j > 1)
  BY <1>2
<1>7. ASSUME EndsCurrent(q) PROVE EndsCurrent(t)
  <2>1. SUFFICES ASSUME NEW i \in DOMAIN t, t[i] = "old"
                 PROVE  \E j \in DOMAIN t : j > i /\ t[j] = "current"
    BY DEF EndsCurrent
  <2>2. PICK j \in DOMAIN q : j > i + 1 /\ q[j] = "current"
    BY <1>4, <1>7, <2>1 DEF EndsCurrent
  <2>3. i \in Nat /\ i >= 1 /\ j \in Nat
    BY <1>2, <1>3
  <2>4. j - 1 \in DOMAIN t /\ t[j - 1] = "current" /\ j - 1 > i
    BY <1>5, <2>2, <2>3
  <2> QED BY <2>4
<1>8. ASSUME OnlyChanges(q) PROVE OnlyChanges(t) /\ Head(q) = KeyChanged
  BY <1>2, <1>4, <1>6, <1>8 DEF OnlyChanges
<1>9. ASSUME ToldKeys(q), Head(q) # "current" PROVE ToldKeys(t)
  BY <1>2, <1>5, <1>6, <1>9 DEF ToldKeys
<1>10. ASSUME EndsCurrent(q), Head(q) = "old" PROVE ToldKeys(t)
  BY <1>2, <1>5, <1>6, <1>10 DEF EndsCurrent, ToldKeys
<1> QED BY <1>1, <1>2, <1>7, <1>8, <1>9, <1>10

-----------------------------------------------------------------------------
(* The steps.                                                              *)
(* Nothing is known and nothing is on its way.                             *)
LEMMA KeysInitially == KeyInit => KeyIInv
PROOF
<1> SUFFICES ASSUME KeyInit PROVE KeyIInv
  OBVIOUS
<1>1. <<>> \in Seq(Message) /\ DOMAIN <<>> = {}
  BY EmptySeq
<1>2. toSender \in [Routes -> Seq(Message)] /\ toSender[1] = <<>> /\ toSender[2] = <<>>
  BY <1>1 DEF KeyInit, Routes
<1>3. EndsCurrent(<<>>) /\ OnlyChanges(<<>>)
  BY <1>1 DEF EndsCurrent, OnlyChanges
<1> QED BY <1>2, <1>3 DEF KeyInit, KeyIInv, KeyTypes, Routes

(* Every step of LegacyKeys keeps the invariant.                           *)
LEMMA KeyStepsKeep == KeyIInv /\ [KeyNext]_keyVars => KeyIInv'
PROOF
<1> SUFFICES ASSUME KeyIInv, [KeyNext]_keyVars PROVE KeyIInv'
  OBVIOUS
<1>1. KeyTypes /\ toSender[1] \in Seq(Message) /\ toSender[2] \in Seq(Message)
  BY DEF KeyIInv, KeyTypes, Routes
<1>2. CASE ReceiveReqKey \/ ReceiverSends
  <2>1. SendAnswer(toSender) /\ UNCHANGED <<validKey, route, switches>>
    BY <1>2 DEF ReceiveReqKey, ReceiverSends
  <2>2. toSender \in [Routes -> Seq(Message)]
    BY <1>1 DEF KeyTypes
  <2>3. switches = 0 => route = 1 /\ OnlyChanges(toSender[2])
    BY DEF KeyIInv
  <2> QED BY <1>1, <2>1, <2>2, <2>3, SendAnswerKeeps DEF KeyIInv, KeyTypes
<1>3. CASE RegenerateKeys
  <2>1. UNCHANGED <<direct, validKey, route, switches>>
    BY <1>3 DEF RegenerateKeys
  <2>2. PICK r \in IF direct THEN {route} ELSE Routes :
           LET flooded == [toSender EXCEPT ![r] = Append(@, KeyChanged)]
           IN  IF direct THEN SendAnswer(flooded)
               ELSE toSender' = flooded /\ UNCHANGED outKey
    BY <1>3 DEF RegenerateKeys
  <2>3. PICK flooded : flooded = [toSender EXCEPT ![r] = Append(@, KeyChanged)]
    OBVIOUS
  <2>4. r \in Routes /\ (direct => r = route)
    BY <2>2, <1>1 DEF KeyTypes
  <2>5. flooded \in [Routes -> Seq(Message)]
    BY <1>1, <2>3, <2>4, ChangeAppended DEF KeyTypes
  <2>6. \A s \in Routes : flooded[s] = IF s = r THEN Append(toSender[s], KeyChanged) ELSE toSender[s]
    BY <1>1, <2>3, <2>4 DEF KeyTypes
  <2>7. /\ EndsCurrent(toSender[1]) => EndsCurrent(flooded[1])
        /\ ToldKeys(toSender[1]) => ToldKeys(flooded[1])
        /\ OnlyChanges(toSender[2]) => OnlyChanges(flooded[2])
    BY <1>1, <2>6, ChangeAppended DEF Routes
  <2>8. CASE direct
    <3>1. SendAnswer(flooded)
      BY <2>2, <2>3, <2>8
    <3>2. switches = 0 => route = 1 /\ OnlyChanges(flooded[2])
      BY <2>7 DEF KeyIInv
    <3> QED BY <1>1, <2>1, <2>5, <3>1, <3>2, SendAnswerKeeps DEF KeyIInv, KeyTypes
  <2>9. CASE ~direct
    <3>1. toSender' = flooded /\ outKey' = outKey
      BY <2>2, <2>3, <2>9
    <3> QED BY <1>1, <2>1, <2>5, <2>7, <3>1 DEF KeyIInv, KeyTypes
  <2> QED BY <2>8, <2>9
<1>4. ASSUME NEW r \in Routes, ReceiveFrom(r) PROVE KeyIInv'
  <2>1. PICK q : q = toSender[r]
    OBVIOUS
  <2>2. /\ q \in Seq(Message) /\ q # <<>> /\ Takes(Head(q))
        /\ toSender' = [toSender EXCEPT ![r] = Tail(q)]
        /\ UNCHANGED <<route, switches>>
    BY <1>1, <1>4, <2>1 DEF ReceiveFrom, KeyTypes
  <2>3. Tail(q) \in Seq(Message) /\ Head(q) \in Message
    BY <2>2, FirstTaken
  <2>4. KeyTypes'
    BY <1>1, <2>2, <2>3 DEF KeyTypes, Takes, Message, KeyChanged
  <2>5. ASSUME switches = 0
        PROVE  /\ route = 1
               /\ EndsCurrent(toSender'[1]) /\ OnlyChanges(toSender'[2])
               /\ validKey' /\ outKey' = "old" => ToldKeys(toSender'[1])
    <3>1. /\ route = 1 /\ EndsCurrent(toSender[1]) /\ OnlyChanges(toSender[2])
          /\ validKey /\ outKey = "old" => ToldKeys(toSender[1])
      BY <2>5 DEF KeyIInv
    <3>2. CASE r = 1
      <4>1. toSender'[1] = Tail(q) /\ toSender'[2] = toSender[2] /\ q = toSender[1]
        BY <1>1, <2>1, <2>2, <3>2 DEF KeyTypes, Routes
      <4>2. /\ EndsCurrent(Tail(q)) /\ (Head(q) = "old" => ToldKeys(Tail(q)))
        BY <2>2, <3>1, <4>1, FirstTaken
      <4>3. validKey' /\ outKey' = "old" => Head(q) = "old"
        BY <2>2 DEF Takes
      <4> QED BY <3>1, <4>1, <4>2, <4>3
    <3>3. CASE r = 2
      <4>1. toSender'[1] = toSender[1] /\ toSender'[2] = Tail(q) /\ q = toSender[2]
        BY <1>1, <2>1, <2>2, <3>3 DEF KeyTypes, Routes
      <4>2. OnlyChanges(Tail(q)) /\ Head(q) = KeyChanged
        BY <2>2, <3>1, <4>1, FirstTaken
      <4>3. ~validKey'
        BY <2>2, <4>2 DEF Takes
      <4> QED BY <3>1, <4>1, <4>2, <4>3
    <3> QED BY <3>2, <3>3 DEF Routes
  <2> QED BY <2>2, <2>4, <2>5 DEF KeyIInv
<1>5. CASE SwitchRoute
  <2>1. switches' = switches + 1 /\ route' = 3 - route /\ UNCHANGED <<outKey, validKey, toSender>>
    BY <1>5 DEF SwitchRoute
  <2>2. switches' \in Nat /\ switches' # 0 /\ route' \in Routes
    BY <1>1, <2>1 DEF KeyTypes, Routes
  <2> QED BY <1>1, <2>1, <2>2 DEF KeyIInv, KeyTypes
<1>6. CASE Break
  <2>1. /\ outKey' = "none" /\ validKey' = FALSE /\ toSender' = [r \in Routes |-> <<>>]
        /\ UNCHANGED <<route, switches>>
    BY <1>6 DEF Break
  <2>2. <<>> \in Seq(Message) /\ DOMAIN <<>> = {}
    BY EmptySeq
  <2>3. toSender' \in [Routes -> Seq(Message)] /\ toSender'[1] = <<>> /\ toSender'[2] = <<>>
    BY <2>1, <2>2 DEF Routes
  <2>4. EndsCurrent(<<>>) /\ OnlyChanges(<<>>)
    BY <2>2 DEF EndsCurrent, OnlyChanges
  <2> QED BY <1>1, <2>1, <2>3, <2>4 DEF KeyIInv, KeyTypes
<1>7. CASE SenderSends \/ AskAgain \/ UNCHANGED keyVars
  <2>1. UNCHANGED <<outKey, validKey, toSender, route, switches>>
    BY <1>7 DEF SenderSends, AskAgain, keyVars
  <2> QED BY <1>1, <2>1 DEF KeyIInv, KeyTypes
<1> QED BY <1>2, <1>3, <1>4, <1>5, <1>6, <1>7 DEF KeyNext

(* Whatever the bounds on switches, losses and messages on their way: as   *)
(* long as requests keep to one route, an old key that the sender takes    *)
(* for valid is about to be replaced by the current one.                   *)
THEOREM KeysAreReplaced ==
    KeyInit /\ [][KeyNext]_keyVars => []OldKeysAreReplaced
PROOF
<1>1. KeyIInv => OldKeysAreReplaced
  BY DEF KeyIInv, OldKeysAreReplaced, ToldKeys, Routes
<1> QED BY <1>1, KeysInitially, KeyStepsKeep, PTL
-----------------------------------------------------------------------------
(***************************************************************************)
(* Datagrams.                                                              *)
(***************************************************************************)

(* A key that is there is one of those that have been made.                *)
MadeKey(d) == d # NoDirection => d.key \in 1 .. keys

(* The datagram was made by a direction like this one.                     *)
MadeBy(g, in) ==
    /\ g.key = in.key /\ g.cipher = in.cipher /\ g.digest = in.digest /\ g.level = in.level
    /\ g.len \in Int /\ in.digest.length \in Int
    /\ g.len >= SeqnoLen + in.digest.length

HasKey(d) == d # NoDirection /\ d.key = incoming.key
Checks == incoming.digest.length > 0

(* The inductive invariant: an answer that is still to be taken, the       *)
(* sender's direction and the datagram on its way belong to the key of the *)
(* receiver one after the other, and fit it.  That datagrams are not taken *)
(* for replays needs that no number accepted under this key exceeds those  *)
(* sent, which a receiver that checks nothing cannot say.                  *)
AnswerFits ==
    HasKey(answer) =>
        /\ Direction(answer, TRUE) = incoming
        /\ Checks => receivedSeqno = 0
        /\ ~HasKey(outgoing) /\ ~HasKey(datagram)
OutgoingFits ==
    HasKey(outgoing) =>
        /\ outgoing = incoming
        /\ Checks => receivedSeqno <= sentSeqno
        /\ HasKey(datagram) => datagram.seqno <= sentSeqno
DatagramFits ==
    HasKey(datagram) =>
        /\ MadeBy(datagram, incoming)
        /\ Checks => receivedSeqno < datagram.seqno

DatagramIInv ==
    /\ keys \in Nat /\ sentSeqno \in Nat /\ receivedSeqno \in Nat
    /\ MadeKey(incoming) /\ MadeKey(answer) /\ MadeKey(outgoing) /\ MadeKey(datagram)
    /\ answer # NoDirection => answer.digest \in Int /\ answer.macLength \in Int
    /\ incoming # NoDirection => incoming.digest.length \in Int
    /\ outgoing # NoDirection => outgoing.digest.length \in Int
    /\ datagram # NoDirection => datagram.seqno \in Nat
    /\ incoming # NoDirection => AnswerFits /\ OutgoingFits /\ DatagramFits

-----------------------------------------------------------------------------
(* What an answer says when it can be.                                     *)
Said(m) == [key |-> m.key, level |-> m.level, cipher |-> CipherOf(m.cipher),
            digest |-> DigestOf(m.digest, m.macLength)]

(* A direction is what the answer said, or none.                           *)
LEMMA DirectionIsSaid ==
    ASSUME NEW m, NEW lzo
    PROVE  Direction(m, lzo) = NoDirection \/ Direction(m, lzo) = Said(m)
PROOF BY DEF Direction, Said

(* Likewise for the receiver itself, which reads LZO levels.               *)
LEMMA OwnDirectionIsSaid ==
    ASSUME NEW m
    PROVE  Direction(m, TRUE) = NoDirection \/ Direction(m, TRUE) = Said(m)
PROOF BY Zenon DEF Direction, Said

(* Numbers of a digest.                                                    *)
LEMMA DigestLength ==
    ASSUME NEW nid \in Int, NEW length \in Int
    PROVE  DigestOf(nid, length).length \in Int /\ DigestOf(nid, length).nid \in Int
PROOF
<1>1. MaximumLength(nid) \in Int
  BY DEF MaximumLength
<1>2. EffectiveLength(nid, length) \in Int
  BY <1>1 DEF EffectiveLength
<1> QED BY <1>2 DEF DigestOf, NoDigest

(* Encryption makes nothing shorter.                                       *)
LEMMA CipherLonger ==
    ASSUME NEW cipher, NEW len \in Nat
    PROVE  CipherLen(cipher, len) \in Int /\ CipherLen(cipher, len) >= len
PROOF
<1>1. (len \div 16 + 1) * 16 \in Int /\ (len \div 16 + 1) * 16 >= len
  OBVIOUS
<1> QED BY <1>1 DEF CipherLen, AesBlock

(* A datagram is as its direction makes it.                                *)
LEMMA Encoded ==
    ASSUME NEW o, o.digest.length \in Int, NEW seqno, NEW size \in Nat,
           NEW n \in CompressedLen(o.level, size)
    PROVE  MadeBy(Datagram(o, seqno, size, n), o)
PROOF
<1>1. n \in Nat
  BY DEF CompressedLen
<1>2. SeqnoLen + n \in Nat /\ SeqnoLen + n >= SeqnoLen /\ SeqnoLen \in Nat
  BY <1>1 DEF SeqnoLen
<1>3. PICK len : len = CipherLen(o.cipher, SeqnoLen + n)
  OBVIOUS
<1>4. len \in Int /\ len >= SeqnoLen
  BY <1>2, <1>3, CipherLonger
<1>5. PICK g : g = Datagram(o, seqno, size, n)
  OBVIOUS
<1>6. /\ g.key = o.key /\ g.cipher = o.cipher /\ g.digest = o.digest /\ g.level = o.level
      /\ g.len = len + o.digest.length
  BY <1>3, <1>5 DEF Datagram
<1> QED BY <1>2, <1>4, <1>5, <1>6 DEF MadeBy

(* What is made by a direction like the receiver's comes out as it was.    *)
LEMMA Opened ==
    ASSUME NEW in, NEW g, MadeBy(g, in)
    PROVE  Contents(in, g) = {"packet"} /\ SameFrame(in, g) /\ VerifiesDigest(in, g)
PROOF
<1>1. SameFrame(in, g)
  BY DEF SameFrame, MadeBy
<1>2. Decrypted(in, g) = {"frame"}
  BY <1>1 DEF Decrypted
<1>3. Uncompressed(in, g) = {"packet"}
  BY <1>2 DEF Uncompressed, MadeBy
<1>4. VerifiesDigest(in, g)
  <2>1. g.len >= in.digest.length
    BY DEF MadeBy, SeqnoLen
  <2> QED BY <2>1 DEF MadeBy, VerifiesDigest
<1>5. ~(g.len < SeqnoLen + in.digest.length)
  BY DEF MadeBy, SeqnoLen
<1> QED BY <1>1, <1>3, <1>4, <1>5 DEF Contents

(* A receiver that checks digests refuses what another key was used for.   *)
LEMMA Refused ==
    ASSUME NEW in, NEW g, in.digest.length \in Int, in.digest.length > 0, g.key # in.key
    PROVE  /\ Contents(in, g) = {"error"}
           /\ ~VerifiesDigest(in, g) /\ ~VerifiesSource(in, g)
PROOF
<1>1. ~VerifiesDigest(in, g)
  BY DEF VerifiesDigest
<1> QED BY <1>1 DEF Contents, VerifiesSource

-----------------------------------------------------------------------------
(* The steps.                                                              *)
(* There is no key and no datagram yet.                                    *)
LEMMA DatagramsInitially == DatagramInit => DatagramIInv
PROOF BY DEF DatagramInit, DatagramIInv, MadeKey

(* generate_legacy_answer_key_message                                      *)
LEMMA GenerateKeeps ==
    ASSUME KnownConfigurations, DatagramIInv, NEW s \in Settings, GenerateAnswer(s)
    PROVE  DatagramIInv'
PROOF
<1>1. keys \in Nat /\ keys' = keys + 1 /\ UNCHANGED <<outgoing, sentSeqno, datagram>>
  BY DEF GenerateAnswer, DatagramIInv
<1>2. \A d : MadeKey(d) /\ d # NoDirection => d.key \in 1 .. keys' /\ d.key # keys'
  BY <1>1 DEF MadeKey
<1>3. PICK m : m = AnswerKey(s, keys')
  OBVIOUS
<1>4. m.key = keys' /\ m.digest \in Int /\ m.macLength \in Int
  <2>1. s.digest \in Int /\ s.macLength \in Int
    BY DEF KnownConfigurations
  <2>2. OwnDigest(s).length \in Int /\ OwnDigest(s).nid \in Int
    BY <2>1, DigestLength DEF OwnDigest
  <2> QED BY <1>3, <2>2 DEF AnswerKey
<1>5. PICK in : in = Direction(m, TRUE)
  OBVIOUS
<1>6. IF in = NoDirection THEN UNCHANGED <<incoming, receivedSeqno, answer>>
      ELSE incoming' = in /\ receivedSeqno' = 0 /\ answer' = m
  BY <1>3, <1>5 DEF GenerateAnswer
<1>7. CASE in = NoDirection
  <2>1. UNCHANGED <<incoming, receivedSeqno, answer>>
    BY <1>6, <1>7
  <2>2. MadeKey(incoming)' /\ MadeKey(answer)' /\ MadeKey(outgoing)' /\ MadeKey(datagram)'
    BY <1>1, <1>2, <2>1 DEF DatagramIInv, MadeKey
  <2>3. incoming' # NoDirection => AnswerFits' /\ OutgoingFits' /\ DatagramFits'
    BY <1>1, <2>1 DEF DatagramIInv, AnswerFits, OutgoingFits, DatagramFits, HasKey, Checks
  <2> QED BY <1>1, <2>1, <2>2, <2>3 DEF DatagramIInv
<1>8. CASE in # NoDirection
  <2>1. incoming' = in /\ receivedSeqno' = 0 /\ answer' = m
    BY <1>6, <1>8
  <2>2. in = Said(m)
    BY <1>5, <1>8, OwnDirectionIsSaid
  <2>3. in.key = keys'
    BY <1>4, <2>2 DEF Said
  <2>4. outgoing # NoDirection => outgoing.key \in 1 .. keys' /\ outgoing.key # keys'
    BY <1>2 DEF DatagramIInv
  <2>5. datagram # NoDirection => datagram.key \in 1 .. keys' /\ datagram.key # keys'
    BY <1>2 DEF DatagramIInv
  <2>6. MadeKey(incoming)' /\ MadeKey(answer)' /\ MadeKey(outgoing)' /\ MadeKey(datagram)'
    BY <1>1, <1>4, <2>1, <2>3, <2>4, <2>5 DEF MadeKey
  <2>7. ~HasKey(outgoing)' /\ ~HasKey(datagram)'
    BY <1>1, <2>1, <2>3, <2>4, <2>5 DEF HasKey
  <2>8. Direction(answer, TRUE)' = incoming'
    BY <1>5, <2>1, Zenon
  <2>9. AnswerFits' /\ OutgoingFits' /\ DatagramFits'
    <3>1. receivedSeqno' = 0
      BY <2>1
    <3> QED BY <2>7, <2>8, <3>1, Zenon DEF AnswerFits, OutgoingFits, DatagramFits
  <2>10. incoming'.digest.length \in Int
    BY <1>4, <2>1, <2>2, DigestLength DEF Said
  <2>11. /\ keys' \in Nat /\ sentSeqno' \in Nat /\ receivedSeqno' \in Nat
         /\ answer' # NoDirection => answer'.digest \in Int /\ answer'.macLength \in Int
         /\ outgoing' # NoDirection => outgoing'.digest.length \in Int
         /\ datagram' # NoDirection => datagram'.seqno \in Nat
    BY <1>1, <1>4, <2>1 DEF DatagramIInv
  <2> QED BY <2>6, <2>9, <2>10, <2>11 DEF DatagramIInv
<1> QED BY <1>7, <1>8

(* An answer of another program has a key of its own.                      *)
LEMMA OtherAnswerKeeps ==
    ASSUME KnownConfigurations, DatagramIInv, NEW m \in ForeignAnswers, OtherAnswer(m)
    PROVE  DatagramIInv'
PROOF
<1>1. /\ keys \in Nat /\ keys' = keys + 1 /\ answer' = [m EXCEPT !.key = keys']
      /\ UNCHANGED <<incoming, receivedSeqno, outgoing, sentSeqno, datagram>>
  BY DEF OtherAnswer, DatagramIInv
<1>2. answer'.key = keys' /\ answer'.digest \in Int /\ answer'.macLength \in Int
  BY <1>1 DEF KnownConfigurations
<1>3. \A d : MadeKey(d) /\ d # NoDirection => d.key \in 1 .. keys' /\ d.key # keys'
  BY <1>1 DEF MadeKey
<1>4. MadeKey(incoming)' /\ MadeKey(outgoing)' /\ MadeKey(datagram)' /\ MadeKey(answer)'
  BY <1>1, <1>2, <1>3 DEF DatagramIInv, MadeKey
<1>5. incoming # NoDirection => ~HasKey(answer)'
  BY <1>1, <1>2, <1>3 DEF HasKey, DatagramIInv
<1>6. incoming # NoDirection => AnswerFits' /\ OutgoingFits' /\ DatagramFits'
  BY <1>1, <1>5 DEF DatagramIInv, AnswerFits, OutgoingFits, DatagramFits, HasKey, Checks
<1> QED BY <1>1, <1>2, <1>4, <1>6 DEF DatagramIInv

(* apply_legacy_answer_key: the numbers start again at both ends.          *)
LEMMA TakeKeeps ==
    ASSUME DatagramIInv, TakeAnswer
    PROVE  DatagramIInv'
PROOF
<1>1. /\ answer # NoDirection /\ answer' = NoDirection /\ sentSeqno' = 0
      /\ outgoing' = Direction(answer, SenderLzo)
      /\ UNCHANGED <<incoming, receivedSeqno, datagram, keys>>
  BY DEF TakeAnswer
<1>2. answer.key \in 1 .. keys /\ answer.digest \in Int /\ answer.macLength \in Int /\ keys \in Nat
  BY <1>1 DEF DatagramIInv, MadeKey
<1>3. outgoing' = NoDirection \/ outgoing' = Said(answer)
  BY <1>1, DirectionIsSaid
<1>4. outgoing' # NoDirection => outgoing'.key = answer.key /\ outgoing'.digest.length \in Int
  BY <1>2, <1>3, DigestLength DEF Said
<1>5. MadeKey(incoming)' /\ MadeKey(outgoing)' /\ MadeKey(datagram)' /\ MadeKey(answer)'
  BY <1>1, <1>2, <1>4 DEF DatagramIInv, MadeKey
<1>6. ASSUME incoming # NoDirection PROVE AnswerFits' /\ OutgoingFits' /\ DatagramFits'
  <2>1. AnswerFits /\ DatagramFits
    BY <1>6 DEF DatagramIInv
  <2>2. AnswerFits'
    BY <1>1, Zenon DEF AnswerFits, HasKey
  <2>3. DatagramFits'
    BY <1>1, <2>1 DEF DatagramFits, HasKey, Checks
  <2>4. ASSUME HasKey(outgoing)'
        PROVE  /\ outgoing' = incoming' /\ (Checks' => receivedSeqno' <= sentSeqno')
               /\ ~HasKey(datagram)'
    <3>1. HasKey(answer)
      BY <1>1, <1>4, <2>4 DEF HasKey
    <3>2. /\ Direction(answer, TRUE) = incoming
          /\ Checks => receivedSeqno = 0
          /\ ~HasKey(datagram)
      BY <2>1, <3>1, Zenon DEF AnswerFits
    <3>3. incoming = Said(answer)
      BY <1>6, <3>2, OwnDirectionIsSaid
    <3>4. outgoing' = incoming'
      BY <1>1, <1>3, <2>4, <3>3 DEF HasKey
    <3>5. Checks' => receivedSeqno' <= sentSeqno'
      BY <1>1, <3>2 DEF Checks
    <3>6. ~HasKey(datagram)'
      BY <1>1, <3>2 DEF HasKey
    <3> QED BY <3>4, <3>5, <3>6
  <2>5. OutgoingFits'
    BY <2>4, Zenon DEF OutgoingFits
  <2> QED BY <2>2, <2>3, <2>5
<1>7. /\ keys' \in Nat /\ sentSeqno' \in Nat /\ receivedSeqno' \in Nat
      /\ answer' # NoDirection => answer'.digest \in Int /\ answer'.macLength \in Int
      /\ outgoing' # NoDirection => outgoing'.digest.length \in Int
      /\ datagram' # NoDirection => datagram'.seqno \in Nat
  BY <1>1, <1>4 DEF DatagramIInv
<1> QED BY <1>1, <1>5, <1>6, <1>7 DEF DatagramIInv

(* LegacyUdpCodec::encode, with the next number.                           *)
LEMMA EncodeKeeps ==
    ASSUME KnownConfigurations, DatagramIInv, NEW size \in Sizes, EncodeDatagram(size)
    PROVE  DatagramIInv'
PROOF
<1>1. /\ outgoing # NoDirection /\ sentSeqno' = sentSeqno + 1 /\ sentSeqno \in Nat /\ size \in Nat
      /\ UNCHANGED <<incoming, receivedSeqno, outgoing, answer, keys>>
  BY DEF EncodeDatagram, DatagramIInv, KnownConfigurations
<1>2. PICK n \in CompressedLen(outgoing.level, size) :
         datagram' = Datagram(outgoing, sentSeqno', size, n)
  BY DEF EncodeDatagram
<1>3. outgoing.digest.length \in Int
  BY <1>1 DEF DatagramIInv
<1>4. MadeBy(datagram', outgoing)
  BY <1>1, <1>2, <1>3, Encoded
<1>5. datagram'.seqno = sentSeqno' /\ datagram'.key = outgoing.key
  BY <1>2 DEF Datagram
<1>6. MadeKey(incoming)' /\ MadeKey(outgoing)' /\ MadeKey(datagram)' /\ MadeKey(answer)'
  BY <1>1, <1>5 DEF DatagramIInv, MadeKey
<1>7. ASSUME incoming # NoDirection PROVE AnswerFits' /\ OutgoingFits' /\ DatagramFits'
  <2>1. AnswerFits /\ OutgoingFits /\ HasKey(outgoing)' = HasKey(outgoing)
    BY <1>1, <1>7 DEF DatagramIInv, HasKey
  <2>2. HasKey(datagram)' => HasKey(outgoing)
    BY <1>1, <1>5 DEF HasKey
  <2>3. AnswerFits'
    <3>1. HasKey(answer)' = HasKey(answer) /\ Checks' = Checks
      BY <1>1 DEF HasKey, Checks
    <3>2. Direction(answer, TRUE)' = Direction(answer, TRUE)
      BY <1>1, Zenon
    <3>3. incoming' = incoming /\ receivedSeqno' = receivedSeqno
      BY <1>1
    <3> QED BY <2>1, <2>2, <3>1, <3>2, <3>3, Zenon DEF AnswerFits
  <2>4. OutgoingFits'
    <3>1. Checks' = Checks
      BY <1>1 DEF Checks
    <3>2. receivedSeqno \in Nat
      BY DEF DatagramIInv
    <3> QED BY <1>1, <1>5, <2>1, <3>1, <3>2 DEF OutgoingFits
  <2>5. DatagramFits'
    <3>1. CASE ~HasKey(datagram)'
      BY <3>1, Zenon DEF DatagramFits
    <3>2. CASE HasKey(datagram)'
      <4>1. outgoing = incoming /\ (Checks => receivedSeqno <= sentSeqno)
        BY <2>1, <2>2, <3>2 DEF OutgoingFits
      <4>2. MadeBy(datagram', incoming')
        BY <1>1, <1>4, <4>1
      <4>3. Checks' => receivedSeqno' < datagram'.seqno
        <5>1. receivedSeqno \in Nat
          BY DEF DatagramIInv
        <5> QED BY <1>1, <1>5, <4>1, <5>1 DEF Checks
      <4> QED BY <4>2, <4>3 DEF DatagramFits, MadeBy
    <3> QED BY <3>1, <3>2
  <2> QED BY <2>3, <2>4, <2>5
<1> QED BY <1>1, <1>3, <1>5, <1>6, <1>7 DEF DatagramIInv

(* LegacyUdpCodec::decode: only a datagram of the same key moves the       *)
(* window of a receiver that checks.                                       *)
LEMMA DecodeKeeps ==
    ASSUME DatagramIInv, Decode
    PROVE  DatagramIInv'
PROOF
<1>1. /\ datagram # NoDirection /\ incoming # NoDirection /\ datagram' = NoDirection
      /\ UNCHANGED <<incoming, outgoing, answer, sentSeqno, keys>>
  BY DEF Decode
<1>2. PICK contents \in Contents(incoming, datagram) :
          receivedSeqno' \in
             IF contents = "noise" THEN 0 .. MaxSent
             ELSE {IF SameFrame(incoming, datagram) /\ VerifiesDigest(incoming, datagram)
                      /\ datagram.seqno > receivedSeqno
                   THEN datagram.seqno ELSE receivedSeqno}
  BY DEF Decode
<1>3. receivedSeqno \in Nat /\ datagram.seqno \in Nat
  BY <1>1 DEF DatagramIInv
<1>4. receivedSeqno' \in Nat
  <2>1. CASE contents = "noise"
    BY <1>2, <2>1
  <2>2. CASE contents # "noise"
    BY <1>2, <1>3, <2>2
  <2> QED BY <2>1, <2>2
<1>5. MadeKey(incoming)' /\ MadeKey(outgoing)' /\ MadeKey(datagram)' /\ MadeKey(answer)'
  BY <1>1 DEF DatagramIInv, MadeKey
<1>6. ~HasKey(datagram)'
  BY <1>1 DEF HasKey
<1>7. AnswerFits /\ OutgoingFits /\ DatagramFits
  BY <1>1 DEF DatagramIInv
<1>8. ASSUME Checks
      PROVE  receivedSeqno' = receivedSeqno \/ (HasKey(datagram) /\ receivedSeqno' = datagram.seqno)
  <2>1. CASE HasKey(datagram)
    <3>1. MadeBy(datagram, incoming)
      BY <1>7, <2>1 DEF DatagramFits
    <3>2. contents = "packet"
      BY <1>2, <3>1, Opened
    <3> QED BY <1>2, <2>1, <3>2
  <2>2. CASE ~HasKey(datagram)
    <3>1. datagram.key # incoming.key
      BY <1>1, <2>2 DEF HasKey
    <3>2. incoming.digest.length \in Int /\ incoming.digest.length > 0
      BY <1>1, <1>8 DEF DatagramIInv, Checks
    <3>3. contents = "error" /\ ~VerifiesDigest(incoming, datagram)
      BY <1>2, <3>1, <3>2, Refused
    <3> QED BY <1>2, <3>3
  <2> QED BY <2>1, <2>2
<1>9. /\ HasKey(answer)' = HasKey(answer) /\ HasKey(outgoing)' = HasKey(outgoing)
      /\ Checks' = Checks /\ incoming' = incoming /\ outgoing' = outgoing /\ sentSeqno' = sentSeqno
  BY <1>1 DEF HasKey, Checks
<1>10. AnswerFits'
  <2>1. Direction(answer, TRUE)' = Direction(answer, TRUE)
    BY <1>1, Zenon
  <2>2. HasKey(answer) /\ Checks => receivedSeqno' = 0
    BY <1>7, <1>8, Zenon DEF AnswerFits
  <2> QED BY <1>6, <1>7, <1>9, <2>1, <2>2, Zenon DEF AnswerFits
<1>11. OutgoingFits'
  <2>1. HasKey(outgoing) /\ Checks => receivedSeqno' <= sentSeqno
    BY <1>3, <1>7, <1>8 DEF OutgoingFits
  <2> QED BY <1>6, <1>7, <1>9, <2>1, Zenon DEF OutgoingFits
<1>12. DatagramFits'
  BY <1>6, Zenon DEF DatagramFits
<1> QED BY <1>1, <1>4, <1>5, <1>10, <1>11, <1>12 DEF DatagramIInv

(* Every step keeps the invariant.                                         *)
LEMMA DatagramStepsKeep ==
    ASSUME KnownConfigurations
    PROVE  DatagramIInv /\ [DatagramNext]_datagramVars => DatagramIInv'
PROOF
<1> SUFFICES ASSUME DatagramIInv, [DatagramNext]_datagramVars PROVE DatagramIInv'
  OBVIOUS
<1>1. CASE DatagramNext
  BY <1>1, GenerateKeeps, OtherAnswerKeeps, TakeKeeps, EncodeKeeps, DecodeKeeps DEF DatagramNext
<1>2. CASE UNCHANGED datagramVars
  <2>1. /\ Direction(answer, TRUE)' = Direction(answer, TRUE)
    BY <1>2, Zenon DEF datagramVars
  <2> QED BY <1>2, <2>1 DEF datagramVars, DatagramIInv, AnswerFits, OutgoingFits, DatagramFits, HasKey, Checks,
                     MadeKey
<1> QED BY <1>1, <1>2

(* In every state of the invariant datagrams fit.                          *)
LEMMA DatagramsThenFit == DatagramIInv => DatagramsFit
PROOF
<1> SUFFICES ASSUME DatagramIInv, incoming # NoDirection PROVE DatagramsFit
  BY Zenon DEF DatagramsFit, CurrentDatagramsOpen, OldDatagramsAreRefused, OwnAnswersAreTaken
<1>1. AnswerFits /\ DatagramFits
  BY DEF DatagramIInv
<1>2. CurrentDatagramsOpen
  BY <1>1, Opened DEF CurrentDatagramsOpen, DatagramFits, HasKey, Checks
<1>3. OldDatagramsAreRefused
  <2>1. incoming.digest.length \in Int
    BY DEF DatagramIInv
  <2> QED BY <2>1, Refused DEF OldDatagramsAreRefused
<1>4. OwnAnswersAreTaken
  BY <1>1, Zenon DEF OwnAnswersAreTaken, AnswerFits, HasKey
<1> QED BY <1>2, <1>3, <1>4 DEF DatagramsFit

(* DatagramsFit for all configurations of the receiver, all answers of     *)
(* other programs, all sizes of packets, with and without LZO, and any     *)
(* number of keys and datagrams.                                           *)
THEOREM LegacyDatagramsFit == DatagramInit /\ [][DatagramNext]_datagramVars => []DatagramsFit
PROOF
<1>1. DatagramInit => DatagramIInv
  BY DatagramsInitially
<1>2. DatagramIInv /\ [DatagramNext]_datagramVars => DatagramIInv'
  BY DatagramAssumption, DatagramStepsKeep
<1>3. DatagramIInv => DatagramsFit
  BY DatagramsThenFit
<1> QED BY <1>1, <1>2, <1>3, PTL

-----------------------------------------------------------------------------
(***************************************************************************)
(* Conversations on the control socket.                                    *)
(***************************************************************************)

(* Sequences, whatever is in them.                                         *)
IsSeq(s) == s \in Seq(ToSet(s))

(* What is known of the mesh: edges are between nodes.                     *)
View == [node : SUBSET Mesh, edge : SUBSET (Mesh \X Mesh), subnet : SUBSET Mesh, peer : SUBSET Mesh,
         traffic : [Mesh -> Nat]]
GoodView(v) == v \in View /\ Me \in v.node /\ v.edge \subseteq v.node \X v.node

(* Frames are numbered, and sent in parts one after the other: after g     *)
(* frames of those due come the parts of parts, of which the last is the  *)
(* last one due if all of them have been queued.                           *)
Cell(frame, part) == [frame |-> frame, part |-> part]
GoodFrames(frames) ==
    IsSeq(frames) /\ \A n \in DOMAIN frames : frames[n].number = n /\ frames[n].len \in Nat
IsPart(x, frames) == \E n \in DOMAIN frames : \E p \in 0 .. frames[n].len : x = Cell(frames[n], p)
FollowsCell(x, y, frames) ==
    IF x.part < x.frame.len THEN y = Cell(x.frame, x.part + 1)
    ELSE x.frame.number + 1 \in DOMAIN frames /\ y = Cell(frames[x.frame.number + 1], 0)
InParts(parts, g, frames) ==
    /\ IsSeq(parts) /\ \A i \in DOMAIN parts : IsPart(parts[i], frames)
    /\ parts # <<>> => g + 1 \in DOMAIN frames /\ parts[1] = Cell(frames[g + 1], 0)
    /\ \A i \in DOMAIN parts : i + 1 \in DOMAIN parts => FollowsCell(parts[i], parts[i + 1], frames)
AllQueued(parts, g, frames) ==
    IF parts = <<>> THEN g = Len(frames)
    ELSE frames # <<>> /\ parts[Len(parts)] = Cell(frames[Len(frames)], frames[Len(frames)].len)

(* The subscribers.                                                        *)
Rest(s) == SubSeq(s.outbound, s.offset + 1, Len(s.outbound))
GoodSubscriber(s) ==
    /\ DOMAIN s = {"client", "kind", "level", "snaplen", "outbound", "offset"}
    /\ s.client \in Client /\ s.kind \in {"log", "pcap"} /\ (s.kind = "pcap" => s.snaplen \in Nat)
    /\ IsSeq(s.outbound) /\ s.offset \in 0 .. Len(s.outbound)
GoodSubscribers(ss) ==
    /\ IsSeq(ss) /\ \A i \in DOMAIN ss : GoodSubscriber(ss[i])
    /\ \A i, j \in DOMAIN ss : ss[i].client = ss[j].client => i = j
Subscribed(c, ss) == \E i \in DOMAIN ss : ss[i].client = c
Waits(c, line) == \E i \in DOMAIN line : line[i] = c

(* A command that reports: the answers it has got, those it has not read,  *)
(* and the questions that are not answered, one after the other.           *)
Reported == {"nodes", "edges", "subnets", "traffic"}
Shown(known, req) ==
    IF req = "nodes" THEN {<<n, n \in Reachable(known.edge)>> : n \in known.node}
    ELSE IF req = "edges" THEN known.edge
    ELSE IF req = "subnets" THEN known.subnet
    ELSE {<<n, known.traffic[n]>> : n \in known.node}
IsReport(command) == command.name \in {"graph", "digraph", "info", "top"}
AsksSoFar(command, got) == IF command.name = "top" THEN Len(got) + 1 ELSE Len(command.requests)
GotFits(command, got, known) ==
    /\ Len(got) <= Len(command.requests)
    /\ \A i \in DOMAIN got : got[i] = Shown(known, command.requests[i].req)
ReportFits(command, got, answers, asks, known) ==
    /\ GotFits(command, got, known)
    /\ Len(got) + Len(answers) + Len(asks) = AsksSoFar(command, got)
    /\ AsksSoFar(command, got) <= Len(command.requests)
    /\ \A i \in DOMAIN answers :
          LET req == command.requests[Len(got) + i].req
          IN  answers[i].req = req /\ answers[i].data = Shown(known, req)
    /\ \A i \in DOMAIN asks : asks[i] = command.requests[Len(got) + Len(answers) + i]

(* Of one client: before it is known to the daemon, while it greets, while *)
(* it reports, while it subscribes, and when it has ended.                 *)
Untouched(c) ==
    /\ ~Waits(c, backlog) /\ talks # c /\ ~Subscribed(c, subscribers)
    /\ requests[c] = <<>> /\ socket[c] = <<>> /\ client[c].got = <<>> /\ due[c] = <<>>
Greets(c) ==
    /\ client[c].got = <<>> /\ due[c] = <<>> /\ ~Subscribed(c, subscribers)
    /\ Waits(c, backlog) => socket[c] = <<>>
    /\ talks = c => Len(socket[c]) = (IF heard THEN 2 ELSE 1) /\ view = moment[c]
    /\ Len(socket[c]) <= 2
    /\ Len(socket[c]) = 2 => client[c].at = "greeted" /\ requests[c] = <<>>
    /\ \/ requests[c] = <<>>
       \/ /\ client[c].at = "greeted"
          /\ requests[c] = <<[req |-> "id", arg |-> client[c].command.cookie]>>
Reports(c) ==
    /\ talks = c => view = moment[c]
    /\ ~Subscribed(c, subscribers)
    /\ ReportFits(client[c].command, client[c].got, socket[c], requests[c], moment[c])
Listens(c) ==
    /\ requests[c] # <<>> =>
          /\ requests[c] = client[c].command.requests
          /\ client[c].got = <<>> /\ due[c] = <<>> /\ socket[c] = <<>> /\ ~Subscribed(c, subscribers)
    /\ requests[c] = <<>> => talks # c
    /\ InParts(socket[c], Len(client[c].got), due[c])
    /\ \A i \in DOMAIN subscribers : subscribers[i].client = c =>
          LET parts == socket[c] \o Rest(subscribers[i])
          IN  InParts(parts, Len(client[c].got), due[c]) /\ AllQueued(parts, Len(client[c].got), due[c])
Hears(c) ==
    /\ Len(client[c].got) <= Len(due[c])
    /\ \A i \in DOMAIN client[c].got : client[c].got[i] = Frame(due[c][i])

ClientInv(c) ==
    /\ IsSeq(requests[c]) /\ IsSeq(socket[c]) /\ IsSeq(client[c].got) /\ GoodFrames(due[c])
    /\ \A i \in DOMAIN requests[c] : requests[c][i].req = "pcap" => requests[c][i].arg \in Nat
    /\ GoodView(moment[c])
    /\ client[c].at \in {"idle", "connected", "greeted", "answers", "done", "failed", "gone"}
    /\ DOMAIN client[c] = {"command", "at", "got"}
    /\ client[c].at # "idle" => client[c].command \in TincCommands
    /\ client[c].at = "idle" => Untouched(c)
    /\ client[c].at \in {"connected", "greeted"} => Greets(c)
    /\ client[c].at = "answers" =>
          /\ ~Waits(c, backlog) /\ (talks = c => heard)
          /\ IsReport(client[c].command) => Reports(c)
          /\ Subscribes(c) => Listens(c)
    /\ client[c].at = "done" /\ IsReport(client[c].command) =>
          /\ GotFits(client[c].command, client[c].got, moment[c])
          /\ Len(client[c].got) = Len(client[c].command.requests)
    /\ client[c].at # "idle" /\ Subscribes(c) => Hears(c)
    /\ c \in closed => IsGone(c) \/ daemon # "runs"
    /\ client[c].at = "done" /\ client[c].command.name = "stop" => daemon # "runs"

ServerInv ==
    /\ GoodView(view) /\ GoodSubscribers(subscribers)
    /\ IsSeq(backlog) /\ \A i \in DOMAIN backlog : backlog[i] \in Client
    /\ \A i, j \in DOMAIN backlog : backlog[i] = backlog[j] => i = j
    /\ talks \in Client \union {Nobody} /\ heard \in BOOLEAN
    /\ \A i \in DOMAIN backlog : backlog[i] # talks /\ ~Subscribed(backlog[i], subscribers)
    /\ ~Subscribed(talks, subscribers)
    /\ DOMAIN client = Client /\ DOMAIN requests = Client /\ DOMAIN socket = Client
    /\ DOMAIN moment = Client /\ DOMAIN due = Client

TalkInv == ServerInv /\ \A c \in Client : ClientInv(c)

-----------------------------------------------------------------------------
(* What sequences look like after the usual operations.                    *)
SeqLike(s, n) == IsSeq(s) /\ Len(s) = n /\ n \in Nat /\ DOMAIN s = 1 .. n

LEMMA SeqIs ==
    ASSUME NEW T, NEW s \in Seq(T)
    PROVE  SeqLike(s, Len(s))
<1>1. Len(s) \in Nat /\ DOMAIN s = 1 .. Len(s) /\ s \in [1 .. Len(s) -> T]
  BY LenProperties
<1>2. \A i \in 1 .. Len(s) : s[i] \in ToSet(s)
  BY <1>1 DEF ToSet
<1>3. s \in [1 .. Len(s) -> ToSet(s)]
  BY <1>1, <1>2
<1>4. s \in Seq(ToSet(s))
  BY <1>1, <1>3, SeqDef
<1> QED BY <1>1, <1>4 DEF SeqLike, IsSeq

LEMMA SeqFacts ==
    ASSUME NEW s, IsSeq(s)
    PROVE  SeqLike(s, Len(s)) /\ s = [i \in 1 .. Len(s) |-> s[i]]
<1>1. s \in Seq(ToSet(s))
  BY DEF IsSeq
<1>2. s \in [1 .. Len(s) -> ToSet(s)]
  BY <1>1, LenProperties
<1>3. s = [i \in 1 .. Len(s) |-> s[i]]
  BY <1>2
<1> QED BY <1>1, <1>3, SeqIs

LEMMA SameSeq ==
    ASSUME NEW s, NEW t, IsSeq(s), IsSeq(t), Len(s) = Len(t), \A i \in 1 .. Len(s) : s[i] = t[i]
    PROVE  s = t
<1>1. s = [i \in 1 .. Len(s) |-> s[i]] /\ t = [i \in 1 .. Len(t) |-> t[i]]
  BY SeqFacts
<1>2. [i \in 1 .. Len(s) |-> s[i]] = [i \in 1 .. Len(s) |-> t[i]]
  OBVIOUS
<1> QED BY <1>1, <1>2

LEMMA NoSeq ==
    ASSUME NEW s
    PROVE  /\ s = <<>> => SeqLike(s, 0)
           /\ IsSeq(s) => (s = <<>> <=> Len(s) = 0)
<1>1. PICK e : e = <<>>
  OBVIOUS
<1>2. e \in Seq({0}) /\ Len(e) = 0
  BY <1>1, EmptySeq
<1>3. SeqLike(e, 0)
  BY <1>2, SeqIs
<1>4. IsSeq(s) /\ Len(s) = 0 => s = e
  <2>1. IsSeq(e)
    BY <1>3 DEF SeqLike
  <2>2. IsSeq(s) /\ Len(s) = 0 => \A i \in 1 .. Len(s) : s[i] = e[i]
    OBVIOUS
  <2> QED BY <1>2, <2>1, <2>2, SameSeq
<1> QED BY <1>1, <1>2, <1>3, <1>4

(* Both in a set.                                                          *)
LEMMA SeqIn ==
    ASSUME NEW s, IsSeq(s), NEW T, ToSet(s) \subseteq T
    PROVE  s \in Seq(T)
<1>1. s \in [1 .. Len(s) -> ToSet(s)] /\ Len(s) \in Nat
  BY LenProperties DEF IsSeq
<1>2. s \in [1 .. Len(s) -> T]
  BY <1>1
<1> QED BY <1>1, <1>2, SeqDef

LEMMA OneSeq ==
    ASSUME NEW x
    PROVE  SeqLike(<<x>>, 1) /\ <<x>>[1] = x
<1>1. PICK s : s = <<x>>
  OBVIOUS
<1>2. s \in Seq({x}) /\ Len(s) = 1 /\ s[1] = x
  BY <1>1
<1>3. SeqLike(s, 1)
  BY <1>2, SeqIs
<1> QED BY <1>1, <1>2, <1>3

Appended(t, s, x) ==
    /\ SeqLike(t, Len(s) + 1) /\ t[Len(s) + 1] = x
    /\ Len(s) \in Nat /\ \A i \in 1 .. Len(s) : i \in 1 .. Len(s) + 1 /\ t[i] = s[i]
    /\ t # <<>>
LEMMA AppendIs ==
    ASSUME NEW s, IsSeq(s), NEW x
    PROVE  Appended(Append(s, x), s, x)
<1>1. PICK T : T = ToSet(s) \union {x}
  OBVIOUS
<1>2. s \in Seq(T) /\ x \in T
  BY <1>1, SeqIn
<1>3. PICK t : t = Append(s, x)
  OBVIOUS
<1>4. /\ t \in Seq(T) /\ Len(t) = Len(s) + 1 /\ t[Len(s) + 1] = x
      /\ \A i \in 1 .. Len(s) : t[i] = s[i]
  BY <1>2, <1>3, AppendProperties
<1>5. SeqLike(t, Len(t)) /\ SeqLike(s, Len(s))
  BY <1>4, SeqIs, SeqFacts
<1>6. Len(s) \in Nat /\ SeqLike(t, Len(s) + 1)
  BY <1>4, <1>5 DEF SeqLike
<1>7. \A i \in 1 .. Len(s) : i \in 1 .. Len(s) + 1
  BY <1>6
<1>8. t # <<>>
  BY <1>4, <1>6, NoSeq DEF SeqLike
<1> QED BY <1>3, <1>4, <1>6, <1>7, <1>8 DEF Appended

Cuts(t, s, m, n) ==
    /\ SeqLike(t, n - m + 1)
    /\ \A i \in 1 .. n - m + 1 : m + i - 1 \in 1 .. Len(s) /\ t[i] = s[m + i - 1]
LEMMA SubSeqIs ==
    ASSUME NEW s, IsSeq(s), NEW m \in Nat, NEW n \in Nat, 1 <= m, m <= n + 1, n <= Len(s)
    PROVE  Cuts(SubSeq(s, m, n), s, m, n)
<1>1. SeqLike(s, Len(s)) /\ s \in Seq(ToSet(s))
  BY SeqFacts DEF IsSeq
<1>2. Len(s) \in Nat /\ DOMAIN s = 1 .. Len(s)
  BY <1>1 DEF SeqLike
<1>3. \A i \in m .. n : s[i] \in ToSet(s)
  BY <1>2 DEF ToSet
<1>4. PICK t : t = SubSeq(s, m, n)
  OBVIOUS
<1>5. /\ t \in Seq(ToSet(s)) /\ Len(t) = IF m <= n THEN n - m + 1 ELSE 0
      /\ \A i \in 1 .. n - m + 1 : t[i] = s[m + i - 1]
  BY <1>3, <1>4, SubSeqProperties
<1>6. Len(t) = n - m + 1
  BY <1>5
<1>7. SeqLike(t, n - m + 1)
  BY <1>5, <1>6, SeqIs
<1>8. \A i \in 1 .. n - m + 1 : m + i - 1 \in 1 .. Len(s)
  BY <1>2
<1> QED BY <1>4, <1>5, <1>7, <1>8 DEF Cuts

Tailed(t, s) ==
    /\ Len(s) \in Nat /\ Len(s) >= 1 /\ SeqLike(t, Len(s) - 1) /\ Head(s) = s[1]
    /\ 1 \in DOMAIN s /\ DOMAIN s = 1 .. Len(s)
    /\ \A i \in 1 .. Len(s) - 1 : i + 1 \in 1 .. Len(s) /\ t[i] = s[i + 1]
LEMMA TailIs ==
    ASSUME NEW s, IsSeq(s), s # <<>>
    PROVE  Tailed(Tail(s), s)
<1>1. SeqLike(s, Len(s)) /\ s \in Seq(ToSet(s))
  BY SeqFacts DEF IsSeq
<1>2. Len(s) \in Nat /\ DOMAIN s = 1 .. Len(s) /\ Len(s) # 0
  BY <1>1, NoSeq DEF SeqLike, IsSeq
<1>3. Len(s) >= 1 /\ 1 \in DOMAIN s
  BY <1>2
<1>4. PICK t : t = Tail(s)
  OBVIOUS
<1>5. /\ Head(s) = s[1] /\ t \in Seq(ToSet(s)) /\ Len(t) = Len(s) - 1
      /\ \A i \in 1 .. Len(t) : t[i] = s[i + 1]
  BY <1>1, <1>4, HeadTailProperties
<1>6. SeqLike(t, Len(s) - 1)
  BY <1>5, SeqIs
<1>7. \A i \in 1 .. Len(s) - 1 : i + 1 \in 1 .. Len(s)
  BY <1>2
<1> QED BY <1>2, <1>3, <1>4, <1>5, <1>6, <1>7 DEF Tailed

Joined(u, s, t) ==
    /\ SeqLike(u, Len(s) + Len(t)) /\ SeqLike(s, Len(s)) /\ SeqLike(t, Len(t))
    /\ \A i \in 1 .. Len(s) : i \in 1 .. Len(s) + Len(t) /\ u[i] = s[i]
    /\ \A i \in 1 .. Len(t) : Len(s) + i \in 1 .. Len(s) + Len(t) /\ u[Len(s) + i] = t[i]
    /\ \A i \in 1 .. Len(s) + Len(t) : i \in 1 .. Len(s) \/ i - Len(s) \in 1 .. Len(t)
LEMMA JoinedIs ==
    ASSUME NEW s, NEW t, IsSeq(s), IsSeq(t)
    PROVE  Joined(s \o t, s, t)
<1>1. PICK T : T = ToSet(s) \union ToSet(t)
  OBVIOUS
<1>2. s \in Seq(T) /\ t \in Seq(T)
  BY <1>1, SeqIn
<1>3. PICK u : u = s \o t
  OBVIOUS
<1>4. /\ u \in Seq(T) /\ Len(u) = Len(s) + Len(t)
      /\ \A i \in 1 .. Len(s) + Len(t) : u[i] = IF i <= Len(s) THEN s[i] ELSE t[i - Len(s)]
  BY <1>2, <1>3, ConcatProperties
<1>5. SeqLike(u, Len(s) + Len(t)) /\ SeqLike(s, Len(s)) /\ SeqLike(t, Len(t))
  BY <1>2, <1>4, SeqIs
<1>6. PICK m : m = Len(s)
  OBVIOUS
<1>7. PICK n : n = Len(t)
  OBVIOUS
<1>8. m \in Nat /\ n \in Nat
  BY <1>5, <1>6, <1>7 DEF SeqLike
<1>9. \A i \in 1 .. m + n : u[i] = IF i <= m THEN s[i] ELSE t[i - m]
  BY <1>4, <1>6, <1>7
<1>10. \A i \in 1 .. m : i \in 1 .. m + n /\ u[i] = s[i]
  BY <1>8, <1>9
<1>11. \A i \in 1 .. n : m + i \in 1 .. m + n /\ u[m + i] = t[i]
  <2>1. SUFFICES ASSUME NEW i \in 1 .. n PROVE m + i \in 1 .. m + n /\ u[m + i] = t[i]
    OBVIOUS
  <2>2. m + i \in 1 .. m + n /\ ~(m + i <= m) /\ (m + i) - m = i
    BY <1>8
  <2> QED BY <1>9, <2>2
<1>12. \A i \in 1 .. m + n : i \in 1 .. m \/ i - m \in 1 .. n
  BY <1>8
<1> QED BY <1>3, <1>5, <1>6, <1>7, <1>10, <1>11, <1>12 DEF Joined

-----------------------------------------------------------------------------
(* Frames in parts.                                                        *)
LEMMA FrameIs ==
    ASSUME NEW f, f.len \in Nat
    PROVE  /\ SeqLike(Frame(f), f.len + 1) /\ \A i \in 1 .. f.len + 1 : Frame(f)[i] = Cell(f, i - 1)
           /\ Frame(f) # <<>>
<1>1. PICK n : n = f.len + 1
  OBVIOUS
<1>2. PICK s : s = Frame(f)
  OBVIOUS
<1>3. n \in Nat /\ s = [i \in 1 .. n |-> [frame |-> f, part |-> i - 1]]
  BY <1>1, <1>2 DEF Frame
<1>4. DOMAIN s = 1 .. n /\ \A i \in 1 .. n : s[i] = Cell(f, i - 1)
  BY <1>3 DEF Cell
<1>5. PICK T : T = {s[i] : i \in 1 .. n}
  OBVIOUS
<1>6. s \in [1 .. n -> T]
  BY <1>3, <1>5
<1>7. s \in Seq(T)
  BY <1>3, <1>6, SeqDef
<1>8. SeqLike(s, Len(s)) /\ Len(s) = n
  <2>1. SeqLike(s, Len(s))
    BY <1>7, SeqIs
  <2>2. Len(s) \in Nat /\ 1 .. Len(s) = 1 .. n
    BY <1>4, <2>1 DEF SeqLike
  <2>3. PICK m : m = Len(s)
    OBVIOUS
  <2>4. m \in Nat /\ 1 .. m = 1 .. n
    BY <2>2, <2>3
  <2>5. m = n
    BY <1>3, <2>4
  <2> QED BY <2>1, <2>3, <2>5
<1>9. s # <<>>
  <2>1. Len(s) # 0
    BY <1>1, <1>8
  <2> QED BY <1>8, <2>1, NoSeq DEF SeqLike
<1> QED BY <1>1, <1>2, <1>4, <1>8, <1>9

LEMMA PartFields ==
    ASSUME NEW frames, GoodFrames(frames), NEW x, IsPart(x, frames)
    PROVE  /\ x.frame.number \in DOMAIN frames /\ x.frame = frames[x.frame.number]
           /\ x.part \in 0 .. x.frame.len /\ x = Cell(x.frame, x.part) /\ x.frame.len \in Nat
<1>0. PICK n \in DOMAIN frames : \E p \in 0 .. frames[n].len : x = Cell(frames[n], p)
  BY DEF IsPart
<1>1. PICK p \in 0 .. frames[n].len : x = Cell(frames[n], p)
  BY <1>0
<1>2. frames[n].number = n /\ frames[n].len \in Nat
  BY DEF GoodFrames
<1>3. x.frame = frames[n] /\ x.part = p
  BY <1>1 DEF Cell
<1> QED BY <1>1, <1>2, <1>3

(* The beginning of what comes.                                            *)
LEMMA PartsBegin ==
    ASSUME NEW u, NEW s, NEW t, NEW g, NEW frames, Joined(u, s, t), InParts(u, g, frames)
    PROVE  InParts(s, g, frames)
<1>1. /\ SeqLike(s, Len(s)) /\ Len(s) \in Nat /\ DOMAIN s = 1 .. Len(s) /\ DOMAIN u = 1 .. Len(s) + Len(t)
      /\ \A i \in 1 .. Len(s) : i \in 1 .. Len(s) + Len(t) /\ u[i] = s[i]
  BY DEF Joined, SeqLike
<1>2. \A i \in DOMAIN s : IsPart(s[i], frames)
  BY <1>1 DEF InParts
<1>3. ASSUME s # <<>> PROVE g + 1 \in DOMAIN frames /\ s[1] = Cell(frames[g + 1], 0)
  <2>1. Len(s) # 0
    BY <1>1, <1>3, NoSeq DEF SeqLike
  <2>2. 1 \in 1 .. Len(s)
    BY <1>1, <2>1
  <2>3. SeqLike(u, Len(s) + Len(t)) /\ 1 \in 1 .. Len(s) + Len(t)
    BY <1>1, <2>2 DEF Joined
  <2>4. u # <<>>
    BY <2>3, NoSeq DEF SeqLike
  <2> QED BY <1>1, <2>2, <2>4 DEF InParts
<1>4. ASSUME NEW i \in DOMAIN s, i + 1 \in DOMAIN s PROVE FollowsCell(s[i], s[i + 1], frames)
  <2>1. i \in DOMAIN u /\ i + 1 \in DOMAIN u /\ u[i] = s[i] /\ u[i + 1] = s[i + 1]
    BY <1>1, <1>4
  <2> QED BY <2>1 DEF InParts
<1> QED BY <1>1, <1>2, <1>3, <1>4 DEF InParts, SeqLike

(* More frames are due.                                                    *)
LEMMA FramesGrow ==
    ASSUME NEW frames, GoodFrames(frames), NEW f, f.number = Len(frames) + 1, f.len \in Nat
    PROVE  GoodFrames(Append(frames, f))
<1>1. PICK more : more = Append(frames, f)
  OBVIOUS
<1>2. Appended(more, frames, f)
  BY <1>1, AppendIs DEF GoodFrames
<1>3. IsSeq(more) /\ DOMAIN more = 1 .. Len(frames) + 1 /\ Len(frames) \in Nat
  BY <1>2 DEF Appended, SeqLike
<1>4. DOMAIN frames = 1 .. Len(frames)
  BY SeqFacts DEF GoodFrames, SeqLike
<1>5. ASSUME NEW n \in DOMAIN more PROVE more[n].number = n /\ more[n].len \in Nat
  <2>1. CASE n = Len(frames) + 1
    BY <1>2, <2>1 DEF Appended
  <2>2. CASE n # Len(frames) + 1
    <3>1. n \in 1 .. Len(frames)
      BY <1>3, <2>2
    <3> QED BY <1>2, <1>4, <3>1 DEF Appended, GoodFrames
  <2> QED BY <2>1, <2>2
<1> QED BY <1>1, <1>3, <1>5 DEF GoodFrames

LEMMA PartsOfMore ==
    ASSUME NEW frames, GoodFrames(frames), NEW f, NEW parts, NEW g, InParts(parts, g, frames)
    PROVE  InParts(parts, g, Append(frames, f))
<1>1. PICK more : more = Append(frames, f)
  OBVIOUS
<1>2. Appended(more, frames, f)
  BY <1>1, AppendIs DEF GoodFrames
<1>3. DOMAIN frames = 1 .. Len(frames)
  BY SeqFacts DEF GoodFrames, SeqLike
<1>4. \A n \in DOMAIN frames : n \in DOMAIN more /\ more[n] = frames[n]
  BY <1>2, <1>3 DEF Appended, SeqLike
<1>5. \A i \in DOMAIN parts : IsPart(parts[i], more)
  <2>1. SUFFICES ASSUME NEW i \in DOMAIN parts PROVE IsPart(parts[i], more)
    OBVIOUS
  <2>2. IsPart(parts[i], frames)
    BY DEF InParts
  <2>3. PICK n \in DOMAIN frames : \E p \in 0 .. frames[n].len : parts[i] = Cell(frames[n], p)
    BY <2>2 DEF IsPart
  <2>4. n \in DOMAIN more /\ more[n] = frames[n]
    BY <1>4
  <2>5. \E p \in 0 .. more[n].len : parts[i] = Cell(more[n], p)
    BY <2>3, <2>4
  <2> QED BY <2>4, <2>5 DEF IsPart
<1>6. parts # <<>> => g + 1 \in DOMAIN more /\ parts[1] = Cell(more[g + 1], 0)
  BY <1>4 DEF InParts
<1>7. ASSUME NEW i \in DOMAIN parts, i + 1 \in DOMAIN parts PROVE FollowsCell(parts[i], parts[i + 1], more)
  <2>1. FollowsCell(parts[i], parts[i + 1], frames)
    BY <1>7 DEF InParts
  <2> QED BY <1>4, <2>1 DEF FollowsCell
<1> QED BY <1>1, <1>5, <1>6, <1>7 DEF InParts

LEMMA FrameQueued ==
    ASSUME NEW frames, GoodFrames(frames), NEW f, f.number = Len(frames) + 1, f.len \in Nat,
           NEW parts, NEW g \in Nat, InParts(parts, g, frames), AllQueued(parts, g, frames)
    PROVE  /\ InParts(parts \o Frame(f), g, Append(frames, f))
           /\ AllQueued(parts \o Frame(f), g, Append(frames, f))
<1>1. PICK more : more = Append(frames, f)
  OBVIOUS
<1>2. Appended(more, frames, f) /\ GoodFrames(more) /\ InParts(parts, g, more)
  BY <1>1, AppendIs, FramesGrow, PartsOfMore DEF GoodFrames
<1>3. PICK k : k = Len(frames)
  OBVIOUS
<1>4. /\ k \in Nat /\ DOMAIN more = 1 .. k + 1 /\ more[k + 1] = f /\ Len(more) = k + 1 /\ more # <<>>
      /\ f.number = k + 1
  BY <1>2, <1>3 DEF Appended, SeqLike
<1>5. DOMAIN frames = 1 .. k /\ \A n \in 1 .. k : more[n] = frames[n]
  BY <1>2, <1>3, SeqFacts DEF GoodFrames, SeqLike, Appended
<1>6. PICK t : t = Frame(f)
  OBVIOUS
<1>7. SeqLike(t, f.len + 1) /\ (\A i \in 1 .. f.len + 1 : t[i] = Cell(f, i - 1))
  BY <1>6, FrameIs
<1>8. PICK u : u = parts \o t
  OBVIOUS
<1>9. Joined(u, parts, t)
  BY <1>7, <1>8, JoinedIs DEF InParts, SeqLike
<1>10. PICK m : m = Len(parts)
  OBVIOUS
<1>11. PICK l : l = f.len
  OBVIOUS
<1>12. /\ l \in Nat /\ Len(t) = l + 1 /\ m \in Nat /\ IsSeq(u) /\ DOMAIN u = 1 .. m + (l + 1)
       /\ DOMAIN parts = 1 .. m /\ Len(u) = m + (l + 1)
       /\ \A i \in 1 .. m : i \in 1 .. m + (l + 1) /\ u[i] = parts[i]
       /\ \A i \in 1 .. l + 1 : m + i \in 1 .. m + (l + 1) /\ u[m + i] = t[i]
       /\ \A i \in 1 .. m + (l + 1) : i \in 1 .. m \/ i - m \in 1 .. l + 1
  BY <1>7, <1>9, <1>10, <1>11 DEF Joined, SeqLike
<1>13. \A i \in 1 .. l + 1 : u[m + i] = Cell(f, i - 1) /\ i - 1 \in 0 .. l
  BY <1>7, <1>11, <1>12
<1>14. ASSUME NEW i \in DOMAIN u PROVE IsPart(u[i], more)
  <2>1. CASE i \in 1 .. m
    BY <1>2, <1>12, <2>1 DEF InParts
  <2>2. CASE i - m \in 1 .. l + 1
    <3>1. PICK j : j = i - m
      OBVIOUS
    <3>2. m + j = i /\ j \in 1 .. l + 1
      BY <1>12, <2>2, <3>1
    <3>3. u[i] = Cell(f, j - 1) /\ j - 1 \in 0 .. l
      BY <1>13, <3>2
    <3>4. k + 1 \in DOMAIN more /\ more[k + 1] = f
      BY <1>4
    <3> QED BY <1>11, <3>3, <3>4 DEF IsPart
  <2> QED BY <1>12, <2>1, <2>2
<1>15. u[m + 1] = Cell(f, 0)
  BY <1>13, <1>12
<1>16. g + 1 \in DOMAIN more /\ u[1] = Cell(more[g + 1], 0)
  <2>1. CASE parts = <<>>
    <3>1. g = k /\ m = 0
      BY <1>3, <1>10, <2>1, NoSeq DEF AllQueued, SeqLike
    <3>2. u[1] = Cell(f, 0)
      BY <1>15, <3>1
    <3> QED BY <1>4, <3>1, <3>2
  <2>2. CASE parts # <<>>
    <3>1. g + 1 \in DOMAIN more /\ parts[1] = Cell(more[g + 1], 0)
      BY <1>2, <2>2 DEF InParts
    <3>2. m # 0
      BY <1>2, <1>10, <2>2, NoSeq DEF InParts
    <3>3. 1 \in 1 .. m
      BY <1>12, <3>2
    <3> QED BY <1>12, <3>1, <3>3
  <2> QED BY <2>1, <2>2
<1>17. ASSUME NEW i \in DOMAIN u, i + 1 \in DOMAIN u PROVE FollowsCell(u[i], u[i + 1], more)
  <2>1. i \in Int /\ m \in Int /\ i \in 1 .. m + (l + 1) /\ i + 1 \in 1 .. m + (l + 1)
    BY <1>12, <1>17
  <2>2. CASE i < m
    <3>1. i \in 1 .. m /\ i + 1 \in 1 .. m
      BY <1>12, <2>1, <2>2
    <3>2. FollowsCell(parts[i], parts[i + 1], more)
      BY <1>2, <1>12, <3>1 DEF InParts
    <3> QED BY <1>12, <3>1, <3>2
  <2>3. CASE i = m
    <3>1. m \in 1 .. m /\ m # 0
      BY <2>1, <2>3
    <3>2. parts # <<>>
      BY <1>2, <1>10, <3>1, NoSeq DEF InParts
    <3>3. u[i] = Cell(frames[k], frames[k].len) /\ frames # <<>>
      BY <1>3, <1>10, <1>12, <2>3, <3>1, <3>2 DEF AllQueued
    <3>4. k # 0
      BY <1>3, <3>3, NoSeq DEF GoodFrames
    <3>5. k \in DOMAIN frames
      BY <1>4, <1>5, <3>4
    <3>6. frames[k].number = k /\ frames[k].len \in Nat
      BY <3>5 DEF GoodFrames
    <3>7. u[i + 1] = Cell(more[k + 1], 0)
      BY <1>4, <1>15, <2>3
    <3>8. u[i].frame = frames[k] /\ u[i].part = frames[k].len
      BY <3>3 DEF Cell
    <3>9. ~(u[i].part < u[i].frame.len) /\ u[i].frame.number + 1 = k + 1 /\ k + 1 \in DOMAIN more
      BY <1>4, <3>6, <3>8
    <3> QED BY <3>7, <3>9 DEF FollowsCell
  <2>4. CASE i > m
    <3>1. PICK j : j = i - m
      OBVIOUS
    <3>2. m + j = i /\ j \in 1 .. l + 1 /\ j + 1 \in 1 .. l + 1 /\ m + (j + 1) = i + 1
      BY <1>12, <2>1, <2>4, <3>1
    <3>3. u[i] = Cell(f, j - 1) /\ u[i + 1] = Cell(f, (j + 1) - 1)
      BY <1>13, <3>2
    <3>4. (j + 1) - 1 = (j - 1) + 1 /\ j - 1 < l
      BY <1>12, <3>2
    <3>5. u[i].frame = f /\ u[i].part = j - 1
      BY <3>3 DEF Cell
    <3> QED BY <1>11, <3>3, <3>4, <3>5 DEF FollowsCell
  <2> QED BY <2>1, <2>2, <2>3, <2>4
<1>18. InParts(u, g, more)
  BY <1>12, <1>14, <1>16, <1>17 DEF InParts
<1>19. AllQueued(u, g, more)
  <2>1. l + 1 \in 1 .. l + 1 /\ (l + 1) - 1 = l
    BY <1>12
  <2>2. u[Len(u)] = Cell(more[Len(more)], more[Len(more)].len)
    BY <1>4, <1>11, <1>12, <1>13, <2>1
  <2>3. Len(u) # 0
    BY <1>12
  <2>4. u # <<>>
    BY <1>12, <2>3, NoSeq
  <2> QED BY <1>4, <2>2, <2>4 DEF AllQueued
<1> QED BY <1>1, <1>6, <1>8, <1>18, <1>19

-----------------------------------------------------------------------------
(* Which nodes can be reached.                                             *)
Near(edge, near) == near \union {b \in Mesh : \E a \in near : {<<a, b>>, <<b, a>>} \subseteq edge}
Spreads(f, edge, N) ==
    /\ f = [n \in 0 .. N |-> f[n]] /\ f[0] = {Me}
    /\ \A n \in 0 .. N : n # 0 => f[n] = Near(edge, f[n - 1])

LEMMA SpreadExists ==
    ASSUME NEW edge, NEW M \in Nat
    PROVE  \E f : Spreads(f, edge, M)
<1> DEFINE K == {N \in Nat : \E f : Spreads(f, edge, N)}
<1>1. 0 \in K
  <2>1. PICK f : f = [n \in 0 .. 0 |-> {Me}]
    OBVIOUS
  <2>2. f = [n \in 0 .. 0 |-> f[n]] /\ f[0] = {Me} /\ \A n \in 0 .. 0 : n = 0
    BY <2>1
  <2>3. Spreads(f, edge, 0)
    BY <2>2 DEF Spreads
  <2> QED BY <2>3
<1>2. ASSUME NEW N \in Nat, N \in K PROVE N + 1 \in K
  <2>1. PICK f : Spreads(f, edge, N)
    BY <1>2
  <2>2. PICK x : x = Near(edge, f[N])
    OBVIOUS
  <2>3. PICK g : g = [n \in 0 .. N + 1 |-> IF n <= N THEN f[n] ELSE x]
    OBVIOUS
  <2>4. DOMAIN g = 0 .. N + 1 /\ \A n \in 0 .. N : n \in 0 .. N + 1 /\ g[n] = f[n]
    BY <2>3
  <2>5. g[N + 1] = x
    BY <2>3
  <2>6. g[0] = {Me}
    BY <2>1, <2>4 DEF Spreads
  <2>7. ASSUME NEW n \in 0 .. N + 1, n # 0 PROVE g[n] = Near(edge, g[n - 1])
    <3>1. n - 1 \in 0 .. N
      BY <2>7
    <3>2. g[n - 1] = f[n - 1]
      BY <2>4, <3>1
    <3>3. CASE n = N + 1
      <4>1. n - 1 = N
        BY <3>3
      <4> QED BY <2>2, <2>5, <3>2, <3>3, <4>1
    <3>4. CASE n # N + 1
      <4>1. n \in 0 .. N
        BY <3>4
      <4>2. f[n] = Near(edge, f[n - 1])
        BY <2>1, <2>7, <4>1 DEF Spreads
      <4> QED BY <2>4, <3>2, <4>1, <4>2
    <3> QED BY <3>3, <3>4
  <2>8. g = [n \in 0 .. N + 1 |-> g[n]]
    BY <2>3
  <2>9. Spreads(g, edge, N + 1)
    BY <2>8, <2>6, <2>7 DEF Spreads
  <2> QED BY <2>9
<1>3. Nat \subseteq K
  <2> HIDE DEF K
  <2> QED BY <1>1, <1>2, Induct
<1> QED BY <1>3

IsReached(R, edge) ==
    /\ Me \in R /\ R \subseteq Mesh
    /\ \A x \in R : x # Me => \E a \in Mesh : <<a, x>> \in edge /\ <<x, a>> \in edge

LEMMA ReachableIs ==
    ASSUME NEW edge
    PROVE  IsReached(Reachable(edge), edge)
<1> DEFINE Body(g) == [n \in 0 .. Cardinality(Mesh) |->
                         IF n = 0 THEN {Me}
                         ELSE g[n - 1] \union {b \in Mesh : \E a \in g[n - 1] : {<<a, b>>, <<b, a>>} \subseteq edge}]
<1>1. PICK M : M = Cardinality(Mesh)
  OBVIOUS
<1>2. M \in Nat
  BY <1>1, TalkAssumption, FS_CardinalityType
<1>3. PICK f : Spreads(f, edge, M)
  BY <1>2, SpreadExists
<1>4. f = Body(f)
  <2>1. f = [n \in 0 .. M |-> f[n]] /\ f[0] = {Me}
    BY <1>3 DEF Spreads
  <2>2. ASSUME NEW n \in 0 .. M, n # 0
        PROVE  f[n] = f[n - 1] \union {b \in Mesh : \E a \in f[n - 1] : {<<a, b>>, <<b, a>>} \subseteq edge}
    <3>1. f[n] = Near(edge, f[n - 1])
      BY <1>3, <2>2 DEF Spreads
    <3> QED BY <3>1, Zenon DEF Near
  <2>3. [n \in 0 .. M |-> f[n]] = Body(f)
    BY <1>1, <2>1, <2>2, Zenon
  <2> QED BY <2>1, <2>3, Zenon
<1>5. PICK g : g = CHOOSE h : h = Body(h)
  OBVIOUS
<1>6. g = Body(g)
  <2> HIDE DEF Body
  <2>1. \E h : h = Body(h)
    BY <1>4, Zenon
  <2> QED BY <2>1, <1>5, Zenon
<1>7. Reachable(edge) = g[M]
  BY <1>1, <1>5, Zenon DEF Reachable
<1>8. g[0] = {Me}
  <2>1. 0 \in 0 .. Cardinality(Mesh)
    BY <1>1, <1>2
  <2> QED BY <1>6, <2>1, Zenon
<1>9. ASSUME NEW n \in 0 .. M, n # 0 PROVE g[n] = Near(edge, g[n - 1])
  BY <1>1, <1>6, <1>9, Zenon DEF Near
<1>10. \A n \in 0 .. M : IsReached(g[n], edge)
  <2> HIDE DEF Body
  <2> DEFINE K == {n \in Nat : n <= M => IsReached(g[n], edge)}
  <2>1. 0 \in K
    <3>1. IsReached({Me}, edge)
      BY TalkAssumption DEF IsReached
    <3> QED BY <1>8, <3>1
  <2>2. ASSUME NEW n \in Nat, n \in K PROVE n + 1 \in K
    <3>1. SUFFICES ASSUME n + 1 <= M PROVE IsReached(g[n + 1], edge)
      OBVIOUS
    <3>2. n + 1 \in 0 .. M /\ n + 1 # 0 /\ (n + 1) - 1 = n /\ n <= M
      BY <1>2, <3>1
    <3>3. IsReached(g[n], edge) /\ g[n + 1] = Near(edge, g[n])
      BY <1>9, <2>2, <3>2
    <3>4. PICK r : r = g[n]
      OBVIOUS
    <3>5. IsReached(r, edge) /\ g[n + 1] = Near(edge, r)
      BY <3>3, <3>4
    <3>6. IsReached(Near(edge, r), edge)
      BY <3>5 DEF IsReached, Near
    <3> QED BY <3>5, <3>6
  <2>3. Nat \subseteq K
    <3> HIDE DEF K
    <3> QED BY <2>1, <2>2, Induct
  <2> QED BY <1>2, <2>3
<1> QED BY <1>2, <1>7, <1>10

(* The first frame of what comes, and what comes after it.                 *)
LEMMA FirstFrame ==
    ASSUME NEW frames, GoodFrames(frames), NEW parts, NEW g \in Nat, InParts(parts, g, frames), parts # <<>>
    PROVE  /\ g + 1 \in DOMAIN frames /\ Head(parts) = parts[1]
           /\ frames[g + 1].len \in Nat /\ frames[g + 1].number = g + 1
           /\ parts[1].frame = frames[g + 1] /\ parts[1].part = 0
           /\ \A j \in 0 .. frames[g + 1].len :
                 Len(parts) > frames[g + 1].len =>
                    j + 1 \in DOMAIN parts /\ parts[j + 1] = Cell(frames[g + 1], j)
<1>1. g + 1 \in DOMAIN frames /\ parts[1] = Cell(frames[g + 1], 0)
  BY DEF InParts
<1>2. PICK f : f = frames[g + 1]
  OBVIOUS
<1>3. PICK l : l = f.len
  OBVIOUS
<1>4. f.number = g + 1 /\ l \in Nat /\ parts[1].frame = f /\ parts[1].part = 0
  BY <1>1, <1>2, <1>3 DEF GoodFrames, Cell
<1>5. Head(parts) = parts[1]
  BY TailIs DEF Tailed, InParts
<1>6. DOMAIN parts = 1 .. Len(parts) /\ Len(parts) \in Nat
  BY SeqFacts DEF InParts, SeqLike
<1>7. ASSUME Len(parts) > l PROVE \A j \in 0 .. l : j + 1 \in DOMAIN parts /\ parts[j + 1] = Cell(f, j)
  <2> DEFINE S == {j \in Nat : j <= l => parts[j + 1] = Cell(f, j)}
  <2>1. 0 \in S
    BY <1>1, <1>2
  <2>2. ASSUME NEW j \in Nat, j \in S PROVE j + 1 \in S
    <3>1. SUFFICES ASSUME j + 1 <= l PROVE parts[(j + 1) + 1] = Cell(f, j + 1)
      OBVIOUS
    <3>2. j <= l /\ j + 1 \in 1 .. Len(parts) /\ (j + 1) + 1 \in 1 .. Len(parts) /\ j < l
      BY <1>4, <1>6, <1>7, <3>1
    <3>3. parts[j + 1] = Cell(f, j)
      BY <2>2, <3>2
    <3>4. FollowsCell(parts[j + 1], parts[(j + 1) + 1], frames)
      BY <1>6, <3>2 DEF InParts
    <3>5. parts[j + 1].part = j /\ parts[j + 1].frame = f
      BY <3>3 DEF Cell
    <3> QED BY <1>3, <3>2, <3>4, <3>5 DEF FollowsCell
  <2>3. Nat \subseteq S
    <3> HIDE DEF S
    <3> QED BY <2>1, <2>2, Induct
  <2>4. \A j \in 0 .. l : j \in Nat /\ j <= l /\ j + 1 \in DOMAIN parts
    BY <1>4, <1>6, <1>7
  <2> QED BY <2>3, <2>4
<1> QED BY <1>1, <1>2, <1>3, <1>4, <1>5, <1>7

LEMMA FrameIsRead ==
    ASSUME NEW frames, GoodFrames(frames), NEW parts, NEW g \in Nat, InParts(parts, g, frames), parts # <<>>,
           Len(parts) > frames[g + 1].len
    PROVE  <<Head(parts)>> \o SubSeq(parts, 2, frames[g + 1].len + 1) = Frame(frames[g + 1])
<1>1. PICK f : f = frames[g + 1]
  OBVIOUS
<1>2. PICK l : l = f.len
  OBVIOUS
<1>3. /\ l \in Nat /\ Head(parts) = parts[1] /\ Len(parts) > l
      /\ \A j \in 0 .. l : j + 1 \in DOMAIN parts /\ parts[j + 1] = Cell(f, j)
  BY <1>1, <1>2, FirstFrame
<1>4. IsSeq(parts) /\ Len(parts) \in Nat
  BY SeqFacts DEF InParts, SeqLike
<1>5. PICK b : b = SubSeq(parts, 2, l + 1)
  OBVIOUS
<1>6. 2 \in Nat /\ l + 1 \in Nat /\ 1 <= 2 /\ 2 <= (l + 1) + 1 /\ l + 1 <= Len(parts)
  BY <1>3, <1>4
<1>7. Cuts(b, parts, 2, l + 1)
  BY <1>4, <1>5, <1>6, SubSeqIs
<1>8. SeqLike(b, l) /\ \A i \in 1 .. l : b[i] = Cell(f, i)
  <2>1. (l + 1) - 2 + 1 = l
    BY <1>3
  <2>2. SeqLike(b, l) /\ \A i \in 1 .. l : b[i] = parts[2 + i - 1]
    BY <1>7, <2>1 DEF Cuts
  <2>3. \A i \in 1 .. l : 2 + i - 1 = i + 1 /\ i \in 0 .. l
    BY <1>3
  <2> QED BY <1>3, <2>2, <2>3
<1>9. PICK a : a = <<Head(parts)>>
  OBVIOUS
<1>10. SeqLike(a, 1) /\ a[1] = Cell(f, 0)
  <2>1. 0 \in 0 .. l /\ 0 + 1 = 1
    BY <1>3
  <2> QED BY <1>3, <1>9, <2>1, OneSeq
<1>11. PICK u : u = a \o b
  OBVIOUS
<1>12. Joined(u, a, b)
  BY <1>8, <1>10, <1>11, JoinedIs DEF SeqLike
<1>13. Len(a) = 1 /\ Len(b) = l
  BY <1>8, <1>10 DEF SeqLike
<1>14. /\ SeqLike(u, 1 + l) /\ u[1] = a[1]
       /\ \A i \in 1 .. l : u[1 + i] = b[i]
  BY <1>12, <1>13 DEF Joined
<1>15. \A i \in 1 .. 1 + l : u[i] = Cell(f, i - 1)
  <2>1. SUFFICES ASSUME NEW i \in 1 .. 1 + l PROVE u[i] = Cell(f, i - 1)
    OBVIOUS
  <2>2. CASE i = 1
    BY <1>10, <1>14, <2>2
  <2>3. CASE i # 1
    <3>1. i - 1 \in 1 .. l /\ 1 + (i - 1) = i
      BY <1>3, <2>3
    <3> QED BY <1>8, <1>14, <3>1
  <2> QED BY <2>2, <2>3
<1>16. PICK t : t = Frame(f)
  OBVIOUS
<1>17. SeqLike(t, l + 1) /\ \A i \in 1 .. l + 1 : t[i] = Cell(f, i - 1)
  BY <1>2, <1>3, <1>16, FrameIs
<1>18. l + 1 = 1 + l
  BY <1>3
<1>19. IsSeq(u) /\ IsSeq(t) /\ Len(u) = 1 + l /\ Len(t) = 1 + l
  BY <1>14, <1>17, <1>18 DEF SeqLike
<1>20. u = t
  BY <1>15, <1>17, <1>18, <1>19, SameSeq
<1> QED BY <1>1, <1>2, <1>5, <1>9, <1>11, <1>16, <1>20

LEMMA NextFrames ==
    ASSUME NEW frames, GoodFrames(frames), NEW parts, NEW g \in Nat, InParts(parts, g, frames), parts # <<>>,
           Len(parts) > frames[g + 1].len, NEW t, t = SubSeq(parts, frames[g + 1].len + 2, Len(parts))
    PROVE  /\ InParts(t, g + 1, frames)
           /\ AllQueued(parts, g, frames) => AllQueued(t, g + 1, frames)
<1>1. PICK f : f = frames[g + 1]
  OBVIOUS
<1>2. PICK l : l = f.len
  OBVIOUS
<1>3. /\ l \in Nat /\ Len(parts) > l /\ f.number = g + 1 /\ g + 1 \in DOMAIN frames
      /\ \A j \in 0 .. l : j + 1 \in DOMAIN parts /\ parts[j + 1] = Cell(f, j)
  BY <1>1, <1>2, FirstFrame
<1>4. PICK n : n = Len(parts)
  OBVIOUS
<1>5. IsSeq(parts) /\ n \in Nat /\ DOMAIN parts = 1 .. n
  BY <1>4, SeqFacts DEF InParts, SeqLike
<1>6. l + 2 \in Nat /\ 1 <= l + 2 /\ l + 2 <= n + 1 /\ n <= n
  BY <1>3, <1>4, <1>5
<1>7. t = SubSeq(parts, l + 2, n)
  BY <1>1, <1>2, <1>4
<1>8. Cuts(t, parts, l + 2, n)
  BY <1>4, <1>5, <1>6, <1>7, SubSeqIs
<1>9. n - (l + 2) + 1 = n - (l + 1) /\ n - (l + 1) \in Nat
  BY <1>3, <1>4, <1>5
<1>10. PICK m : m = n - (l + 1)
  OBVIOUS
<1>11. m \in Nat /\ SeqLike(t, m)
  BY <1>8, <1>9, <1>10 DEF Cuts
<1>12. \A i \in 1 .. m : (l + 1) + i \in 1 .. n /\ t[i] = parts[(l + 1) + i]
  <2>1. SUFFICES ASSUME NEW i \in 1 .. m PROVE (l + 1) + i \in 1 .. n /\ t[i] = parts[(l + 1) + i]
    OBVIOUS
  <2>2. (l + 2) + i - 1 = (l + 1) + i
    BY <1>3
  <2>3. i \in 1 .. n - (l + 2) + 1
    BY <1>9, <1>10
  <2> QED BY <1>4, <1>8, <2>2, <2>3 DEF Cuts
<1>13. DOMAIN t = 1 .. m /\ IsSeq(t) /\ Len(t) = m
  BY <1>11 DEF SeqLike
<1>14. \A i \in DOMAIN t : IsPart(t[i], frames)
  BY <1>5, <1>12, <1>13 DEF InParts
<1>15. parts[l + 1] = Cell(f, l) /\ l + 1 \in DOMAIN parts
  BY <1>3
<1>16. ASSUME t # <<>> PROVE (g + 1) + 1 \in DOMAIN frames /\ t[1] = Cell(frames[(g + 1) + 1], 0)
  <2>1. m # 0
    BY <1>13, <1>16, NoSeq
  <2>2. 1 \in 1 .. m
    BY <1>11, <2>1
  <2>3. t[1] = parts[(l + 1) + 1] /\ (l + 1) + 1 \in DOMAIN parts
    BY <1>5, <1>12, <2>2
  <2>4. FollowsCell(parts[l + 1], parts[(l + 1) + 1], frames)
    BY <1>15, <2>3 DEF InParts
  <2>5. parts[l + 1].frame = f /\ ~(parts[l + 1].part < parts[l + 1].frame.len)
    BY <1>2, <1>3, <1>15 DEF Cell
  <2> QED BY <1>3, <2>3, <2>4, <2>5 DEF FollowsCell
<1>17. ASSUME NEW i \in DOMAIN t, i + 1 \in DOMAIN t PROVE FollowsCell(t[i], t[i + 1], frames)
  <2>1. i \in Int /\ ((l + 1) + i) + 1 = (l + 1) + (i + 1)
    BY <1>3, <1>13
  <2>2. t[i] = parts[(l + 1) + i] /\ t[i + 1] = parts[((l + 1) + i) + 1]
    BY <1>12, <1>13, <1>17, <2>1
  <2>3. (l + 1) + i \in DOMAIN parts /\ ((l + 1) + i) + 1 \in DOMAIN parts
    BY <1>5, <1>12, <1>13, <1>17, <2>1
  <2> QED BY <2>2, <2>3 DEF InParts
<1>18. InParts(t, g + 1, frames)
  BY <1>13, <1>14, <1>16, <1>17 DEF InParts
<1>19. ASSUME AllQueued(parts, g, frames) PROVE AllQueued(t, g + 1, frames)
  <2>1. frames # <<>> /\ parts[n] = Cell(frames[Len(frames)], frames[Len(frames)].len)
    BY <1>4, <1>19 DEF AllQueued
  <2>2. CASE t = <<>>
    <3>1. m = 0
      BY <1>13, <2>2, NoSeq
    <3>2. n = l + 1
      BY <1>3, <1>5, <1>10, <3>1
    <3>3. f = frames[Len(frames)]
      BY <1>15, <2>1, <3>2 DEF Cell
    <3>4. Len(frames) \in DOMAIN frames
      <4>1. Len(frames) \in Nat /\ Len(frames) # 0 /\ DOMAIN frames = 1 .. Len(frames)
        BY <2>1, NoSeq, SeqFacts DEF GoodFrames, SeqLike
      <4> QED BY <4>1
    <3>5. Len(frames) = g + 1
      BY <1>3, <3>3, <3>4 DEF GoodFrames
    <3> QED BY <2>2, <3>5 DEF AllQueued
  <2>3. CASE t # <<>>
    <3>1. m # 0
      BY <1>13, <2>3, NoSeq
    <3>2. m \in 1 .. m
      BY <1>11, <3>1
    <3>3. t[m] = parts[(l + 1) + m] /\ (l + 1) + m = n
      <4>1. (l + 1) + m = n
        BY <1>3, <1>5, <1>10
      <4> QED BY <1>12, <3>2, <4>1
    <3> QED BY <1>13, <2>1, <2>3, <3>3 DEF AllQueued
  <2> QED BY <2>2, <2>3
<1> QED BY <1>18, <1>19

-----------------------------------------------------------------------------
(* The commands.                                                           *)
ShapeOf(k) ==
    /\ IsSeq(k.requests) /\ Len(k.requests) \in Nat /\ DOMAIN k.requests = 1 .. Len(k.requests)
    /\ (\A i \in DOMAIN k.requests : k.requests[i].req = "pcap" => k.requests[i].arg \in Nat)
    /\ (k.name \in {"log", "pcap"} => Len(k.requests) = 1 /\ k.requests[1].req = k.name)
    /\ (k.name \in {"graph", "digraph"} =>
           Len(k.requests) = 2 /\ k.requests[1].req = "nodes" /\ k.requests[2].req = "edges")
    /\ (k.name = "stop" => Len(k.requests) = 1)
    /\ (k.name = "info" => /\ Len(k.requests) = 3 /\ k.requests[1].req = "nodes"
                           /\ k.requests[2].req = "edges" /\ k.requests[3].req = "subnets")
    /\ (k.name = "top" =>
           Len(k.requests) = 2 /\ k.requests[1].req = "traffic" /\ k.requests[2].req = "traffic")

LEMMA TincOf ==
    ASSUME NEW name, NEW asks, NEW k, k = Tinc(name, asks)
    PROVE  k.name = name /\ k.requests = asks
BY DEF Tinc

LEMMA AsksOne ==
    ASSUME NEW a, NEW s, s = <<a>>
    PROVE  IsSeq(s) /\ Len(s) = 1 /\ DOMAIN s = 1 .. 1 /\ s[1] = a
BY OneSeq DEF SeqLike

LEMMA AsksTwo ==
    ASSUME NEW a, NEW b, NEW s, s = <<a, b>>
    PROVE  IsSeq(s) /\ Len(s) = 2 /\ DOMAIN s = 1 .. 2 /\ s[1] = a /\ s[2] = b
<1>1. s \in Seq({a, b}) /\ Len(s) = 2 /\ s[1] = a /\ s[2] = b
  OBVIOUS
<1> QED BY <1>1, SeqIs DEF SeqLike

LEMMA AsksThree ==
    ASSUME NEW a, NEW b, NEW d, NEW s, s = <<a, b, d>>
    PROVE  IsSeq(s) /\ Len(s) = 3 /\ DOMAIN s = 1 .. 3 /\ s[1] = a /\ s[2] = b /\ s[3] = d
<1>1. s \in Seq({a, b, d}) /\ Len(s) = 3 /\ s[1] = a /\ s[2] = b /\ s[3] = d
  OBVIOUS
<1> QED BY <1>1, SeqIs DEF SeqLike

LEMMA CommandShapes ==
    ASSUME NEW k \in TincCommands
    PROVE  ShapeOf(k)
<1>1. ASSUME NEW req \in {"nodes", "edges", "subnets", "connections"}, k = Tinc(req, <<Ask(req, 0)>>)
      PROVE  ShapeOf(k)
  <2>1. k.name = req /\ k.requests = <<Ask(req, 0)>>
    BY <1>1, TincOf
  <2>2. /\ IsSeq(k.requests) /\ Len(k.requests) = 1 /\ DOMAIN k.requests = 1 .. 1
        /\ k.requests[1] = Ask(req, 0)
    BY <2>1, AsksOne
  <2> QED BY <2>1, <2>2 DEF ShapeOf, Ask
<1>2. ASSUME NEW name \in {"graph", "digraph"}, k = Tinc(name, <<Ask("nodes", 0), Ask("edges", 0)>>)
      PROVE  ShapeOf(k)
  <2>1. k.name = name /\ k.requests = <<Ask("nodes", 0), Ask("edges", 0)>>
    BY <1>2, TincOf
  <2>2. /\ IsSeq(k.requests) /\ Len(k.requests) = 2 /\ DOMAIN k.requests = 1 .. 2
        /\ k.requests[1] = Ask("nodes", 0) /\ k.requests[2] = Ask("edges", 0)
    BY <2>1, AsksTwo
  <2> QED BY <2>1, <2>2 DEF ShapeOf, Ask
<1>3. ASSUME k = InfoCommand PROVE ShapeOf(k)
  <2>1. k.name = "info" /\ k.requests = <<Ask("nodes", 0), Ask("edges", 0), Ask("subnets", 0)>>
    BY <1>3, TincOf DEF InfoCommand
  <2>2. /\ IsSeq(k.requests) /\ Len(k.requests) = 3 /\ DOMAIN k.requests = 1 .. 3
        /\ k.requests[1] = Ask("nodes", 0) /\ k.requests[2] = Ask("edges", 0)
        /\ k.requests[3] = Ask("subnets", 0)
    BY <2>1, AsksThree
  <2> QED BY <2>1, <2>2 DEF ShapeOf, Ask
<1>4. ASSUME k = TopCommand PROVE ShapeOf(k)
  <2>1. k.name = "top" /\ k.requests = <<Ask("traffic", 0), Ask("traffic", 0)>>
    BY <1>4, TincOf DEF TopCommand
  <2>2. /\ IsSeq(k.requests) /\ Len(k.requests) = 2 /\ DOMAIN k.requests = 1 .. 2
        /\ k.requests[1] = Ask("traffic", 0) /\ k.requests[2] = Ask("traffic", 0)
    BY <2>1, AsksTwo
  <2> QED BY <2>1, <2>2 DEF ShapeOf, Ask
<1>5. ASSUME k \in PidCommands PROVE ShapeOf(k)
  <2>1. PICK e : e = <<>>
    OBVIOUS
  <2>2. k.name = "pid" /\ k.requests = e
    BY <1>5, <2>1 DEF PidCommands, Tinc
  <2>3. IsSeq(e) /\ Len(e) = 0 /\ DOMAIN e = 1 .. 0
    BY <2>1, NoSeq DEF SeqLike
  <2> QED BY <2>2, <2>3 DEF ShapeOf
<1>6. ASSUME NEW l \in Levels, k = Tinc("log", <<Ask("log", l)>>) PROVE ShapeOf(k)
  <2>1. k.name = "log" /\ k.requests = <<Ask("log", l)>>
    BY <1>6, TincOf
  <2>2. /\ IsSeq(k.requests) /\ Len(k.requests) = 1 /\ DOMAIN k.requests = 1 .. 1
        /\ k.requests[1] = Ask("log", l)
    BY <2>1, AsksOne
  <2> QED BY <2>1, <2>2 DEF ShapeOf, Ask
<1>7. ASSUME NEW n \in Lengths, k = Tinc("pcap", <<Ask("pcap", n)>>) PROVE ShapeOf(k)
  <2>1. k.name = "pcap" /\ k.requests = <<Ask("pcap", n)>>
    BY <1>7, TincOf
  <2>2. /\ IsSeq(k.requests) /\ Len(k.requests) = 1 /\ DOMAIN k.requests = 1 .. 1
        /\ k.requests[1] = Ask("pcap", n)
    BY <2>1, AsksOne
  <2> QED BY <2>1, <2>2, TalkAssumption DEF ShapeOf, Ask
<1>8. ASSUME NEW req \in {"stop", "reload", "purge", "retry", "debug", "connect", "disconnect"}, NEW n,
             k = Tinc(req, <<Ask(req, n)>>)
      PROVE  ShapeOf(k)
  <2>1. k.name = req /\ k.requests = <<Ask(req, n)>>
    BY <1>8, TincOf
  <2>2. /\ IsSeq(k.requests) /\ Len(k.requests) = 1 /\ DOMAIN k.requests = 1 .. 1
        /\ k.requests[1] = Ask(req, n)
    BY <2>1, AsksOne
  <2> QED BY <2>1, <2>2 DEF ShapeOf, Ask
<1>9. CASE k \in DumpCommands
  <2>1. \/ \E req \in Dumps \ {"traffic"} : k = Tinc(req, <<Ask(req, 0)>>)
        \/ \E name \in {"graph", "digraph"} : k = Tinc(name, <<Ask("nodes", 0), Ask("edges", 0)>>)
    BY <1>9 DEF DumpCommands
  <2> QED BY <1>1, <1>2, <2>1 DEF Dumps
<1>10. CASE k \in LiveCommands
  <2>1. \/ \E l \in Levels : k = Tinc("log", <<Ask("log", l)>>)
        \/ \E n \in Lengths : k = Tinc("pcap", <<Ask("pcap", n)>>)
    BY <1>10 DEF LiveCommands
  <2> QED BY <1>6, <1>7, <2>1
<1>11. CASE k \in SimpleCommands
  <2>1. \/ \E req \in {"stop", "reload", "purge", "retry"} : k = Tinc(req, <<Ask(req, 0)>>)
        \/ \E l \in Levels : k = Tinc("debug", <<Ask("debug", l)>>)
        \/ \E req \in {"connect", "disconnect"}, n \in Mesh \ {Me} : k = Tinc(req, <<Ask(req, n)>>)
    BY <1>11 DEF SimpleCommands
  <2>2. CASE \E req \in {"stop", "reload", "purge", "retry"} : k = Tinc(req, <<Ask(req, 0)>>)
    BY <1>8, <2>2
  <2>3. CASE \E l \in Levels : k = Tinc("debug", <<Ask("debug", l)>>)
    BY <1>8, <2>3
  <2>4. CASE \E req \in {"connect", "disconnect"}, n \in Mesh \ {Me} : k = Tinc(req, <<Ask(req, n)>>)
    BY <1>8, <2>4
  <2> QED BY <2>1, <2>2, <2>3, <2>4
<1> QED BY <1>3, <1>4, <1>5, <1>9, <1>10, <1>11 DEF TincCommands

-----------------------------------------------------------------------------
(* Subscribers.                                                            *)
LEMMA LesserOf ==
    ASSUME NEW a \in Int, NEW b \in Int
    PROVE  Min({a, b}) \in {a, b} /\ Min({a, b}) <= a /\ Min({a, b}) <= b
<1>1. PICK S : S = {a, b}
  OBVIOUS
<1>2. \E x \in S : \A y \in S : x <= y
  BY <1>1
<1>3. Min(S) \in S /\ \A y \in S : Min(S) <= y
  BY <1>2, Zenon DEF Min
<1> QED BY <1>1, <1>3

LEMMA LesserNat ==
    ASSUME NEW a \in Nat, NEW b \in Nat
    PROVE  Min({a, b}) \in Nat
<1>1. Min({a, b}) \in {a, b}
  BY LesserOf
<1> QED BY <1>1

LEMMA FrameForIs ==
    ASSUME NEW s, GoodSubscriber(s), NEW entry, entry.size \in Nat
    PROVE  FrameFor(s, entry).number = Len(due[s.client]) + 1 /\ FrameFor(s, entry).len \in Nat
<1>1. FrameFor(s, entry).number = Len(due[s.client]) + 1
  BY DEF FrameFor
<1>2. CASE s.kind = "log"
  <2>1. FrameFor(s, entry).len = Min({entry.size, LogBuffer})
    BY <1>2 DEF FrameFor
  <2> QED BY <1>1, <2>1, LesserNat, TalkAssumption
<1>3. CASE s.kind # "log"
  <2>1. s.snaplen \in Nat
    BY <1>3 DEF GoodSubscriber
  <2>2. FrameFor(s, entry).len = ControlPcapLen(s, entry.size)
    BY <1>3 DEF FrameFor
  <2>3. PICK n : n = IF s.snaplen = 0 THEN PcapBuffer ELSE Min({s.snaplen, PcapBuffer})
    OBVIOUS
  <2>4. n \in Nat
    BY <2>1, <2>3, LesserNat, TalkAssumption
  <2>5. ControlPcapLen(s, entry.size) = Min({entry.size, n})
    BY <2>3 DEF ControlPcapLen
  <2> QED BY <1>1, <2>2, <2>4, <2>5, LesserNat
<1> QED BY <1>2, <1>3

LEMMA Regroup ==
    ASSUME NEW a, NEW b, NEW d, IsSeq(a), IsSeq(b), IsSeq(d)
    PROVE  (a \o b) \o d = a \o (b \o d)
<1>1. PICK T : T = ToSet(a) \union ToSet(b) \union ToSet(d)
  OBVIOUS
<1>2. a \in Seq(T) /\ b \in Seq(T) /\ d \in Seq(T)
  BY <1>1, SeqIn
<1> QED BY <1>2, ConcatAssociative

LEMMA RestIs ==
    ASSUME NEW s, GoodSubscriber(s)
    PROVE  /\ IsSeq(Rest(s)) /\ Len(Rest(s)) = Len(s.outbound) - s.offset
           /\ \A i \in 1 .. Len(s.outbound) - s.offset :
                 s.offset + i \in 1 .. Len(s.outbound) /\ Rest(s)[i] = s.outbound[s.offset + i]
<1>1. PICK o : o = s.outbound
  OBVIOUS
<1>2. PICK k : k = s.offset
  OBVIOUS
<1>3. PICK n : n = Len(o)
  OBVIOUS
<1>4. IsSeq(o) /\ n \in Nat /\ k \in 0 .. n
  BY <1>1, <1>2, <1>3, SeqFacts DEF GoodSubscriber, SeqLike
<1>5. PICK r : r = SubSeq(o, k + 1, n)
  OBVIOUS
<1>6. r = Rest(s)
  BY <1>1, <1>2, <1>3, <1>5 DEF Rest
<1>7. k + 1 \in Nat /\ 1 <= k + 1 /\ k + 1 <= n + 1 /\ n <= n
  BY <1>4
<1>8. Cuts(r, o, k + 1, n)
  BY <1>3, <1>4, <1>5, <1>7, SubSeqIs
<1>9. n - (k + 1) + 1 = n - k
  BY <1>4
<1>10. IsSeq(r) /\ Len(r) = n - k
  BY <1>8, <1>9 DEF Cuts, SeqLike
<1>11. ASSUME NEW i \in 1 .. n - k PROVE k + i \in 1 .. n /\ r[i] = o[k + i]
  <2>1. (k + 1) + i - 1 = k + i
    BY <1>4
  <2>2. i \in 1 .. n - (k + 1) + 1
    BY <1>9
  <2> QED BY <1>3, <1>8, <2>1, <2>2 DEF Cuts
<1> QED BY <1>1, <1>2, <1>3, <1>6, <1>10, <1>11

(* What is queued comes after what has not been written.                   *)
Longer(t, s, frame) ==
    /\ GoodSubscriber(t) /\ t.client = s.client /\ t.kind = s.kind
    /\ Rest(t) = Rest(s) \o Frame(frame)
LEMMA QueuedIs ==
    ASSUME NEW s, GoodSubscriber(s), NEW frame, frame.len \in Nat
    PROVE  Longer(QueuePayload(s, frame), s, frame)
<1>1. PICK z : z = CompactOutbound(s)
  OBVIOUS
<1>2. PICK t : t = QueuePayload(s, frame)
  OBVIOUS
<1>3. PICK r : r = Rest(s)
  OBVIOUS
<1>4. /\ DOMAIN z = DOMAIN s /\ z.client = s.client /\ z.kind = s.kind /\ z.snaplen = s.snaplen
      /\ z.outbound = r /\ z.offset = 0
  BY <1>1, <1>3 DEF CompactOutbound, Rest, GoodSubscriber
<1>5. PICK o : o = r \o Frame(frame)
  OBVIOUS
<1>6. t = [z EXCEPT !.outbound = o]
  BY <1>1, <1>2, <1>4, <1>5 DEF QueuePayload
<1>7. /\ DOMAIN t = DOMAIN s /\ t.client = s.client /\ t.kind = s.kind /\ t.snaplen = s.snaplen
      /\ t.outbound = o /\ t.offset = 0
  BY <1>4, <1>6 DEF GoodSubscriber
<1>8. IsSeq(r) /\ IsSeq(Frame(frame))
  BY <1>3, RestIs, FrameIs DEF SeqLike
<1>9. IsSeq(o) /\ Len(o) \in Nat
  BY <1>5, <1>8, JoinedIs, SeqFacts DEF Joined, SeqLike
<1>10. 0 \in 0 .. Len(o)
  BY <1>9
<1>11. GoodSubscriber(t)
  BY <1>7, <1>9, <1>10 DEF GoodSubscriber
<1>12. Rest(t) = o
  <2>1. IsSeq(Rest(t)) /\ Len(Rest(t)) = Len(o) - 0
    BY <1>7, <1>11, RestIs
  <2>2. \A i \in 1 .. Len(o) - 0 : Rest(t)[i] = o[0 + i]
    BY <1>7, <1>11, RestIs
  <2>3. Len(o) - 0 = Len(o) /\ \A i \in 1 .. Len(o) : 0 + i = i
    BY <1>9
  <2>4. Len(Rest(t)) = Len(o) /\ \A i \in 1 .. Len(o) : Rest(t)[i] = o[i]
    BY <2>1, <2>2, <2>3
  <2> QED BY <1>9, <2>1, <2>4, SameSeq
<1> QED BY <1>2, <1>3, <1>5, <1>7, <1>11, <1>12 DEF Longer

(* What is written moves from the queue to the socket.                     *)
WrittenOf(s, n) ==
    LET written == [s EXCEPT !.offset = @ + n]
    IN  IF written.offset < Len(s.outbound) THEN written ELSE [written EXCEPT !.outbound = <<>>, !.offset = 0]
Moves(t, s, n) ==
    /\ GoodSubscriber(t) /\ t.client = s.client /\ t.kind = s.kind
    /\ IsSeq(SubSeq(s.outbound, s.offset + 1, s.offset + n))
    /\ SubSeq(s.outbound, s.offset + 1, s.offset + n) \o Rest(t) = Rest(s)
LEMMA WrittenIs ==
    ASSUME NEW s, GoodSubscriber(s), NEW n \in Nat, n >= 1, n <= Len(s.outbound) - s.offset
    PROVE  Moves(WrittenOf(s, n), s, n)
<1>1. PICK o : o = s.outbound
  OBVIOUS
<1>2. PICK k : k = s.offset
  OBVIOUS
<1>3. PICK m : m = Len(o)
  OBVIOUS
<1>4. IsSeq(o) /\ m \in Nat /\ k \in 0 .. m /\ k \in Nat
  BY <1>1, <1>2, <1>3, SeqFacts DEF GoodSubscriber, SeqLike
<1>5. n <= m - k /\ k + n \in 0 .. m /\ k + n \in Nat
  BY <1>1, <1>2, <1>3, <1>4
<1>6. PICK r : r = Rest(s)
  OBVIOUS
<1>7. IsSeq(r) /\ Len(r) = m - k /\ \A i \in 1 .. m - k : r[i] = o[k + i]
  BY <1>1, <1>2, <1>3, <1>6, RestIs
<1>8. PICK x : x = SubSeq(o, k + 1, k + n)
  OBVIOUS
<1>9. SeqLike(x, n) /\ \A i \in 1 .. n : x[i] = o[k + i]
  <2>1. k + 1 \in Nat /\ 1 <= k + 1 /\ k + 1 <= (k + n) + 1 /\ k + n <= m
    BY <1>4, <1>5
  <2>2. Cuts(x, o, k + 1, k + n)
    BY <1>3, <1>4, <1>5, <1>8, <2>1, SubSeqIs
  <2>3. (k + n) - (k + 1) + 1 = n /\ \A i \in 1 .. n : (k + 1) + i - 1 = k + i
    BY <1>4
  <2> QED BY <2>2, <2>3 DEF Cuts
<1>10. PICK w : w = [s EXCEPT !.offset = @ + n]
  OBVIOUS
<1>11. /\ DOMAIN w = DOMAIN s /\ w.client = s.client /\ w.kind = s.kind /\ w.snaplen = s.snaplen
       /\ w.outbound = o /\ w.offset = k + n
  BY <1>1, <1>2, <1>10 DEF GoodSubscriber
<1>12. PICK t : t = WrittenOf(s, n)
  OBVIOUS
<1>13. CASE k + n < m
  <2>1. t = w
    BY <1>1, <1>3, <1>10, <1>11, <1>12, <1>13 DEF WrittenOf
  <2>2. GoodSubscriber(t) /\ t.client = s.client /\ t.kind = s.kind
    BY <1>3, <1>4, <1>5, <1>11, <2>1 DEF GoodSubscriber
  <2>3. PICK y : y = Rest(t)
    OBVIOUS
  <2>4. IsSeq(y) /\ Len(y) = m - (k + n) /\ \A i \in 1 .. m - (k + n) : y[i] = o[(k + n) + i]
    BY <1>3, <1>11, <2>1, <2>2, <2>3, RestIs
  <2>5. PICK u : u = x \o y
    OBVIOUS
  <2>6. Joined(u, x, y) /\ Len(x) = n
    BY <1>9, <2>4, <2>5, JoinedIs DEF SeqLike
  <2>7. IsSeq(u) /\ Len(u) = n + (m - (k + n))
    BY <2>4, <2>6 DEF Joined, SeqLike
  <2>8. Len(u) = m - k
    BY <1>4, <2>7
  <2>9. ASSUME NEW i \in 1 .. m - k PROVE u[i] = r[i]
    <3>1. CASE i <= n
      <4>1. i \in 1 .. n
        BY <3>1
      <4> QED BY <1>7, <1>9, <2>6, <4>1 DEF Joined
    <3>2. CASE ~(i <= n)
      <4>1. PICK j : j = i - n
        OBVIOUS
      <4>2. j \in 1 .. m - (k + n) /\ n + j = i /\ (k + n) + j = k + i
        BY <1>4, <3>2, <4>1
      <4>3. u[n + j] = y[j]
        BY <2>4, <2>6, <4>2 DEF Joined
      <4> QED BY <1>7, <2>4, <4>2, <4>3
    <3> QED BY <3>1, <3>2
  <2>10. u = r
    BY <1>7, <2>7, <2>8, <2>9, SameSeq
  <2> QED BY <1>1, <1>2, <1>6, <1>8, <1>9, <1>12, <2>2, <2>3, <2>5, <2>10 DEF Moves, SeqLike
<1>14. CASE ~(k + n < m)
  <2>1. k + n = m /\ n = m - k
    BY <1>4, <1>5, <1>14
  <2>2. PICK e : e = <<>>
    OBVIOUS
  <2>3. t = [w EXCEPT !.outbound = e, !.offset = 0]
    BY <1>1, <1>3, <1>10, <1>11, <1>12, <1>14, <2>2 DEF WrittenOf
  <2>4. /\ DOMAIN t = DOMAIN s /\ t.client = s.client /\ t.kind = s.kind /\ t.snaplen = s.snaplen
        /\ t.outbound = e /\ t.offset = 0
    BY <1>11, <2>3 DEF GoodSubscriber
  <2>5. IsSeq(e) /\ Len(e) = 0
    BY <2>2, NoSeq DEF SeqLike
  <2>6. 0 \in 0 .. Len(e)
    BY <2>5
  <2>7. GoodSubscriber(t)
    BY <2>4, <2>5, <2>6 DEF GoodSubscriber
  <2>8. PICK y : y = Rest(t)
    OBVIOUS
  <2>9. IsSeq(y) /\ Len(y) = 0 - 0
    BY <2>4, <2>5, <2>7, <2>8, RestIs
  <2>10. Len(y) = 0
    BY <2>9
  <2>11. PICK u : u = x \o y
    OBVIOUS
  <2>12. Joined(u, x, y) /\ Len(x) = n
    BY <1>9, <2>9, <2>11, JoinedIs DEF SeqLike
  <2>13. IsSeq(u) /\ Len(u) = n + 0
    BY <2>10, <2>12 DEF Joined, SeqLike
  <2>14. \A i \in 1 .. n : u[i] = r[i]
    BY <1>7, <1>9, <2>1, <2>12 DEF Joined
  <2>15. Len(u) = Len(r) /\ Len(u) = n
    BY <1>7, <2>1, <2>13
  <2>16. u = r
    BY <1>7, <2>13, <2>14, <2>15, SameSeq
  <2> QED BY <1>1, <1>2, <1>6, <1>8, <1>9, <1>12, <2>4, <2>7, <2>8, <2>11, <2>16 DEF Moves, SeqLike
<1> QED BY <1>13, <1>14

Listed(f, n) == n \in Nat /\ f = [i \in 1 .. n |-> f[i]]
LEMMA ListedIs ==
    ASSUME NEW n, NEW f, Listed(f, n)
    PROVE  SeqLike(f, n)
<1>0. n \in Nat /\ f = [i \in 1 .. n |-> f[i]]
  BY DEF Listed
<1>1. PICK T : T = {f[i] : i \in 1 .. n}
  OBVIOUS
<1>2. f \in [1 .. n -> T]
  BY <1>0, <1>1
<1>3. f \in Seq(T)
  BY <1>0, <1>2, SeqDef
<1>4. SeqLike(f, Len(f))
  BY <1>3, SeqIs
<1>5. PICK m : m = Len(f)
  OBVIOUS
<1>6. DOMAIN f = 1 .. n
  BY <1>2
<1>7. m \in Nat /\ 1 .. n = 1 .. m
  BY <1>4, <1>5, <1>6 DEF SeqLike
<1>8. m = n
  BY <1>0, <1>7
<1>9. SeqLike(f, m)
  BY <1>4, <1>5, Zenon
<1> QED BY <1>8, <1>9, Zenon

LEMMA JoinNone ==
    ASSUME NEW s, IsSeq(s), NEW e, e = <<>>
    PROVE  s \o e = s /\ e \o s = s
<1>1. e \in Seq(ToSet(s)) /\ s \in Seq(ToSet(s))
  BY EmptySeq DEF IsSeq
<1> QED BY <1>1, ConcatSimplifications

LEMMA JoinOne ==
    ASSUME NEW s, IsSeq(s), NEW x
    PROVE  s \o <<x>> = Append(s, x)
<1>1. PICK a : a = <<x>>
  OBVIOUS
<1>2. SeqLike(a, 1) /\ a[1] = x
  BY <1>1, OneSeq
<1>3. PICK u : u = s \o a
  OBVIOUS
<1>4. PICK t : t = Append(s, x)
  OBVIOUS
<1>5. Joined(u, s, a) /\ Len(a) = 1
  BY <1>2, <1>3, JoinedIs DEF SeqLike
<1>6. Appended(t, s, x)
  BY <1>4, AppendIs
<1>7. PICK n : n = Len(s)
  OBVIOUS
<1>8. n \in Nat /\ IsSeq(t) /\ Len(t) = n + 1 /\ t[n + 1] = x /\ \A i \in 1 .. n : t[i] = s[i]
  BY <1>6, <1>7 DEF Appended, SeqLike
<1>9. 1 \in 1 .. 1
  OBVIOUS
<1>10. IsSeq(u) /\ Len(u) = n + 1 /\ u[n + 1] = x /\ \A i \in 1 .. n : u[i] = s[i]
  BY <1>2, <1>5, <1>7, <1>9 DEF Joined, SeqLike
<1>11. \A i \in 1 .. n + 1 : u[i] = t[i]
  BY <1>8, <1>10
<1>12. u = t
  BY <1>8, <1>10, <1>11, SameSeq
<1> QED BY <1>1, <1>3, <1>4, <1>12

LEMMA ListsOne ==
    ASSUME NEW S
    PROVE  /\ S = {} => SetToSeq(S) = <<>>
           /\ \A x : S = {x} => SetToSeq(S) = <<x>>
<1>1. ASSUME S = {} PROVE SetToSeq(S) = <<>>
  <2>1. PICK n : n = Cardinality(S)
    OBVIOUS
  <2>2. n = 0
    BY <1>1, <2>1, FS_EmptySet
  <2>3. PICK f : f = [i \in 1 .. n |-> i]
    OBVIOUS
  <2>4. f \in [1 .. n -> S] /\ IsInjective(f)
    BY <2>2, <2>3 DEF IsInjective
  <2>5. PICK g : g = SetToSeq(S)
    OBVIOUS
  <2>6. g \in [1 .. n -> S]
    BY <2>1, <2>4, <2>5, Zenon DEF SetToSeq
  <2>7. Listed(g, n)
    BY <2>2, <2>6 DEF Listed
  <2>8. SeqLike(g, n)
    BY <2>7, ListedIs, Zenon
  <2>9. IsSeq(g) /\ Len(g) = 0
    BY <2>2, <2>8 DEF SeqLike
  <2> QED BY <2>5, <2>9, NoSeq
<1>2. ASSUME NEW x, S = {x} PROVE SetToSeq(S) = <<x>>
  <2>1. PICK n : n = Cardinality(S)
    OBVIOUS
  <2>2. n = 1
    BY <1>2, <2>1, FS_Singleton
  <2>3. PICK f : f = [i \in 1 .. n |-> x]
    OBVIOUS
  <2>4. f \in [1 .. n -> S] /\ IsInjective(f)
    BY <1>2, <2>2, <2>3 DEF IsInjective
  <2>5. PICK g : g = SetToSeq(S)
    OBVIOUS
  <2>6. g \in [1 .. n -> S]
    BY <2>1, <2>4, <2>5, Zenon DEF SetToSeq
  <2>7. Listed(g, n)
    BY <2>2, <2>6 DEF Listed
  <2>8. SeqLike(g, n)
    BY <2>7, ListedIs, Zenon
  <2>9. PICK a : a = <<x>>
    OBVIOUS
  <2>10. SeqLike(a, 1) /\ a[1] = x
    BY <2>9, OneSeq
  <2>11. g[1] = x
    BY <1>2, <2>2, <2>6
  <2>12. IsSeq(g) /\ IsSeq(a) /\ Len(g) = 1 /\ Len(a) = 1 /\ \A i \in 1 .. 1 : g[i] = a[i]
    BY <2>2, <2>8, <2>10, <2>11 DEF SeqLike
  <2>13. g = a
    BY <2>12, SameSeq
  <2> QED BY <2>5, <2>9, <2>13
<1> QED BY <1>1, <1>2

(* An entry is published: who is told of it has one more frame due.        *)
DueGrows(c) ==
    \/ /\ due'[c] = due[c]
       /\ \A i \in DOMAIN subscribers : subscribers[i].client = c => subscribers'[i] = subscribers[i]
    \/ \E f :
          /\ f.number = Len(due[c]) + 1 /\ f.len \in Nat /\ due'[c] = Append(due[c], f)
          /\ Subscribed(c, subscribers)
          /\ \A i \in DOMAIN subscribers :
                subscribers[i].client = c => Longer(subscribers'[i], subscribers[i], f)

LEMMA Published ==
    ASSUME GoodSubscribers(subscribers), \A c \in Client : GoodFrames(due[c]),
           NEW entry, entry.size \in Nat, Publish(entry)
    PROVE  /\ GoodSubscribers(subscribers') /\ DOMAIN subscribers' = DOMAIN subscribers
           /\ \A i \in DOMAIN subscribers : subscribers'[i].client = subscribers[i].client
           /\ DOMAIN due' = Client /\ \A c \in Client : DueGrows(c)
<1>1. PICK D : D = DOMAIN subscribers
  OBVIOUS
<1>2. PICK n : n = Len(subscribers)
  OBVIOUS
<1>3. D = 1 .. n /\ n \in Nat /\ \A i \in D : GoodSubscriber(subscribers[i])
  BY <1>1, <1>2, SeqFacts DEF GoodSubscribers, SeqLike
<1>4. /\ subscribers' = [i \in D |-> subscribers'[i]]
      /\ \A i \in D : subscribers'[i] = IF Told(subscribers[i], entry)
                                        THEN QueuePayload(subscribers[i], FrameFor(subscribers[i], entry))
                                        ELSE subscribers[i]
  BY <1>1 DEF Publish
<1>5. SeqLike(subscribers', n)
  <2>1. Listed(subscribers', n)
    BY <1>3, <1>4, Zenon DEF Listed
  <2> QED BY <2>1, ListedIs, Zenon
<1>6. ASSUME NEW i \in D, ~Told(subscribers[i], entry) PROVE subscribers'[i] = subscribers[i]
  BY <1>4, <1>6
<1>7. ASSUME NEW i \in D, Told(subscribers[i], entry)
      PROVE  Longer(subscribers'[i], subscribers[i], FrameFor(subscribers[i], entry))
  <2>1. subscribers'[i] = QueuePayload(subscribers[i], FrameFor(subscribers[i], entry))
    BY <1>4, <1>7
  <2> QED BY <1>3, <2>1, FrameForIs, QueuedIs
<1>8. \A i \in D : GoodSubscriber(subscribers'[i]) /\ subscribers'[i].client = subscribers[i].client
  BY <1>3, <1>6, <1>7 DEF Longer
<1>9. GoodSubscribers(subscribers') /\ DOMAIN subscribers' = D
  BY <1>1, <1>3, <1>5, <1>8 DEF GoodSubscribers, SeqLike
<1>10. ASSUME NEW c \in Client PROVE DueGrows(c)
  <2>1. PICK mine : mine = {s \in ToSet(subscribers) : s.client = c /\ Told(s, entry)}
    OBVIOUS
  <2>2. due'[c] = due[c] \o SetToSeq({FrameFor(s, entry) : s \in mine})
    BY <2>1 DEF Publish
  <2>3. mine = {subscribers[i] : i \in {j \in D : subscribers[j].client = c /\ Told(subscribers[j], entry)}}
    BY <1>1, <2>1 DEF ToSet
  <2>4. CASE \E i \in D : subscribers[i].client = c /\ Told(subscribers[i], entry)
    <3>1. PICK i \in D : subscribers[i].client = c /\ Told(subscribers[i], entry)
      BY <2>4
    <3>2. \A j \in D : subscribers[j].client = c => j = i
      BY <1>1, <3>1 DEF GoodSubscribers
    <3>3. mine = {subscribers[i]}
      BY <2>3, <3>1, <3>2
    <3>4. PICK f : f = FrameFor(subscribers[i], entry)
      OBVIOUS
    <3>5. {FrameFor(s, entry) : s \in mine} = {f}
      BY <3>3, <3>4
    <3>6. due'[c] = due[c] \o <<f>>
      BY <2>2, <3>5, ListsOne
    <3>7. due'[c] = Append(due[c], f)
      BY <3>6, JoinOne DEF GoodFrames
    <3>8. f.number = Len(due[c]) + 1 /\ f.len \in Nat
      BY <1>3, <3>1, <3>4, FrameForIs
    <3>9. \A j \in D : subscribers[j].client = c => Longer(subscribers'[j], subscribers[j], f)
      BY <1>7, <3>1, <3>2, <3>4
    <3> QED BY <1>1, <3>1, <3>7, <3>8, <3>9 DEF DueGrows, Subscribed
  <2>5. CASE \A i \in D : ~(subscribers[i].client = c /\ Told(subscribers[i], entry))
    <3>1. mine = {}
      BY <2>3, <2>5
    <3>2. {FrameFor(s, entry) : s \in mine} = {}
      BY <3>1
    <3>3. PICK e : e = <<>>
      OBVIOUS
    <3>4. due'[c] = due[c] \o e
      BY <2>2, <3>2, <3>3, ListsOne
    <3>5. due'[c] = due[c]
      BY <3>3, <3>4, JoinNone DEF GoodFrames
    <3>6. \A i \in D : subscribers[i].client = c => subscribers'[i] = subscribers[i]
      BY <1>6, <2>5
    <3> QED BY <1>1, <3>5, <3>6 DEF DueGrows
  <2> QED BY <2>4, <2>5
<1>11. DOMAIN due' = Client
  BY DEF Publish
<1> QED BY <1>1, <1>8, <1>9, <1>10, <1>11

LEMMA RemovedAt ==
    ASSUME NEW s, IsSeq(s), NEW k \in DOMAIN s
    PROVE  /\ SeqLike(RemoveAt(s, k), Len(s) - 1)
           /\ \A i \in 1 .. Len(s) - 1 :
                 RemoveAt(s, k)[i] = s[IF i < k THEN i ELSE i + 1] /\ (IF i < k THEN i ELSE i + 1) \in DOMAIN s
<1>1. PICK n : n = Len(s)
  OBVIOUS
<1>2. n \in Nat /\ DOMAIN s = 1 .. n /\ k \in 1 .. n
  BY <1>1, SeqFacts DEF SeqLike
<1>3. PICK a : a = SubSeq(s, 1, k - 1)
  OBVIOUS
<1>4. PICK b : b = SubSeq(s, k + 1, n)
  OBVIOUS
<1>5. SeqLike(a, k - 1) /\ \A i \in 1 .. k - 1 : a[i] = s[i]
  <2>1. 1 \in Nat /\ k - 1 \in Nat /\ 1 <= 1 /\ 1 <= (k - 1) + 1 /\ k - 1 <= n
    BY <1>2
  <2>2. Cuts(a, s, 1, k - 1)
    BY <1>1, <1>3, <2>1, SubSeqIs
  <2>3. (k - 1) - 1 + 1 = k - 1 /\ \A i \in 1 .. k - 1 : 1 + i - 1 = i
    BY <1>2
  <2> QED BY <2>2, <2>3 DEF Cuts
<1>6. SeqLike(b, n - k) /\ \A i \in 1 .. n - k : b[i] = s[k + i]
  <2>1. k + 1 \in Nat /\ n \in Nat /\ 1 <= k + 1 /\ k + 1 <= n + 1 /\ n <= n
    BY <1>2
  <2>2. Cuts(b, s, k + 1, n)
    BY <1>1, <1>4, <2>1, SubSeqIs
  <2>3. n - (k + 1) + 1 = n - k /\ \A i \in 1 .. n - k : (k + 1) + i - 1 = k + i
    BY <1>2
  <2> QED BY <2>2, <2>3 DEF Cuts
<1>7. PICK u : u = a \o b
  OBVIOUS
<1>8. Joined(u, a, b) /\ Len(a) = k - 1 /\ Len(b) = n - k
  BY <1>5, <1>6, <1>7, JoinedIs DEF SeqLike
<1>9. (k - 1) + (n - k) = n - 1
  BY <1>2
<1>10. SeqLike(u, n - 1)
  BY <1>8, <1>9 DEF Joined
<1>11. u = RemoveAt(s, k)
  BY <1>1, <1>3, <1>4, <1>7 DEF RemoveAt
<1>12. ASSUME NEW i \in 1 .. n - 1
       PROVE  u[i] = s[IF i < k THEN i ELSE i + 1] /\ (IF i < k THEN i ELSE i + 1) \in DOMAIN s
  <2>1. CASE i < k
    <3>1. i \in 1 .. k - 1 /\ i \in 1 .. n
      BY <1>2, <2>1
    <3>2. u[i] = s[i]
      BY <1>5, <1>8, <3>1 DEF Joined
    <3> QED BY <1>2, <2>1, <3>1, <3>2
  <2>2. CASE ~(i < k)
    <3>1. PICK j : j = i - (k - 1)
      OBVIOUS
    <3>2. j \in 1 .. n - k /\ (k - 1) + j = i /\ k + j = i + 1 /\ i + 1 \in 1 .. n
      BY <1>2, <2>2, <3>1
    <3>3. u[(k - 1) + j] = b[j]
      BY <1>8, <3>2 DEF Joined
    <3>4. u[i] = s[i + 1]
      BY <1>6, <3>2, <3>3
    <3> QED BY <1>2, <2>2, <3>2, <3>4
  <2> QED BY <2>1, <2>2
<1> QED BY <1>1, <1>10, <1>11, <1>12

LEMMA LenIs ==
    ASSUME NEW s, IsSeq(s)
    PROVE  Len(s) \in Nat /\ DOMAIN s = 1 .. Len(s)
BY SeqFacts DEF SeqLike

-----------------------------------------------------------------------------
(* A client whose part of the state is left alone.                         *)
OnlyAt(g, f, c) == DOMAIN g = DOMAIN f /\ \A d \in Client : d # c => g[d] = f[d]
Same(d) ==
    /\ client'[d] = client[d] /\ requests'[d] = requests[d] /\ socket'[d] = socket[d]
    /\ moment'[d] = moment[d] /\ due'[d] = due[d]
    /\ (Waits(d, backlog') => Waits(d, backlog))
    /\ (talks' = d => talks = d /\ heard' = heard /\ view' = view)
    /\ (\A i \in DOMAIN subscribers' : subscribers'[i].client = d =>
           \E j \in DOMAIN subscribers : subscribers[j] = subscribers'[i])
    /\ (d \in closed' => d \in closed \/ daemon' # "runs")
    /\ (daemon # "runs" => daemon' # "runs")

LEMMA Undisturbed ==
    ASSUME NEW d \in Client, ClientInv(d), Same(d)
    PROVE  ClientInv(d)'
<1>1. /\ client'[d] = client[d] /\ requests'[d] = requests[d] /\ socket'[d] = socket[d]
      /\ moment'[d] = moment[d] /\ due'[d] = due[d]
      /\ (Waits(d, backlog') => Waits(d, backlog))
      /\ (talks' = d => talks = d /\ heard' = heard /\ view' = view)
  BY DEF Same
<1>2. Subscribed(d, subscribers') => Subscribed(d, subscribers)
  BY DEF Same, Subscribed
<1>3. Untouched(d) => Untouched(d)'
  BY <1>1, <1>2 DEF Untouched
<1>4. Greets(d) => Greets(d)'
  <2>1. SUFFICES ASSUME Greets(d) PROVE Greets(d)'
    OBVIOUS
  <2>2. (talks = d => Len(socket[d]) = (IF heard THEN 2 ELSE 1) /\ view = moment[d])'
    BY <1>1, <2>1 DEF Greets
  <2> QED BY <1>1, <1>2, <2>1, <2>2 DEF Greets
<1>5. Reports(d) => Reports(d)'
  BY <1>1, <1>2 DEF Reports
<1>6. Listens(d) => Listens(d)'
  <2>1. SUFFICES ASSUME Listens(d) PROVE Listens(d)'
    OBVIOUS
  <2>2. ASSUME NEW i \in DOMAIN subscribers', subscribers'[i].client = d
        PROVE  /\ InParts(socket'[d] \o Rest(subscribers'[i]), Len(client'[d].got), due'[d])
               /\ AllQueued(socket'[d] \o Rest(subscribers'[i]), Len(client'[d].got), due'[d])
    <3>1. PICK j \in DOMAIN subscribers : subscribers[j] = subscribers'[i]
      BY <2>2 DEF Same
    <3> QED BY <1>1, <2>1, <2>2, <3>1 DEF Listens
  <2>3. (\A i \in DOMAIN subscribers : subscribers[i].client = d =>
            LET parts == socket[d] \o Rest(subscribers[i])
            IN  InParts(parts, Len(client[d].got), due[d]) /\ AllQueued(parts, Len(client[d].got), due[d]))'
    BY <2>2
  <2> QED BY <1>1, <1>2, <2>1, <2>3 DEF Listens
<1>7. Hears(d) => Hears(d)'
  BY <1>1 DEF Hears
<1>8. IsGone(d)' <=> IsGone(d)
  BY <1>1 DEF IsGone
<1>9. Subscribes(d)' <=> Subscribes(d)
  BY <1>1 DEF Subscribes
<1>10. (d \in closed' => IsGone(d)' \/ daemon' # "runs")
  BY <1>8 DEF ClientInv, Same
<1>11. (client[d].at = "done" /\ client[d].command.name = "stop" => daemon # "runs")'
  BY <1>1 DEF ClientInv, Same
<1>12. (client[d].at = "answers" =>
          /\ ~Waits(d, backlog) /\ (talks = d => heard)
          /\ IsReport(client[d].command) => Reports(d)
          /\ Subscribes(d) => Listens(d))'
  BY <1>1, <1>5, <1>6, <1>9 DEF ClientInv
<1> QED BY <1>1, <1>3, <1>4, <1>7, <1>9, <1>10, <1>11, <1>12 DEF ClientInv

(* A client acts; then the daemon answers, and what it knows may change.   *)
Clients == \A d \in Client : ClientInv(d)

LEMMA ClientMoves ==
    ASSUME TalkInv, NEW c \in Client, UNCHANGED <<talkServer, closed, moment, due>>,
           OnlyAt(client', client, c), OnlyAt(requests', requests, c), OnlyAt(socket', socket, c),
           ClientInv(c)'
    PROVE  TalkInv'
<1>1. ServerInv'
  BY DEF TalkInv, ServerInv, OnlyAt, talkServer
<1>2. ASSUME NEW d \in Client PROVE ClientInv(d)'
  <2>1. CASE d # c
    <3>1. Same(d)
      BY <2>1 DEF Same, OnlyAt, talkServer
    <3> QED BY <3>1, Undisturbed DEF TalkInv
  <2> QED BY <2>1
<1> QED BY <1>1, <1>2 DEF TalkInv

LEMMA DaemonAnswers ==
    ASSUME TalkInv, NEW c \in Client, talks = c, heard' \in BOOLEAN, GoodView(view)',
           UNCHANGED <<daemon, talks, backlog, subscribers, client, closed, moment, due>>,
           OnlyAt(requests', requests, c), OnlyAt(socket', socket, c), ClientInv(c)'
    PROVE  TalkInv'
<1>1. ServerInv'
  BY DEF TalkInv, ServerInv, OnlyAt
<1>2. ASSUME NEW d \in Client PROVE ClientInv(d)'
  <2>1. CASE d # c
    <3>1. Same(d)
      BY <2>1 DEF Same, OnlyAt
    <3> QED BY <3>1, Undisturbed DEF TalkInv
  <2> QED BY <2>1
<1> QED BY <1>1, <1>2 DEF TalkInv

(* Who is talked to and has asked, if it is still there, waits for answers. *)
LEMMA WhoAsks ==
    ASSUME TalkInv, NEW c \in Client, talks = c, heard, requests[c] # <<>>, ~IsGone(c)
    PROVE  /\ client[c].at = "answers" /\ client[c].command \in TincCommands
           /\ ~Waits(c, backlog) /\ ~Subscribed(c, subscribers)
<1>1. ClientInv(c) /\ ServerInv
  BY DEF TalkInv
<1>2. client[c].at # "idle"
  BY <1>1 DEF ClientInv, Untouched
<1>3. client[c].at \notin {"connected", "greeted"}
  BY <1>1 DEF ClientInv, Greets
<1>4. client[c].at = "answers"
  BY <1>1, <1>2, <1>3 DEF ClientInv, IsGone
<1> QED BY <1>1, <1>4 DEF ClientInv, ServerInv

LEMMA WhatIsAsked ==
    ASSUME TalkInv, NEW c \in Client, client[c].at = "answers", requests[c] # <<>>
    PROVE  /\ IsReport(client[c].command) => NextRequest(c).req \in Reported
           /\ Subscribes(c) => /\ requests[c] = client[c].command.requests /\ Len(requests[c]) = 1
                               /\ NextRequest(c).req = client[c].command.name
<1>1. ClientInv(c)
  BY DEF TalkInv
<1>2. Tailed(Tail(requests[c]), requests[c]) /\ NextRequest(c) = requests[c][1]
  BY <1>1, TailIs DEF ClientInv, Tailed, NextRequest
<1>3. PICK k : k = client[c].command
  OBVIOUS
<1>4. ShapeOf(k)
  BY <1>1, <1>3, CommandShapes DEF ClientInv
<1>5. ASSUME IsReport(k) PROVE NextRequest(c).req \in Reported
  <2>1. ReportFits(k, client[c].got, socket[c], requests[c], moment[c])
    BY <1>1, <1>3, <1>5 DEF ClientInv, Reports
  <2>2. PICK n : n = Len(client[c].got) + Len(socket[c])
    OBVIOUS
  <2>3. n \in Nat /\ Len(requests[c]) \in Nat /\ 1 \in DOMAIN requests[c]
    <3>1. IsSeq(requests[c]) /\ IsSeq(socket[c]) /\ IsSeq(client[c].got)
      BY <1>1 DEF ClientInv
    <3>2. Len(requests[c]) \in Nat /\ Len(socket[c]) \in Nat /\ Len(client[c].got) \in Nat
      BY <3>1, LenIs
    <3>3. 1 \in DOMAIN requests[c]
      BY <1>2 DEF Tailed
    <3>4. \A a, b \in Nat : a + b \in Nat
      OBVIOUS
    <3>5. n \in Nat
      BY <2>2, <3>2, <3>4, Zenon
    <3> QED BY <3>2, <3>3, <3>5
  <2>4. requests[c][1] = k.requests[n + 1]
    BY <2>1, <2>2, <2>3 DEF ReportFits
  <2>5. n + Len(requests[c]) = AsksSoFar(k, client[c].got) /\ AsksSoFar(k, client[c].got) <= Len(k.requests)
    BY <2>1, <2>2 DEF ReportFits
  <2>6. Len(k.requests) \in Nat /\ DOMAIN k.requests = 1 .. Len(k.requests) /\ Len(requests[c]) >= 1
    BY <1>2, <1>4 DEF ShapeOf, Tailed
  <2>7. n + 1 \in 1 .. Len(k.requests)
    BY <2>3, <2>5, <2>6
  <2>8. k.requests[n + 1].req \in Reported
    <3>1. CASE k.name \in {"graph", "digraph"}
      <4>1. n + 1 \in {1, 2}
        BY <1>4, <2>3, <2>7, <3>1 DEF ShapeOf
      <4> QED BY <1>4, <3>1, <4>1 DEF ShapeOf, Reported
    <3>2. CASE k.name = "info"
      <4>1. n + 1 \in {1, 2, 3}
        BY <1>4, <2>3, <2>7, <3>2 DEF ShapeOf
      <4> QED BY <1>4, <3>2, <4>1 DEF ShapeOf, Reported
    <3>3. CASE k.name = "top"
      <4>1. n + 1 \in {1, 2}
        BY <1>4, <2>3, <2>7, <3>3 DEF ShapeOf
      <4> QED BY <1>4, <3>3, <4>1 DEF ShapeOf, Reported
    <3> QED BY <1>5, <3>1, <3>2, <3>3 DEF IsReport
  <2> QED BY <1>2, <2>4, <2>8
<1>6. ASSUME Subscribes(c) PROVE /\ requests[c] = k.requests /\ Len(requests[c]) = 1
                                 /\ NextRequest(c).req = k.name
  <2>1. requests[c] = k.requests /\ k.name \in {"log", "pcap"}
    BY <1>1, <1>3, <1>6 DEF ClientInv, Listens, Subscribes
  <2> QED BY <1>2, <1>4, <2>1 DEF ShapeOf
<1> QED BY <1>3, <1>5, <1>6

-----------------------------------------------------------------------------
(* The steps of a client.                                                  *)
Moved(c, where) ==
    /\ OnlyAt(client', client, c) /\ client'[c].at = where
    /\ client'[c].command = client[c].command /\ client'[c].got = client[c].got
    /\ DOMAIN client'[c] = {"command", "at", "got"}
LEMMA AtIs ==
    ASSUME TalkInv, NEW c \in Client, NEW where, At(c, where)
    PROVE  Moved(c, where)
<1>1. DOMAIN client = Client /\ DOMAIN client[c] = {"command", "at", "got"}
  BY DEF TalkInv, ServerInv, ClientInv
<1>2. client' = [client EXCEPT ![c].at = where]
  BY DEF At
<1> QED BY <1>1, <1>2 DEF Moved, OnlyAt

LEMMA EditIs ==
    ASSUME NEW f, DOMAIN f = Client, NEW c \in Client, NEW x, NEW g, g = [f EXCEPT ![c] = x]
    PROVE  OnlyAt(g, f, c) /\ g[c] = x
BY DEF OnlyAt

LEMMA OpenControlKeeps ==
    ASSUME TalkInv, NEW c \in Client, OpenControl(c)
    PROVE  TalkInv'
<1>1. /\ client[c].at = "idle" /\ daemon = "runs" /\ backlog' = Append(backlog, c)
      /\ UNCHANGED <<daemon, talks, heard, view, debug, subscribers, requests, socket, closed, moment,
                     due, talkLeft>>
  BY DEF OpenControl
<1>2. PICK e : e = <<>>
  OBVIOUS
<1>3. PICK k \in TincCommands : client' = [client EXCEPT ![c] = [command |-> k, at |-> "connected", got |-> e]]
  BY <1>2, Zenon DEF OpenControl
<1>4. ServerInv /\ ClientInv(c) /\ Untouched(c) /\ DOMAIN client = Client
  BY <1>1 DEF TalkInv, ClientInv, ServerInv
<1>5. /\ OnlyAt(client', client, c) /\ client'[c].command = k /\ client'[c].at = "connected"
      /\ client'[c].got = e /\ DOMAIN client'[c] = {"command", "at", "got"}
  BY <1>3, <1>4 DEF OnlyAt
<1>6. PICK b : b = backlog
  OBVIOUS
<1>7. Appended(backlog', b, c) /\ IsSeq(b) /\ DOMAIN b = 1 .. Len(b) /\ Len(b) \in Nat
  BY <1>1, <1>4, <1>6, AppendIs, LenIs DEF ServerInv
<1>8. /\ IsSeq(backlog') /\ DOMAIN backlog' = 1 .. Len(b) + 1
      /\ backlog'[Len(b) + 1] = c /\ \A i \in 1 .. Len(b) : backlog'[i] = b[i]
  BY <1>7 DEF Appended, SeqLike
<1>9. ASSUME NEW i \in DOMAIN backlog'
      PROVE  (i \in DOMAIN b /\ backlog'[i] = b[i]) \/ (i = Len(b) + 1 /\ backlog'[i] = c)
  <2>1. i \in 1 .. Len(b) \/ i = Len(b) + 1
    BY <1>7, <1>8
  <2> QED BY <1>7, <1>8, <2>1
<1>10. \A i \in DOMAIN b : b[i] # c
  BY <1>4, <1>6 DEF Untouched, Waits
<1>11. ServerInv'
  <2>1. \A i \in DOMAIN backlog' : backlog'[i] \in Client
    BY <1>4, <1>6, <1>9 DEF ServerInv
  <2>2. \A i, j \in DOMAIN backlog' : backlog'[i] = backlog'[j] => i = j
    BY <1>4, <1>6, <1>9, <1>10 DEF ServerInv
  <2>3. talks # c /\ ~Subscribed(c, subscribers)
    BY <1>4 DEF Untouched
  <2>4. \A i \in DOMAIN backlog' : backlog'[i] # talks /\ ~Subscribed(backlog'[i], subscribers)
    BY <1>4, <1>6, <1>9, <2>3 DEF ServerInv
  <2>5. DOMAIN client' = Client
    BY <1>4, <1>5 DEF OnlyAt
  <2> QED BY <1>1, <1>4, <1>8, <2>1, <2>2, <2>4, <2>5 DEF ServerInv
<1>12. ClientInv(c)'
  <2>1. IsSeq(e) /\ Len(e) = 0 /\ DOMAIN e = 1 .. 0
    BY <1>2, NoSeq DEF SeqLike
  <2>2. /\ requests'[c] = e /\ socket'[c] = e /\ client'[c].got = e /\ due'[c] = e
        /\ ~Subscribed(c, subscribers') /\ talks' # c
    BY <1>1, <1>2, <1>4, <1>5 DEF Untouched
  <2>3. Greets(c)'
    BY <1>2, <2>1, <2>2 DEF Greets
  <2>4. Hears(c)'
    BY <2>1, <2>2 DEF Hears
  <2>5. c \notin closed'
    BY <1>1, <1>4 DEF ClientInv, IsGone
  <2>6. GoodFrames(due[c])' /\ GoodView(moment[c])'
    BY <1>1, <1>4 DEF ClientInv
  <2> QED BY <1>5, <2>1, <2>2, <2>3, <2>4, <2>5, <2>6 DEF ClientInv
<1>13. ASSUME NEW d \in Client, d # c PROVE ClientInv(d)'
  <2>1. Waits(d, backlog') => Waits(d, backlog)
    BY <1>6, <1>9, <1>13 DEF Waits
  <2>2. Same(d)
    BY <1>1, <1>5, <1>13, <2>1 DEF Same, OnlyAt
  <2> QED BY <2>2, Undisturbed DEF TalkInv
<1> QED BY <1>11, <1>12, <1>13 DEF TalkInv

LEMMA SendCookieKeeps ==
    ASSUME TalkInv, NEW c \in Client, SendCookie(c)
    PROVE  TalkInv'
<1>1. /\ client[c].at = "connected" /\ Moved(c, "greeted")
      /\ requests' = [requests EXCEPT ![c] = <<[req |-> "id", arg |-> client[c].command.cookie]>>]
      /\ UNCHANGED <<talkServer, socket, closed, moment, due, talkLeft>>
  BY AtIs DEF SendCookie
<1>2. ServerInv /\ ClientInv(c) /\ Greets(c) /\ DOMAIN requests = Client
  BY <1>1 DEF TalkInv, ClientInv, ServerInv
<1>3. PICK q : q = [req |-> "id", arg |-> client[c].command.cookie]
  OBVIOUS
<1>4. PICK r : r = <<q>>
  OBVIOUS
<1>5. OnlyAt(requests', requests, c) /\ requests'[c] = r
  BY <1>1, <1>2, <1>3, <1>4, EditIs
<1>6. IsSeq(r) /\ DOMAIN r = 1 .. 1 /\ r[1] = q /\ q.req = "id"
  BY <1>3, <1>4, OneSeq DEF SeqLike
<1>7. /\ client'[c].at = "greeted" /\ client'[c].command = client[c].command
      /\ client'[c].got = client[c].got /\ DOMAIN client'[c] = {"command", "at", "got"}
      /\ socket' = socket /\ moment' = moment /\ due' = due /\ closed' = closed /\ talks' = talks
      /\ heard' = heard /\ view' = view /\ backlog' = backlog /\ subscribers' = subscribers
      /\ daemon' = daemon
  BY <1>1 DEF Moved, talkServer
<1>8. Greets(c)'
  <2>1. Len(socket[c]) # 2
    BY <1>1, <1>2 DEF Greets
  <2>2. requests'[c] = <<[req |-> "id", arg |-> client'[c].command.cookie]>>
    BY <1>3, <1>4, <1>5, <1>7
  <2> QED BY <1>2, <1>7, <2>1, <2>2 DEF Greets
<1>9. ClientInv(c)'
  <2>1. IsSeq(requests[c])' /\ \A i \in DOMAIN requests'[c] : requests'[c][i].req # "pcap"
    BY <1>5, <1>6
  <2>2. (c \in closed => IsGone(c) \/ daemon # "runs")'
    BY <1>1, <1>2, <1>7 DEF ClientInv, IsGone
  <2>3. (client[c].at # "idle" /\ Subscribes(c) => Hears(c))'
    BY <1>1, <1>2, <1>7 DEF ClientInv, Hears, Subscribes
  <2> QED BY <1>1, <1>2, <1>7, <1>8, <2>1, <2>2, <2>3 DEF ClientInv
<1> QED BY <1>1, <1>5, <1>9, ClientMoves DEF Moved, OnlyAt

(* How a client ends: nothing more is said of it than what it has got.     *)
LEMMA ClientEnds ==
    ASSUME TalkInv, NEW c \in Client, NEW where, where \in {"failed", "gone"}, Moved(c, where),
           client[c].at # "idle", UNCHANGED <<talkServer, requests, closed, moment, due>>,
           OnlyAt(socket', socket, c), IsSeq(socket'[c])
    PROVE  TalkInv'
<1>1. ClientInv(c)
  BY DEF TalkInv
<1>2. /\ client'[c].at = where /\ client'[c].command = client[c].command
      /\ client'[c].got = client[c].got /\ DOMAIN client'[c] = {"command", "at", "got"}
      /\ daemon' = daemon
  BY DEF Moved, talkServer
<1>3. ClientInv(c)'
  <2>1. IsGone(c)'
    BY <1>2 DEF IsGone
  <2>2. (client[c].at # "idle" /\ Subscribes(c) => Hears(c))'
    BY <1>1, <1>2 DEF ClientInv, Hears, Subscribes
  <2> QED BY <1>1, <1>2, <2>1, <2>2 DEF ClientInv
<1> QED BY <1>3, ClientMoves DEF Moved, OnlyAt

LEMMA KillKeeps ==
    ASSUME TalkInv, NEW c \in Client, Kill(c)
    PROVE  TalkInv'
<1>1. /\ Moved(c, "gone") /\ client[c].at # "idle"
      /\ UNCHANGED <<talkServer, requests, socket, closed, moment, due>>
  BY AtIs DEF Kill, IsAlive
<1>2. OnlyAt(socket', socket, c) /\ IsSeq(socket'[c])
  BY <1>1 DEF OnlyAt, TalkInv, ClientInv
<1> QED BY <1>1, <1>2, ClientEnds

LEMMA ReadEndKeeps ==
    ASSUME TalkInv, NEW c \in Client, ReadEnd(c)
    PROVE  TalkInv'
<1>1. PICK where : where = IF client[c].at = "answers" /\ socket[c] = <<>>
                              /\ (Subscribes(c) \/ client[c].command.name = "stop") THEN "done" ELSE "failed"
  OBVIOUS
<1>2. /\ IsAlive(c) /\ ~IsGone(c) /\ c \in closed /\ At(c, where)
      /\ UNCHANGED <<talkServer, requests, socket, closed, moment, due, talkLeft>>
  BY <1>1, Zenon DEF ReadEnd
<1>3. Moved(c, where) /\ client[c].at # "idle"
  BY <1>2, AtIs DEF IsAlive
<1>4. OnlyAt(socket', socket, c) /\ IsSeq(socket'[c]) /\ ClientInv(c)
  BY <1>2 DEF OnlyAt, TalkInv, ClientInv
<1>5. CASE where = "failed"
  BY <1>2, <1>3, <1>4, <1>5, ClientEnds
<1>6. CASE where = "done"
  <2>1. (Subscribes(c) \/ client[c].command.name = "stop")
    BY <1>1, <1>6
  <2>2. ~IsReport(client[c].command)
    BY <2>1 DEF Subscribes, IsReport
  <2>3. daemon # "runs"
    BY <1>2, <1>4 DEF ClientInv
  <2>4. /\ client'[c].at = "done" /\ client'[c].command = client[c].command
        /\ client'[c].got = client[c].got /\ DOMAIN client'[c] = {"command", "at", "got"}
        /\ daemon' = daemon
    BY <1>2, <1>3, <1>6 DEF Moved, talkServer
  <2>5. (client[c].at # "idle" /\ Subscribes(c) => Hears(c))'
    BY <1>2, <1>3, <1>4, <2>4 DEF ClientInv, Hears, Subscribes
  <2>6. ClientInv(c)'
    BY <1>2, <1>3, <1>4, <2>2, <2>3, <2>4, <2>5 DEF ClientInv
  <2> QED BY <1>2, <1>3, <1>4, <2>6, ClientMoves DEF Moved, OnlyAt
<1> QED BY <1>1, <1>5, <1>6

LEMMA AskedIs ==
    ASSUME NEW c \in Client, ShapeOf(client[c].command)
    PROVE  /\ IsSeq(Asked(c))
           /\ client[c].command.name = "top" => Len(Asked(c)) = 1
           /\ client[c].command.name # "top" => Asked(c) = client[c].command.requests
           /\ \A i \in 1 .. Len(Asked(c)) :
                 /\ i \in DOMAIN client[c].command.requests
                 /\ Asked(c)[i] = client[c].command.requests[i]
<1>1. PICK all : all = client[c].command.requests
  OBVIOUS
<1>2. IsSeq(all) /\ Len(all) \in Nat /\ DOMAIN all = 1 .. Len(all)
  BY <1>1 DEF ShapeOf
<1>3. CASE client[c].command.name = "top"
  <2>1. PICK t : t = SubSeq(all, 1, 1)
    OBVIOUS
  <2>2. Len(all) = 2
    BY <1>1, <1>3 DEF ShapeOf
  <2>3. Cuts(t, all, 1, 1)
    BY <1>2, <2>1, <2>2, SubSeqIs
  <2>4. 1 - 1 + 1 = 1 /\ 1 \in 1 .. 1 /\ 1 + 1 - 1 = 1
    OBVIOUS
  <2>5. SeqLike(t, 1) /\ t[1] = all[1]
    BY <2>3, <2>4 DEF Cuts
  <2>6. Asked(c) = t
    BY <1>1, <1>3, <2>1 DEF Asked
  <2>7. 1 \in DOMAIN all
    BY <1>2, <2>2
  <2> QED BY <1>1, <1>3, <2>5, <2>6, <2>7 DEF SeqLike
<1>4. CASE client[c].command.name # "top"
  <2>1. Asked(c) = all
    BY <1>1, <1>4 DEF Asked
  <2> QED BY <1>1, <1>2, <1>4, <2>1
<1> QED BY <1>3, <1>4

LEMMA ReadAckKeeps ==
    ASSUME TalkInv, NEW c \in Client, ReadAck(c)
    PROVE  TalkInv'
<1>1. PICK k : k = client[c].command
  OBVIOUS
<1>2. PICK where : where = IF k.requests = <<>> THEN "done" ELSE "answers"
  OBVIOUS
<1>3. /\ client[c].at = "greeted" /\ Len(socket[c]) >= 2 /\ Moved(c, where)
      /\ socket' = [socket EXCEPT ![c] = SubSeq(@, 3, Len(@))]
      /\ requests' = [requests EXCEPT ![c] = @ \o Asked(c)]
      /\ UNCHANGED <<talkServer, closed, moment, due, talkLeft>>
  BY <1>1, <1>2, AtIs DEF ReadAck, ReadsAt
<1>4. ServerInv /\ ClientInv(c) /\ Greets(c) /\ DOMAIN requests = Client /\ DOMAIN socket = Client
  BY <1>3 DEF TalkInv, ClientInv, ServerInv
<1>5. IsSeq(socket[c]) /\ IsSeq(requests[c]) /\ k \in TincCommands
  BY <1>1, <1>3, <1>4 DEF ClientInv
<1>6. Len(socket[c]) = 2 /\ requests[c] = <<>>
  <2>1. Len(socket[c]) \in Nat
    BY <1>5, LenIs
  <2>2. Len(socket[c]) <= 2 /\ (Len(socket[c]) = 2 => requests[c] = <<>>)
    BY <1>4 DEF Greets
  <2>3. \A n \in Nat : n >= 2 /\ n <= 2 => n = 2
    OBVIOUS
  <2>4. Len(socket[c]) = 2
    BY <1>3, <2>1, <2>2, <2>3, Zenon
  <2> QED BY <2>2, <2>4, Zenon
<1>7. ShapeOf(k)
  BY <1>5, CommandShapes
<1>8. PICK a : a = Asked(c)
  OBVIOUS
<1>9. /\ IsSeq(a) /\ (k.name = "top" => Len(a) = 1) /\ (k.name # "top" => a = k.requests)
      /\ \A i \in 1 .. Len(a) : i \in DOMAIN k.requests /\ a[i] = k.requests[i]
  BY <1>1, <1>7, <1>8, AskedIs
<1>10. OnlyAt(requests', requests, c) /\ requests'[c] = a
  <2>1. OnlyAt(requests', requests, c) /\ requests'[c] = requests[c] \o a
    BY <1>3, <1>4, <1>8 DEF OnlyAt
  <2>2. requests[c] \o a = a
    BY <1>6, <1>9, JoinNone
  <2> QED BY <2>1, <2>2
<1>11. PICK s : s = SubSeq(socket[c], 3, Len(socket[c]))
  OBVIOUS
<1>12. OnlyAt(socket', socket, c) /\ socket'[c] = s
  BY <1>3, <1>4, <1>11 DEF OnlyAt
<1>13. IsSeq(s) /\ Len(s) = 0 /\ s = <<>> /\ DOMAIN s = {}
  <2>1. 3 \in Nat /\ 2 \in Nat /\ 1 <= 3 /\ 3 <= 2 + 1 /\ 2 <= 2
    OBVIOUS
  <2>2. Cuts(s, socket[c], 3, 2)
    BY <1>5, <1>6, <1>11, <2>1, SubSeqIs
  <2>3. 2 - 3 + 1 = 0 /\ 1 .. 0 = {}
    OBVIOUS
  <2>4. SeqLike(s, 0)
    BY <2>2, <2>3 DEF Cuts
  <2> QED BY <2>3, <2>4, NoSeq DEF SeqLike
<1>14. /\ client'[c].at = where /\ client'[c].command = k
       /\ client'[c].got = client[c].got /\ DOMAIN client'[c] = {"command", "at", "got"}
       /\ moment' = moment /\ due' = due /\ closed' = closed /\ talks' = talks
       /\ heard' = heard /\ view' = view /\ backlog' = backlog /\ subscribers' = subscribers
       /\ daemon' = daemon
  BY <1>1, <1>3 DEF Moved, talkServer
<1>15. PICK g : g = client[c].got
  OBVIOUS
<1>16. g = <<>> /\ IsSeq(g) /\ Len(g) = 0 /\ DOMAIN g = {} /\ due[c] = <<>> /\ ~Subscribed(c, subscribers)
  <2>1. g = <<>> /\ due[c] = <<>> /\ ~Subscribed(c, subscribers)
    BY <1>4, <1>15 DEF Greets
  <2>2. 1 .. 0 = {}
    OBVIOUS
  <2> QED BY <2>1, <2>2, NoSeq DEF SeqLike
<1>17. (talks = c => heard /\ view = moment[c]) /\ ~Waits(c, backlog)
  <2>1. PICK w : w = socket[c]
    OBVIOUS
  <2>2. IsSeq(w) /\ Len(w) = 2
    BY <1>5, <1>6, <2>1
  <2>3. w # <<>>
    BY ONLY <2>2, NoSeq
  <2> QED BY <1>4, <1>6, <2>1, <2>3 DEF Greets
<1>18. \A i \in DOMAIN a : a[i].req = "pcap" => a[i].arg \in Nat
  <2>1. DOMAIN a = 1 .. Len(a)
    BY <1>9, LenIs
  <2> QED BY <1>7, <1>9, <2>1 DEF ShapeOf
<1>19. k.requests = <<>> => ~IsReport(k) /\ k.name # "stop" /\ ~(k.name \in {"log", "pcap"})
  <2>1. k.requests = <<>> => Len(k.requests) = 0
    BY <1>7, NoSeq DEF ShapeOf
  <2> QED BY <1>7, <2>1 DEF ShapeOf, IsReport
<1>20. ASSUME IsReport(k), where = "answers" PROVE Reports(c)'
  <2>1. Len(a) = AsksSoFar(k, g) /\ Len(a) \in Nat /\ DOMAIN a = 1 .. Len(a)
    BY <1>9, <1>16, LenIs DEF AsksSoFar
  <2>2. Len(a) <= Len(k.requests)
    BY <1>7, <1>9 DEF ShapeOf
  <2>3. \A i \in DOMAIN a : a[i] = k.requests[0 + 0 + i]
    BY <1>9, <2>1
  <2>4. Len(k.requests) \in Nat
    BY <1>7 DEF ShapeOf
  <2>5. ReportFits(k, g, s, a, moment[c])
    BY <1>13, <1>16, <2>1, <2>2, <2>3, <2>4 DEF ReportFits, GotFits
  <2> QED BY <1>10, <1>12, <1>14, <1>15, <1>16, <1>17, <2>5 DEF Reports
<1>21. ASSUME Subscribes(c), where = "answers" PROVE Listens(c)'
  <2>1. a = k.requests /\ a # <<>>
    BY <1>1, <1>2, <1>9, <1>21 DEF Subscribes
  <2>2. InParts(s, Len(g), due[c])
    BY <1>13 DEF InParts
  <2>3. \A i \in DOMAIN subscribers : subscribers[i].client # c
    BY <1>16 DEF Subscribed
  <2>4. (\A i \in DOMAIN subscribers : subscribers[i].client = c =>
            LET parts == socket[c] \o Rest(subscribers[i])
            IN  InParts(parts, Len(client[c].got), due[c]) /\ AllQueued(parts, Len(client[c].got), due[c]))'
    BY <1>14, <2>3
  <2> QED BY <1>10, <1>12, <1>13, <1>14, <1>15, <1>16, <2>1, <2>2, <2>4 DEF Listens
<1>22. Hears(c)'
  <2>1. Len(due[c]) \in Nat
    BY <1>4, LenIs DEF ClientInv, GoodFrames
  <2> QED BY <1>14, <1>15, <1>16, <2>1 DEF Hears
<1>23. Subscribes(c)' <=> Subscribes(c)
  BY <1>1, <1>14 DEF Subscribes
<1>24. (c \in closed => IsGone(c) \/ daemon # "runs")'
  BY <1>3, <1>4, <1>14 DEF ClientInv, IsGone
<1>25. ClientInv(c)'
  <2>1. where = "answers" \/ (where = "done" /\ k.requests = <<>>)
    BY <1>2
  <2>2. (client[c].at = "answers" =>
          /\ ~Waits(c, backlog) /\ (talks = c => heard)
          /\ IsReport(client[c].command) => Reports(c)
          /\ Subscribes(c) => Listens(c))'
    BY <1>14, <1>17, <1>20, <1>21, <1>23
  <2>3. GoodFrames(due[c])' /\ GoodView(moment[c])'
    BY <1>4, <1>14 DEF ClientInv
  <2>4. where = "done" => ~IsReport(client'[c].command) /\ client'[c].command.name # "stop"
    BY <1>14, <1>19, <2>1
  <2> QED BY <1>5, <1>9, <1>10, <1>12, <1>13, <1>14, <1>15, <1>16, <1>18, <1>22, <1>24, <2>1, <2>2, <2>3, <2>4
      DEF ClientInv
<1> QED BY <1>3, <1>10, <1>12, <1>25, ClientMoves DEF Moved

(* A report whose next answer is read.                                     *)
ReadOn(k, got, answers, asks, more, left, wants, known) ==
    /\ GotFits(k, more, known) /\ Len(more) = Len(got) + 1
    /\ Len(got) + 1 # Len(k.requests) => ReportFits(k, more, left, wants, known)
LEMMA AnswerRead ==
    ASSUME NEW k, ShapeOf(k), IsReport(k), NEW got, NEW answers, NEW asks, NEW known,
           IsSeq(got), IsSeq(answers), IsSeq(asks), answers # <<>>,
           ReportFits(k, got, answers, asks, known),
           NEW more, more = Append(got, Head(answers).data),
           NEW left, left = Tail(answers),
           NEW wants, k.name # "top" => wants = asks,
           (k.name = "top" /\ Len(got) + 1 # Len(k.requests)) =>
              wants = Append(asks, k.requests[Len(got) + 2])
    PROVE  ReadOn(k, got, answers, asks, more, left, wants, known)
<1>1. PICK n : n = Len(got)
  OBVIOUS
<1>2. PICK a : a = Len(answers)
  OBVIOUS
<1>3. PICK q : q = Len(asks)
  OBVIOUS
<1>4. PICK m : m = Len(k.requests)
  OBVIOUS
<1>5. /\ n \in Nat /\ a \in Nat /\ q \in Nat /\ m \in Nat
      /\ DOMAIN got = 1 .. n /\ DOMAIN answers = 1 .. a /\ DOMAIN asks = 1 .. q /\ DOMAIN k.requests = 1 .. m
  BY <1>1, <1>2, <1>3, <1>4, LenIs DEF ShapeOf
<1>6. Tailed(left, answers)
  BY TailIs
<1>7. /\ a >= 1 /\ SeqLike(left, a - 1) /\ Head(answers) = answers[1] /\ 1 \in 1 .. a
      /\ \A i \in 1 .. a - 1 : i + 1 \in 1 .. a /\ left[i] = answers[i + 1]
  BY <1>2, <1>5, <1>6 DEF Tailed
<1>8. Appended(more, got, Head(answers).data)
  BY AppendIs
<1>9. /\ SeqLike(more, n + 1) /\ more[n + 1] = answers[1].data
      /\ \A i \in 1 .. n : more[i] = got[i]
  BY <1>1, <1>7, <1>8 DEF Appended
<1>10. AsksSoFar(k, got) = IF k.name = "top" THEN n + 1 ELSE m
  BY <1>1, <1>4 DEF AsksSoFar
<1>11. AsksSoFar(k, more) = IF k.name = "top" THEN (n + 1) + 1 ELSE m
  BY <1>4, <1>9 DEF AsksSoFar, SeqLike
<1>12. n + a + q = AsksSoFar(k, got) /\ AsksSoFar(k, got) <= m
  BY <1>1, <1>2, <1>3, <1>4 DEF ReportFits
<1>13. PICK t : t = AsksSoFar(k, got)
  OBVIOUS
<1>14. n + a + q = t /\ t <= m /\ t \in Nat
  BY <1>5, <1>10, <1>12, <1>13
<1>15. n + 1 <= m /\ n + 1 \in 1 .. m
  BY <1>5, <1>7, <1>14
<1>16. \A i \in 1 .. a : answers[i].req = k.requests[n + i].req /\ answers[i].data = Shown(known, k.requests[n + i].req)
  BY <1>1, <1>5 DEF ReportFits
<1>17. \A i \in 1 .. q : asks[i] = k.requests[n + a + i]
  BY <1>1, <1>2, <1>5 DEF ReportFits
<1>18. \A i \in 1 .. n : got[i] = Shown(known, k.requests[i].req)
  BY <1>5 DEF ReportFits, GotFits
<1>19. DOMAIN more = 1 .. n + 1 /\ Len(more) = n + 1 /\ IsSeq(more)
  BY <1>9 DEF SeqLike
<1>20. GotFits(k, more, known)
  <2>1. ASSUME NEW i \in 1 .. n + 1 PROVE more[i] = Shown(known, k.requests[i].req)
    <3>1. CASE i = n + 1
      BY <1>7, <1>9, <1>16, <3>1
    <3>2. CASE i # n + 1
      <4>1. i \in 1 .. n
        BY <1>5, <3>2
      <4> QED BY <1>9, <1>18, <4>1
    <3> QED BY <3>1, <3>2
  <2> QED BY <1>4, <1>15, <1>19, <2>1 DEF GotFits
<1>21. DOMAIN left = 1 .. a - 1 /\ Len(left) = a - 1
  BY <1>7 DEF SeqLike
<1>22. ASSUME NEW i \in DOMAIN left
       PROVE  LET req == k.requests[Len(more) + i].req
              IN  left[i].req = req /\ left[i].data = Shown(known, req)
  <2>1. i \in 1 .. a - 1
    BY <1>21
  <2>2. i + 1 \in 1 .. a /\ left[i] = answers[i + 1]
    BY <1>7, <2>1
  <2>3. n + (i + 1) = (n + 1) + i
    BY <1>5, <2>1
  <2>4. answers[i + 1].req = k.requests[n + (i + 1)].req
        /\ answers[i + 1].data = Shown(known, k.requests[n + (i + 1)].req)
    BY <1>16, <2>2
  <2> QED BY <1>19, <2>2, <2>3, <2>4
<1>23. ASSUME n + 1 # m PROVE ReportFits(k, more, left, wants, known)
  <2>1. CASE k.name # "top"
    <3>1. wants = asks
      BY <2>1
    <3>2. (n + 1) + (a - 1) + q = m
      BY <1>5, <1>10, <1>13, <1>14, <2>1
    <3>3. (n + 1) + (a - 1) = n + a
      BY <1>5
    <3>4. \A i \in DOMAIN wants : wants[i] = k.requests[Len(more) + Len(left) + i]
      BY <1>5, <1>17, <1>19, <1>21, <3>1, <3>3
    <3>5. Len(more) + Len(left) + Len(wants) = AsksSoFar(k, more) /\ AsksSoFar(k, more) <= Len(k.requests)
      <4>1. AsksSoFar(k, more) = m
        BY <1>11, <2>1
      <4>2. Len(more) + Len(left) + Len(wants) = m
        BY <1>3, <1>19, <1>21, <3>1, <3>2
      <4>3. m <= Len(k.requests)
        BY <1>4, <1>5
      <4> QED BY <4>1, <4>2, <4>3
    <3> QED BY <1>20, <1>22, <3>4, <3>5 DEF ReportFits
  <2>2. CASE k.name = "top"
    <3>1. t = n + 1 /\ a = 1 /\ q = 0
      BY <1>5, <1>7, <1>10, <1>13, <1>14, <2>2
    <3>2. PICK x : x = k.requests[n + 2]
      OBVIOUS
    <3>3. wants = Append(asks, x)
      BY <1>1, <1>4, <1>23, <2>2, <3>2
    <3>4. Appended(wants, asks, x)
      BY <3>3, AppendIs
    <3>5. SeqLike(wants, 1) /\ wants[1] = x
      BY <1>3, <3>1, <3>4 DEF Appended
    <3>6. Len(more) + Len(left) + 1 = n + 2
      BY <1>5, <1>19, <1>21, <3>1
    <3>7. DOMAIN wants = 1 .. 1 /\ Len(wants) = 1
      BY <3>5 DEF SeqLike
    <3>8. \A i \in DOMAIN wants : wants[i] = k.requests[Len(more) + Len(left) + i]
      BY <3>2, <3>5, <3>6, <3>7
    <3>9. n + 2 <= m /\ (n + 1) + 1 = n + 2
      BY <1>5, <1>15, <1>23
    <3>10. Len(more) + Len(left) + Len(wants) = AsksSoFar(k, more) /\ AsksSoFar(k, more) <= Len(k.requests)
      BY <1>4, <1>11, <2>2, <3>6, <3>7, <3>9
    <3> QED BY <1>20, <1>22, <3>8, <3>10 DEF ReportFits
  <2> QED BY <2>1, <2>2
<1> QED BY <1>1, <1>4, <1>19, <1>20, <1>23 DEF ReadOn

LEMMA ReadAnswerKeeps ==
    ASSUME TalkInv, NEW c \in Client, ReadAnswer(c)
    PROVE  TalkInv'
<1>1. /\ client[c].at = "answers" /\ socket[c] # <<>> /\ ~Subscribes(c)
      /\ socket' = [socket EXCEPT ![c] = Tail(@)]
      /\ UNCHANGED <<talkServer, closed, moment, due, talkLeft>>
  BY DEF ReadAnswer, ReadsAt, Taken
<1>2. ServerInv /\ ClientInv(c) /\ DOMAIN requests = Client /\ DOMAIN socket = Client /\ DOMAIN client = Client
  BY DEF TalkInv, ServerInv
<1>3. PICK k : k = client[c].command
  OBVIOUS
<1>4. PICK g : g = client[c].got
  OBVIOUS
<1>5. IsSeq(g) /\ IsSeq(socket[c]) /\ IsSeq(requests[c]) /\ k \in TincCommands /\ ShapeOf(k)
  BY <1>1, <1>2, <1>3, <1>4, CommandShapes DEF ClientInv
<1>6. PICK line : line = Head(socket[c])
  OBVIOUS
<1>7. PICK left : left = Tail(socket[c])
  OBVIOUS
<1>8. OnlyAt(socket', socket, c) /\ socket'[c] = left
  BY <1>1, <1>2, <1>7 DEF OnlyAt
<1>9. IsSeq(left)
  BY <1>1, <1>5, <1>7, TailIs DEF Tailed, SeqLike
<1>10. CASE ~Accepts(c, line)
  <2>1. At(c, "failed") /\ UNCHANGED requests
    BY <1>6, <1>10 DEF ReadAnswer
  <2>2. Moved(c, "failed") /\ client[c].at # "idle"
    BY <1>1, <2>1, AtIs
  <2> QED BY <1>1, <1>8, <1>9, <2>1, <2>2, ClientEnds
<1>11. CASE Accepts(c, line)
  <2>1. PICK ends \in BOOLEAN : ends <=> Len(g) + 1 = Len(k.requests)
    OBVIOUS
  <2>2. PICK where : where = IF ends /\ k.name # "stop" THEN "done" ELSE "answers"
    OBVIOUS
  <2>3. PICK more : more = Append(g, line.data)
    OBVIOUS
  <2>4. client' = [client EXCEPT ![c].got = Append(@, line.data),
                                 ![c].at = IF (Len(g) + 1 = Len(k.requests)) /\ k.name # "stop" THEN "done" ELSE @]
    BY <1>3, <1>4, <1>6, <1>11, Zenon DEF ReadAnswer, AnswersRead
  <2>5. /\ OnlyAt(client', client, c) /\ client'[c].got = more /\ client'[c].command = k
        /\ DOMAIN client'[c] = {"command", "at", "got"}
    BY <1>2, <1>3, <1>4, <2>3, <2>4 DEF OnlyAt, ClientInv
  <2>6. client'[c].at = where
    BY <1>1, <1>2, <2>1, <2>2, <2>4 DEF ClientInv
  <2>7. requests' = IF (Len(g) + 1 = Len(k.requests)) \/ k.name # "top" THEN requests
                    ELSE [requests EXCEPT ![c] = Append(@, k.requests[Len(g) + 2])]
    BY <1>3, <1>4, <1>6, <1>11, Zenon DEF ReadAnswer, AnswersRead
  <2>8. OnlyAt(requests', requests, c)
    BY <1>2, <2>7 DEF OnlyAt
  <2>9. k.name # "top" \/ ends => requests'[c] = requests[c]
    BY <2>1, <2>7
  <2>10. (k.name = "top" /\ Len(g) + 1 # Len(k.requests)) =>
            requests'[c] = Append(requests[c], k.requests[Len(g) + 2])
    BY <1>2, <2>7
  <2>11. /\ moment' = moment /\ due' = due /\ closed' = closed /\ talks' = talks
         /\ heard' = heard /\ view' = view /\ backlog' = backlog /\ subscribers' = subscribers
         /\ daemon' = daemon
    BY <1>1 DEF talkServer
  <2>12. IsSeq(more)
    BY <1>5, <2>3, AppendIs DEF Appended, SeqLike
  <2>13. ~(k.name \in {"log", "pcap"}) /\ ~Subscribes(c)'
    BY <1>1, <1>3, <2>5 DEF Subscribes
  <2>14. ASSUME IsReport(k)
         PROVE  ReadOn(k, g, socket[c], requests[c], more, left, requests'[c], moment[c]) /\ Reports(c)
    <3>1. Reports(c)
      BY <1>1, <1>2, <1>3, <2>14 DEF ClientInv
    <3>2. ReportFits(k, g, socket[c], requests[c], moment[c])
      BY <1>3, <1>4, <3>1 DEF Reports
    <3>3. more = Append(g, Head(socket[c]).data)
      BY <1>6, <2>3
    <3>4. k.name # "top" => requests'[c] = requests[c]
      BY <2>9
    <3> QED BY <1>1, <1>5, <1>7, <2>10, <2>14, <3>1, <3>2, <3>3, <3>4, AnswerRead
  <2>15. /\ IsSeq(requests'[c])
         /\ \A i \in DOMAIN requests'[c] : requests'[c][i].req = "pcap" => requests'[c][i].arg \in Nat
    <3>1. CASE k.name # "top" \/ ends
      BY <1>2, <2>9, <3>1 DEF ClientInv
    <3>2. CASE k.name = "top" /\ ~ends
      <4>1. PICK x : x = k.requests[Len(g) + 2]
        OBVIOUS
      <4>2. PICK r : r = requests[c]
        OBVIOUS
      <4>3. Appended(requests'[c], r, x)
        BY <1>5, <2>1, <2>10, <3>2, <4>1, <4>2, AppendIs
      <4>4. IsReport(k)
        BY <3>2 DEF IsReport
      <4>5. x.req # "pcap"
        <5>1. Len(g) + 2 \in {1, 2}
          <6>1. Len(g) + Len(socket[c]) + Len(r) = Len(g) + 1 /\ Len(g) + 1 <= Len(k.requests)
            BY <1>3, <1>4, <2>14, <3>2, <4>2, <4>4 DEF Reports, ReportFits, AsksSoFar
          <6>2. Len(g) \in Nat /\ Len(k.requests) = 2
            BY <1>5, <3>2, LenIs DEF ShapeOf
          <6>3. Len(g) + 1 # 2
            BY <2>1, <3>2, <6>2
          <6> QED BY <6>1, <6>2, <6>3
        <5> QED BY <1>5, <3>2, <4>1, <5>1 DEF ShapeOf
      <4>6. /\ IsSeq(requests'[c]) /\ DOMAIN requests'[c] = 1 .. Len(r) + 1 /\ Len(r) \in Nat
            /\ requests'[c][Len(r) + 1] = x /\ \A i \in 1 .. Len(r) : requests'[c][i] = r[i]
        BY <4>3 DEF Appended, SeqLike
      <4>7. ASSUME NEW i \in DOMAIN requests'[c], requests'[c][i].req = "pcap"
            PROVE  requests'[c][i].arg \in Nat
        <5>1. i # Len(r) + 1
          BY <4>5, <4>6, <4>7
        <5>2. i \in 1 .. Len(r)
          BY <4>6, <5>1
        <5>3. i \in DOMAIN r
          BY <1>5, <4>2, <5>2, LenIs
        <5> QED BY <1>2, <4>2, <4>6, <4>7, <5>2, <5>3 DEF ClientInv
      <4> QED BY <4>6, <4>7
    <3> QED BY <3>1, <3>2
  <2>16. ASSUME IsReport(k), where = "answers" PROVE Reports(c)'
    <3>1. ~ends
      BY <2>2, <2>16 DEF IsReport
    <3>2. ReportFits(k, more, left, requests'[c], moment[c])
      BY <2>1, <2>14, <2>16, <3>1 DEF ReadOn
    <3> QED BY <1>8, <2>5, <2>11, <2>14, <2>16, <3>2 DEF Reports
  <2>17. ASSUME IsReport(k), where = "done"
         PROVE  GotFits(k, more, moment[c]) /\ Len(more) = Len(k.requests)
    <3>1. ends
      BY <2>2, <2>17
    <3> QED BY <2>1, <2>14, <2>17, <3>1 DEF ReadOn
  <2>18. where \in {"answers", "done"} /\ (where = "done" => k.name # "stop")
    BY <2>2
  <2>19. ~Waits(c, backlog) /\ (talks = c => heard) /\ (c \in closed => daemon # "runs")
    BY <1>1, <1>2 DEF ClientInv, IsGone
  <2>20. GoodFrames(due[c])' /\ GoodView(moment[c])'
    BY <1>2, <2>11 DEF ClientInv
  <2>21. ClientInv(c)'
    BY <1>5, <1>8, <1>9, <2>5, <2>6, <2>11, <2>12, <2>13, <2>15, <2>16, <2>17, <2>18, <2>19, <2>20
    DEF ClientInv
  <2> QED BY <1>1, <1>8, <2>5, <2>8, <2>21, ClientMoves
<1> QED BY <1>10, <1>11

(* A cut of what is joined cuts the first part.                            *)
LEMMA CutJoined ==
    ASSUME NEW s, NEW t, IsSeq(s), IsSeq(t), NEW m \in Nat, 1 <= m, m <= Len(s) + 1
    PROVE  SubSeq(s \o t, m, Len(s \o t)) = SubSeq(s, m, Len(s)) \o t
<1>1. PICK a : a = Len(s)
  OBVIOUS
<1>2. PICK b : b = Len(t)
  OBVIOUS
<1>3. PICK u : u = s \o t
  OBVIOUS
<1>4. a \in Nat /\ b \in Nat
  BY <1>1, <1>2, LenIs
<1>5. Joined(u, s, t)
  BY <1>3, JoinedIs
<1>6. /\ IsSeq(u) /\ Len(u) = a + b /\ (\A i \in 1 .. a : u[i] = s[i]) /\ (\A i \in 1 .. b : u[a + i] = t[i])
  BY <1>1, <1>2, <1>5 DEF Joined, SeqLike
<1>7. PICK x : x = SubSeq(u, m, a + b)
  OBVIOUS
<1>8. m <= (a + b) + 1 /\ a + b \in Nat /\ a + b <= a + b /\ m <= a + 1
  BY <1>1, <1>4
<1>9. Cuts(x, u, m, a + b)
  BY <1>6, <1>7, <1>8, SubSeqIs
<1>10. PICK c : c = a - m + 1
  OBVIOUS
<1>11. c \in Nat /\ (a + b) - m + 1 = c + b
  BY <1>4, <1>8, <1>10
<1>12. SeqLike(x, c + b) /\ \A i \in 1 .. c + b : x[i] = u[m + i - 1]
  BY <1>9, <1>11 DEF Cuts
<1>13. PICK y : y = SubSeq(s, m, a)
  OBVIOUS
<1>14. a <= a
  BY <1>4
<1>15. Cuts(y, s, m, a)
  BY <1>1, <1>4, <1>8, <1>13, <1>14, SubSeqIs
<1>16. SeqLike(y, c) /\ \A i \in 1 .. c : y[i] = s[m + i - 1] /\ m + i - 1 \in 1 .. a
  BY <1>1, <1>10, <1>15 DEF Cuts
<1>17. PICK z : z = y \o t
  OBVIOUS
<1>18. Joined(z, y, t) /\ Len(y) = c
  BY <1>16, <1>17, JoinedIs DEF SeqLike
<1>19. SeqLike(z, c + b) /\ (\A i \in 1 .. c : z[i] = y[i]) /\ (\A i \in 1 .. b : z[c + i] = t[i])
  BY <1>2, <1>18 DEF Joined
<1>20. ASSUME NEW i \in 1 .. c + b PROVE x[i] = z[i]
  <2>1. CASE i <= c
    <3>1. i \in 1 .. c
      BY <1>11, <2>1
    <3>2. x[i] = s[m + i - 1]
      BY <1>6, <1>12, <1>16, <3>1
    <3> QED BY <1>16, <1>19, <3>1, <3>2
  <2>2. CASE ~(i <= c)
    <3>1. PICK j : j = i - c
      OBVIOUS
    <3>2. j \in 1 .. b /\ c + j = i /\ m + i - 1 = a + j
      BY <1>4, <1>10, <1>11, <2>2, <3>1
    <3>3. x[i] = t[j]
      BY <1>6, <1>12, <3>2
    <3>4. z[c + j] = t[j]
      BY <1>19, <3>2
    <3> QED BY <3>2, <3>3, <3>4
  <2> QED BY <2>1, <2>2
<1>21. IsSeq(x) /\ IsSeq(z) /\ Len(x) = c + b /\ Len(z) = c + b
  BY <1>12, <1>19 DEF SeqLike
<1>22. x = z
  BY <1>20, <1>21, SameSeq
<1> QED BY <1>1, <1>3, <1>6, <1>7, <1>13, <1>17, <1>22

LEMMA ReadFrameKeeps ==
    ASSUME TalkInv, NEW c \in Client, ReadFrame(c)
    PROVE  TalkInv'
<1>1. /\ client[c].at = "answers" /\ socket[c] # <<>> /\ Subscribes(c)
      /\ UNCHANGED <<talkServer, requests, closed, moment, due, talkLeft>>
  BY DEF ReadFrame, ReadsAt
<1>2. ServerInv /\ ClientInv(c) /\ DOMAIN socket = Client /\ DOMAIN client = Client /\ Listens(c) /\ Hears(c)
  BY <1>1 DEF TalkInv, ServerInv, ClientInv
<1>3. PICK s : s = socket[c]
  OBVIOUS
<1>4. PICK got : got = client[c].got
  OBVIOUS
<1>5. PICK g : g = Len(got)
  OBVIOUS
<1>6. PICK frames : frames = due[c]
  OBVIOUS
<1>7. IsSeq(s) /\ IsSeq(got) /\ GoodFrames(frames) /\ g \in Nat /\ DOMAIN got = 1 .. g /\ s # <<>>
  BY <1>1, <1>2, <1>3, <1>4, <1>5, <1>6, LenIs DEF ClientInv
<1>8. InParts(s, g, frames) /\ requests[c] = <<>> /\ talks # c
  BY <1>1, <1>2, <1>3, <1>4, <1>5, <1>6 DEF Listens
<1>9. PICK f : f = frames[g + 1]
  OBVIOUS
<1>10. /\ g + 1 \in DOMAIN frames /\ Head(s) = s[1] /\ f.len \in Nat /\ s[1].frame = f /\ s[1].part = 0
  BY <1>7, <1>8, <1>9, FirstFrame
<1>11. PICK l : l = f.len
  OBVIOUS
<1>12. \/ At(c, "failed") /\ UNCHANGED socket
       \/ /\ Len(s) > l
          /\ socket' = [socket EXCEPT ![c] = SubSeq(@, l + 2, Len(@))]
          /\ client' = [client EXCEPT ![c].got = Append(@, <<Head(s)>> \o SubSeq(s, 2, l + 1))]
  BY <1>3, <1>10, <1>11 DEF ReadFrame
<1>13. CASE At(c, "failed") /\ UNCHANGED socket
  <2>1. Moved(c, "failed") /\ client[c].at # "idle"
    BY <1>1, <1>13, AtIs
  <2>2. OnlyAt(socket', socket, c) /\ IsSeq(socket'[c])
    BY <1>3, <1>7, <1>13 DEF OnlyAt
  <2> QED BY <1>1, <2>1, <2>2, ClientEnds
<1>14. CASE /\ Len(s) > l
            /\ socket' = [socket EXCEPT ![c] = SubSeq(@, l + 2, Len(@))]
            /\ client' = [client EXCEPT ![c].got = Append(@, <<Head(s)>> \o SubSeq(s, 2, l + 1))]
  <2>1. PICK left : left = SubSeq(s, l + 2, Len(s))
    OBVIOUS
  <2>2. OnlyAt(socket', socket, c) /\ socket'[c] = left
    BY <1>2, <1>3, <1>14, <2>1 DEF OnlyAt
  <2>3. <<Head(s)>> \o SubSeq(s, 2, l + 1) = Frame(f)
    BY <1>7, <1>8, <1>9, <1>11, <1>14, FrameIsRead
  <2>4. PICK more : more = Append(got, Frame(f))
    OBVIOUS
  <2>5. /\ OnlyAt(client', client, c) /\ client'[c].got = more /\ client'[c].command = client[c].command
        /\ DOMAIN client'[c] = {"command", "at", "got"} /\ client'[c].at = "answers"
    BY <1>1, <1>2, <1>4, <1>14, <2>3, <2>4 DEF OnlyAt, ClientInv
  <2>6. Appended(more, got, Frame(f))
    BY <1>7, <2>4, AppendIs
  <2>7. /\ IsSeq(more) /\ Len(more) = g + 1 /\ DOMAIN more = 1 .. g + 1 /\ more[g + 1] = Frame(f)
        /\ \A i \in 1 .. g : more[i] = got[i]
    BY <1>5, <2>6 DEF Appended, SeqLike
  <2>8. InParts(left, g + 1, frames)
    BY <1>7, <1>8, <1>9, <1>11, <1>14, <2>1, NextFrames
  <2>9. /\ moment' = moment /\ due' = due /\ closed' = closed /\ talks' = talks
        /\ heard' = heard /\ view' = view /\ backlog' = backlog /\ subscribers' = subscribers
        /\ daemon' = daemon /\ requests' = requests
    BY <1>1 DEF talkServer
  <2>10. ASSUME NEW i \in DOMAIN subscribers, subscribers[i].client = c
         PROVE  /\ InParts(left \o Rest(subscribers[i]), g + 1, frames)
                /\ AllQueued(left \o Rest(subscribers[i]), g + 1, frames)
    <3>1. PICK r : r = Rest(subscribers[i])
      OBVIOUS
    <3>2. IsSeq(r)
      BY <1>2, <3>1, RestIs DEF ServerInv, GoodSubscribers
    <3>3. PICK u : u = s \o r
      OBVIOUS
    <3>4. InParts(u, g, frames) /\ AllQueued(u, g, frames)
      BY <1>2, <1>3, <1>4, <1>5, <1>6, <2>10, <3>1, <3>3 DEF Listens
    <3>5. Joined(u, s, r)
      BY <1>7, <3>2, <3>3, JoinedIs
    <3>6. Len(u) = Len(s) + Len(r) /\ Len(s) \in Nat /\ Len(r) \in Nat /\ IsSeq(u)
      BY <1>7, <3>2, <3>5, LenIs DEF Joined, SeqLike
    <3>7. Len(u) > l /\ Len(u) # 0 /\ l + 2 \in Nat /\ 1 <= l + 2 /\ l + 2 <= Len(s) + 1
      BY <1>10, <1>11, <1>14, <3>6
    <3>8. u # <<>>
      BY <3>6, <3>7, NoSeq
    <3>9. PICK t : t = SubSeq(u, l + 2, Len(u))
      OBVIOUS
    <3>10. t = left \o r
      BY <1>7, <2>1, <3>2, <3>3, <3>7, <3>9, CutJoined
    <3>11. InParts(t, g + 1, frames) /\ AllQueued(t, g + 1, frames)
      BY <1>7, <1>9, <1>11, <3>4, <3>7, <3>8, <3>9, NextFrames
    <3> QED BY <3>1, <3>10, <3>11
  <2>11. Listens(c)'
    <3>1. (\A i \in DOMAIN subscribers : subscribers[i].client = c =>
              LET parts == socket[c] \o Rest(subscribers[i])
              IN  InParts(parts, Len(client[c].got), due[c]) /\ AllQueued(parts, Len(client[c].got), due[c]))'
      BY <1>6, <2>2, <2>5, <2>7, <2>9, <2>10
    <3>2. InParts(socket[c], Len(client[c].got), due[c])'
      BY <1>6, <2>2, <2>5, <2>7, <2>8, <2>9
    <3> QED BY <1>8, <2>9, <3>1, <3>2 DEF Listens
  <2>12. Hears(c)'
    <3>1. DOMAIN frames = 1 .. Len(frames) /\ Len(frames) \in Nat
      BY <1>7, LenIs DEF GoodFrames
    <3>2. g + 1 <= Len(frames)
      BY <1>7, <1>10, <3>1
    <3>3. ASSUME NEW i \in 1 .. g + 1 PROVE more[i] = Frame(frames[i])
      <4>1. CASE i = g + 1
        BY <1>9, <2>7, <4>1
      <4>2. CASE i # g + 1
        <5>1. i \in 1 .. g
          BY <1>7, <4>2
        <5> QED BY <1>2, <1>4, <1>6, <1>7, <2>7, <5>1 DEF Hears
      <4> QED BY <4>1, <4>2
    <3> QED BY <1>6, <2>5, <2>7, <2>9, <3>2, <3>3 DEF Hears
  <2>13. ~IsReport(client[c].command) /\ Subscribes(c)'
    BY <1>1, <2>5 DEF Subscribes, IsReport
  <2>14. IsSeq(left)
    BY <2>8 DEF InParts
  <2>15. ClientInv(c)'
    BY <1>1, <1>2, <2>2, <2>5, <2>7, <2>9, <2>11, <2>12, <2>13, <2>14 DEF ClientInv, IsGone
  <2>16. OnlyAt(requests', requests, c)
    BY <2>9 DEF OnlyAt
  <2> QED BY <1>1, <2>2, <2>5, <2>15, <2>16, ClientMoves
<1> QED BY <1>12, <1>13, <1>14

-----------------------------------------------------------------------------
(* The steps of the daemon.                                                *)

(* It ends: nobody subscribes or waits, and all sockets are closed.        *)
LEMMA DaemonIsOver ==
    ASSUME TalkInv, NEW how, how # "runs", DaemonEnds(how), NEW c \in Client,
           UNCHANGED <<heard, view, client, moment, due>>,
           OnlyAt(requests', requests, c), OnlyAt(socket', socket, c),
           \/ requests'[c] = requests[c] /\ socket'[c] = socket[c]
           \/ /\ client[c].at \notin {"idle", "connected", "greeted"}
              /\ ~IsReport(client[c].command) /\ ~Subscribes(c)
              /\ IsSeq(requests'[c]) /\ IsSeq(socket'[c])
              /\ \A i \in DOMAIN requests'[c] : requests'[c][i].req = "pcap" => requests'[c][i].arg \in Nat
    PROVE  TalkInv'
<1>1. /\ daemon' # "runs" /\ talks' = Nobody /\ closed' = Client
      /\ DOMAIN subscribers' = {} /\ DOMAIN backlog' = {} /\ IsSeq(subscribers') /\ IsSeq(backlog')
  <2>1. PICK e : e = <<>>
    OBVIOUS
  <2>2. IsSeq(e) /\ DOMAIN e = 1 .. 0 /\ 1 .. 0 = {}
    BY <2>1, NoSeq DEF SeqLike
  <2> QED BY <2>1, <2>2 DEF DaemonEnds
<1>2. ServerInv'
  BY <1>1 DEF TalkInv, ServerInv, OnlyAt, GoodSubscribers, Subscribed
<1>3. Nobody \notin Client
  BY TalkAssumption
<1>4. ASSUME NEW d \in Client, requests'[d] = requests[d], socket'[d] = socket[d] PROVE ClientInv(d)'
  <2>1. Same(d)
    BY <1>1, <1>3, <1>4 DEF Same, Waits
  <2> QED BY <2>1, Undisturbed DEF TalkInv
<1>5. ASSUME client[c].at \notin {"idle", "connected", "greeted"},
             ~IsReport(client[c].command), ~Subscribes(c), IsSeq(requests'[c]), IsSeq(socket'[c]),
             \A i \in DOMAIN requests'[c] : requests'[c][i].req = "pcap" => requests'[c][i].arg \in Nat
      PROVE  ClientInv(c)'
  <2>1. ClientInv(c)
    BY DEF TalkInv
  <2>2. ~Subscribes(c)'
    BY <1>5 DEF Subscribes
  <2>3. ~Waits(c, backlog') /\ talks' # c
    BY <1>1, <1>3 DEF Waits
  <2> QED BY <1>1, <1>5, <2>1, <2>2, <2>3 DEF ClientInv
<1>6. ClientInv(c)'
  BY <1>4, <1>5
<1>7. ASSUME NEW d \in Client, d # c PROVE ClientInv(d)'
  BY <1>4, <1>7 DEF OnlyAt
<1> QED BY <1>2, <1>6, <1>7 DEF TalkInv

LEMMA FailsKeeps ==
    ASSUME TalkInv, NEW c \in Client, Fails
    PROVE  TalkInv'
<1>1. DaemonEnds("failed") /\ UNCHANGED <<heard, view, debug, client, requests, socket, moment, due, talkLeft>>
  BY DEF Fails
<1>2. OnlyAt(requests', requests, c) /\ OnlyAt(socket', socket, c)
  BY <1>1 DEF OnlyAt
<1>3. requests'[c] = requests[c] /\ socket'[c] = socket[c]
  BY <1>1
<1> QED BY <1>1, <1>2, <1>3, DaemonIsOver

LEMMA AcceptClientKeeps ==
    ASSUME TalkInv, AcceptClient
    PROVE  TalkInv'
<1>1. daemon = "runs" /\ talks = Nobody /\ backlog # <<>>
  BY DEF AcceptClient, LoopRuns
<1>2. PICK c : c = Head(backlog)
  OBVIOUS
<1>3. PICK b : b = backlog
  OBVIOUS
<1>4. PICK left : left = Tail(b)
  OBVIOUS
<1>5. ServerInv /\ Tailed(left, b) /\ c = b[1]
  BY <1>1, <1>2, <1>3, <1>4, TailIs DEF TalkInv, ServerInv, Tailed
<1>6. /\ Len(b) \in Nat /\ Len(b) >= 1 /\ IsSeq(left) /\ DOMAIN left = 1 .. Len(b) - 1 /\ DOMAIN b = 1 .. Len(b)
      /\ \A i \in 1 .. Len(b) - 1 : i + 1 \in 1 .. Len(b) /\ left[i] = b[i + 1]
  BY <1>5 DEF Tailed, SeqLike
<1>7. 1 \in DOMAIN b /\ c \in Client
  BY <1>3, <1>5, <1>6 DEF ServerInv
<1>8. CASE IsGone(c)
  <2>1. Fails
    BY <1>2, <1>8 DEF AcceptClient
  <2> QED BY <1>7, <2>1, FailsKeeps
<1>9. CASE ~IsGone(c)
  <2>1. /\ talks' = c /\ heard' = FALSE /\ backlog' = left
        /\ socket' = [socket EXCEPT ![c] = Append(@, [req |-> "id", data |-> 0])]
        /\ moment' = [moment EXCEPT ![c] = view]
        /\ UNCHANGED <<daemon, view, debug, subscribers, client, requests, closed, due, talkLeft>>
    BY <1>2, <1>3, <1>4, <1>9, Zenon DEF AcceptClient, WritesTo
  <2>2. ClientInv(c) /\ Waits(c, backlog) /\ ~Subscribed(c, subscribers)
    BY <1>3, <1>5, <1>7 DEF TalkInv, Waits, ServerInv
  <2>3. client[c].at \in {"connected", "greeted"}
    BY <1>9, <2>2 DEF ClientInv, Untouched, IsGone
  <2>4. Greets(c) /\ socket[c] = <<>>
    BY <2>2, <2>3 DEF ClientInv, Greets
  <2>5. PICK line : line = [req |-> "id", data |-> 0]
    OBVIOUS
  <2>6. OnlyAt(socket', socket, c) /\ socket'[c] = Append(socket[c], line)
    BY <1>5, <1>7, <2>1, <2>5 DEF ServerInv, OnlyAt
  <2>7. IsSeq(socket'[c]) /\ Len(socket'[c]) = 1
    <3>1. PICK s : s = socket[c]
      OBVIOUS
    <3>2. IsSeq(s) /\ Len(s) = 0
      BY <2>4, <3>1, NoSeq DEF SeqLike
    <3>3. Appended(socket'[c], s, line)
      BY <2>6, <3>1, <3>2, AppendIs
    <3> QED BY <3>2, <3>3 DEF Appended, SeqLike
  <2>8. OnlyAt(moment', moment, c) /\ moment'[c] = view
    BY <1>5, <1>7, <2>1 DEF ServerInv, OnlyAt
  <2>9. ASSUME NEW i \in DOMAIN left PROVE i + 1 \in DOMAIN b /\ left[i] = b[i + 1] /\ left[i] # c
    <3>1. i + 1 \in DOMAIN b /\ left[i] = b[i + 1] /\ i + 1 # 1
      BY <1>6
    <3> QED BY <1>3, <1>5, <1>7, <3>1 DEF ServerInv
  <2>10. ServerInv'
    <3>1. \A i \in DOMAIN backlog' : /\ backlog'[i] \in Client /\ backlog'[i] # talks'
                                     /\ ~Subscribed(backlog'[i], subscribers')
      BY <1>3, <1>5, <2>1, <2>9 DEF ServerInv
    <3>2. ASSUME NEW i \in DOMAIN left, NEW j \in DOMAIN left, left[i] = left[j] PROVE i = j
      <4>1. i + 1 = j + 1
        BY <1>3, <1>5, <2>9, <3>2 DEF ServerInv
      <4> QED BY <1>6, <4>1
    <3>3. \A i, j \in DOMAIN backlog' : backlog'[i] = backlog'[j] => i = j
      BY <2>1, <3>2
    <3>4. ~Subscribed(talks', subscribers')
      BY <2>1, <2>2
    <3>5. heard' \in BOOLEAN
      BY <2>1
    <3> QED BY <1>5, <1>6, <1>7, <2>1, <2>6, <2>8, <3>1, <3>3, <3>4, <3>5 DEF ServerInv, OnlyAt
  <2>11. ~Waits(c, backlog')
    BY <2>1, <2>9 DEF Waits
  <2>12. Greets(c)'
    <3>1. Len(socket'[c]) = 1 /\ ~heard' /\ view' = moment'[c]
      BY <2>1, <2>7, <2>8
    <3> QED BY <2>1, <2>2, <2>4, <2>11, <3>1 DEF Greets
  <2>13. ClientInv(c)'
    <3>1. GoodView(moment[c])'
      BY <1>5, <2>8 DEF ServerInv
    <3>2. (c \in closed => IsGone(c) \/ daemon # "runs")'
      BY <2>1, <2>2 DEF ClientInv, IsGone
    <3>3. (client[c].at # "idle" /\ Subscribes(c) => Hears(c))'
      BY <2>1, <2>2 DEF ClientInv, Hears, Subscribes
    <3> QED BY <2>1, <2>2, <2>3, <2>7, <2>12, <3>1, <3>2, <3>3 DEF ClientInv
  <2>14. ASSUME NEW d \in Client, d # c PROVE ClientInv(d)'
    <3>1. Waits(d, backlog') => Waits(d, backlog)
      BY <1>3, <2>1, <2>9 DEF Waits
    <3>2. talks' # d
      BY <2>1, <2>14
    <3>3. Same(d)
      BY <2>1, <2>6, <2>8, <2>14, <3>1, <3>2 DEF Same, OnlyAt
    <3> QED BY <3>3, Undisturbed DEF TalkInv
  <2> QED BY <2>10, <2>13, <2>14 DEF TalkInv
<1> QED BY <1>8, <1>9

LEMMA HeadOf ==
    ASSUME NEW c \in Client, NEW f, DOMAIN f = Client, IsSeq(f[c]), f[c] # <<>>,
           NEW g, g = [f EXCEPT ![c] = Tail(f[c])]
    PROVE  OnlyAt(g, f, c) /\ g[c] = Tail(f[c]) /\ Tailed(g[c], f[c]) /\ IsSeq(g[c]) /\ Head(f[c]) = f[c][1]
<1>1. OnlyAt(g, f, c) /\ g[c] = Tail(f[c])
  BY DEF OnlyAt
<1>2. Tailed(g[c], f[c])
  BY <1>1, TailIs
<1> QED BY <1>1, <1>2 DEF Tailed, SeqLike

LEMMA NextLineIs ==
    ASSUME TalkInv, NEW c \in Client, requests[c] # <<>>, NextLine(c)
    PROVE  /\ OnlyAt(requests', requests, c) /\ Tailed(requests'[c], requests[c]) /\ IsSeq(requests'[c])
           /\ requests'[c] = Tail(requests[c]) /\ NextRequest(c) = requests[c][1]
           /\ \A i \in DOMAIN requests'[c] : requests'[c][i].req = "pcap" => requests'[c][i].arg \in Nat
           /\ NextRequest(c).req = "pcap" => NextRequest(c).arg \in Nat
<1>1. ServerInv /\ ClientInv(c) /\ DOMAIN requests = Client /\ IsSeq(requests[c])
  BY DEF TalkInv, ServerInv, ClientInv
<1>2. /\ OnlyAt(requests', requests, c) /\ Tailed(requests'[c], requests[c]) /\ IsSeq(requests'[c])
      /\ requests'[c] = Tail(requests[c]) /\ Head(requests[c]) = requests[c][1]
  BY <1>1, HeadOf DEF NextLine
<1>3. NextRequest(c) = requests[c][1] /\ 1 \in DOMAIN requests[c]
  BY <1>2 DEF NextRequest, Tailed
<1>4. ASSUME NEW i \in DOMAIN requests'[c], requests'[c][i].req = "pcap" PROVE requests'[c][i].arg \in Nat
  <2>1. i + 1 \in DOMAIN requests[c] /\ requests'[c][i] = requests[c][i + 1]
    BY <1>2 DEF Tailed, SeqLike
  <2> QED BY <1>1, <1>4, <2>1 DEF ClientInv
<1> QED BY <1>1, <1>2, <1>3, <1>4 DEF ClientInv

LEMMA WritesToIs ==
    ASSUME TalkInv, NEW c \in Client, NEW line, WritesTo(c, line)
    PROVE  OnlyAt(socket', socket, c) /\ socket'[c] = Append(socket[c], line) /\ IsSeq(socket'[c])
           /\ Len(socket'[c]) = Len(socket[c]) + 1
<1>1. DOMAIN socket = Client /\ IsSeq(socket[c])
  BY DEF TalkInv, ServerInv, ClientInv
<1>2. OnlyAt(socket', socket, c) /\ socket'[c] = Append(socket[c], line)
  BY <1>1 DEF WritesTo, OnlyAt
<1>3. Appended(socket'[c], socket[c], line)
  BY <1>1, <1>2, AppendIs
<1> QED BY <1>2, <1>3 DEF Appended, SeqLike

LEMMA AuthenticateKeeps ==
    ASSUME TalkInv, NEW c \in Client, Authenticate(c)
    PROVE  TalkInv'
<1>1. talks = c /\ ~heard /\ daemon = "runs"
  BY DEF Authenticate, Talking
<1>2. CASE Fails
  BY <1>2, FailsKeeps
<1>3. CASE ~Fails
  <2>1. /\ requests[c] # <<>> /\ ~IsGone(c) /\ NextLine(c) /\ heard' = TRUE
        /\ WritesTo(c, [req |-> "ack", data |-> 0])
        /\ UNCHANGED <<daemon, talks, backlog, view, debug, subscribers, client, closed, moment, due, talkLeft>>
    BY <1>3, Zenon DEF Authenticate
  <2>2. ClientInv(c) /\ ServerInv
    BY DEF TalkInv
  <2>3. client[c].at \in {"connected", "greeted"}
    BY <1>1, <2>1, <2>2 DEF ClientInv, Untouched, IsGone
  <2>4. Greets(c)
    BY <2>2, <2>3 DEF ClientInv
  <2>5. client[c].at = "greeted" /\ requests[c] = <<[req |-> "id", arg |-> client[c].command.cookie]>>
    BY <2>1, <2>4 DEF Greets
  <2>6. Len(socket[c]) = 1 /\ view = moment[c] /\ ~Waits(c, backlog)
    BY <1>1, <2>2, <2>4 DEF Greets, ServerInv, Waits
  <2>7. /\ OnlyAt(requests', requests, c) /\ Tailed(requests'[c], requests[c]) /\ IsSeq(requests'[c])
        /\ \A i \in DOMAIN requests'[c] : requests'[c][i].req = "pcap" => requests'[c][i].arg \in Nat
    BY <2>1, NextLineIs
  <2>8. requests'[c] = <<>>
    <3>1. PICK x : x = [req |-> "id", arg |-> client[c].command.cookie]
      OBVIOUS
    <3>2. Len(requests[c]) = 1
      BY <2>5, <3>1, OneSeq DEF SeqLike
    <3>3. Len(requests'[c]) = 0
      BY <2>7, <3>2 DEF Tailed, SeqLike
    <3> QED BY <2>7, <3>3, NoSeq
  <2>9. OnlyAt(socket', socket, c) /\ IsSeq(socket'[c]) /\ Len(socket'[c]) = 2
    <3>1. OnlyAt(socket', socket, c) /\ IsSeq(socket'[c]) /\ Len(socket'[c]) = Len(socket[c]) + 1
      BY <2>1, WritesToIs
    <3> QED BY <2>6, <3>1
  <2>10. Greets(c)'
    <3>1. Len(socket'[c]) = 2 /\ heard' /\ view' = moment'[c] /\ ~Waits(c, backlog')
      BY <2>1, <2>6, <2>9
    <3> QED BY <2>1, <2>4, <2>5, <2>8, <3>1 DEF Greets
  <2>11. ClientInv(c)'
    <3>1. (c \in closed => IsGone(c) \/ daemon # "runs")'
      BY <2>1, <2>2 DEF ClientInv, IsGone
    <3>2. (client[c].at # "idle" /\ Subscribes(c) => Hears(c))'
      BY <2>1, <2>2 DEF ClientInv, Hears, Subscribes
    <3>3. GoodFrames(due[c])' /\ GoodView(moment[c])'
      BY <2>1, <2>2 DEF ClientInv
    <3> QED BY <2>1, <2>2, <2>5, <2>7, <2>9, <2>10, <3>1, <3>2, <3>3 DEF ClientInv
  <2>12. heard' \in BOOLEAN /\ GoodView(view)'
    BY <2>1, <2>2 DEF ServerInv
  <2> QED BY <1>1, <2>1, <2>7, <2>9, <2>11, <2>12, DaemonAnswers
<1> QED BY <1>2, <1>3

LEMMA HangUpKeeps ==
    ASSUME TalkInv, NEW c \in Client, HangUp(c)
    PROVE  TalkInv'
<1>1. /\ talks = c /\ IsGone(c) /\ talks' = Nobody /\ closed' = closed \union {c}
      /\ UNCHANGED <<daemon, heard, backlog, view, debug, subscribers, client, requests, socket, moment,
                     due, talkLeft>>
  BY DEF HangUp, Talking
<1>2. Nobody \notin Client
  BY TalkAssumption
<1>3. ~Subscribed(Nobody, subscribers) /\ ServerInv
  BY <1>2 DEF TalkInv, ServerInv, GoodSubscribers, GoodSubscriber, Subscribed
<1>4. ServerInv'
  <2>1. \A i \in DOMAIN backlog : backlog[i] # Nobody
    BY <1>2, <1>3 DEF ServerInv
  <2> QED BY <1>1, <1>3, <2>1 DEF ServerInv
<1>5. ASSUME NEW d \in Client, d # c PROVE ClientInv(d)'
  <2>1. Same(d)
    BY <1>1, <1>2, <1>5 DEF Same
  <2> QED BY <2>1, Undisturbed DEF TalkInv
<1>6. ClientInv(c)'
  <2>1. ClientInv(c) /\ client[c].at \in {"done", "failed", "gone"}
    BY <1>1 DEF TalkInv, IsGone
  <2>2. IsGone(c)'
    BY <1>1 DEF IsGone
  <2>3. (client[c].at # "idle" /\ Subscribes(c) => Hears(c))'
    BY <1>1, <2>1 DEF ClientInv, Hears, Subscribes
  <2> QED BY <1>1, <2>1, <2>2, <2>3 DEF ClientInv
<1> QED BY <1>4, <1>5, <1>6 DEF TalkInv

LEMMA SubscriberAdded ==
    ASSUME GoodSubscribers(subscribers), NEW s, GoodSubscriber(s), ~Subscribed(s.client, subscribers),
           NEW more, more = Append(subscribers, s)
    PROVE  /\ GoodSubscribers(more)
           /\ \A i \in DOMAIN more : \/ i \in DOMAIN subscribers /\ more[i] = subscribers[i]
                                     \/ more[i] = s
<1>1. PICK n : n = Len(subscribers)
  OBVIOUS
<1>2. IsSeq(subscribers) /\ n \in Nat /\ DOMAIN subscribers = 1 .. n
  BY <1>1, LenIs DEF GoodSubscribers
<1>3. Appended(more, subscribers, s)
  BY <1>2, AppendIs
<1>4. IsSeq(more) /\ DOMAIN more = 1 .. n + 1 /\ more[n + 1] = s /\ \A i \in 1 .. n : more[i] = subscribers[i]
  BY <1>1, <1>3 DEF Appended, SeqLike
<1>5. ASSUME NEW i \in DOMAIN more
      PROVE  (i \in DOMAIN subscribers /\ more[i] = subscribers[i]) \/ (i = n + 1 /\ more[i] = s)
  <2>1. i \in 1 .. n \/ i = n + 1
    BY <1>2, <1>4
  <2> QED BY <1>2, <1>4, <2>1
<1>6. \A i \in DOMAIN more : GoodSubscriber(more[i])
  BY <1>5 DEF GoodSubscribers
<1>7. ASSUME NEW i \in DOMAIN more, NEW j \in DOMAIN more, more[i].client = more[j].client PROVE i = j
  BY <1>5, <1>7 DEF GoodSubscribers, Subscribed
<1> QED BY <1>4, <1>5, <1>6, <1>7 DEF GoodSubscribers

LEMMA RegisterSubscriberKeeps ==
    ASSUME TalkInv, NEW c \in Client, RegisterSubscriber(c)
    PROVE  TalkInv'
<1>1. /\ daemon = "runs" /\ talks = c /\ heard /\ requests[c] # <<>> /\ NextRequest(c).req \in {"log", "pcap"}
      /\ NextLine(c) /\ talks' = Nobody
      /\ UNCHANGED <<daemon, heard, backlog, view, debug, client, socket, closed, moment, due, talkLeft>>
  BY DEF RegisterSubscriber, Request, Talking
<1>2. PICK e : e = <<>>
  OBVIOUS
<1>3. PICK level : level = Max({-1, Min({NextRequest(c).arg, 10})})
  OBVIOUS
<1>4. PICK s : s = [client |-> c, kind |-> NextRequest(c).req, level |-> level,
                    snaplen |-> NextRequest(c).arg, outbound |-> e, offset |-> 0]
  OBVIOUS
<1>5. subscribers' = Append(subscribers, s)
  BY <1>2, <1>3, <1>4, Zenon DEF RegisterSubscriber
<1>6. /\ OnlyAt(requests', requests, c) /\ Tailed(requests'[c], requests[c]) /\ IsSeq(requests'[c])
      /\ \A i \in DOMAIN requests'[c] : requests'[c][i].req = "pcap" => requests'[c][i].arg \in Nat
      /\ NextRequest(c).req = "pcap" => NextRequest(c).arg \in Nat
  BY <1>1, NextLineIs
<1>7. ServerInv /\ ClientInv(c) /\ ~Subscribed(c, subscribers) /\ Nobody \notin Client
  BY <1>1, TalkAssumption DEF TalkInv, ServerInv
<1>8. IsSeq(e) /\ Len(e) = 0
  BY <1>2, NoSeq DEF SeqLike
<1>9. 0 \in 0 .. Len(e)
  BY <1>8
<1>10. GoodSubscriber(s)
  BY <1>1, <1>4, <1>6, <1>8, <1>9 DEF GoodSubscriber
<1>11. s.client = c /\ s.outbound = e /\ s.offset = 0
  BY <1>4
<1>12. /\ GoodSubscribers(subscribers')
       /\ \A i \in DOMAIN subscribers' : \/ i \in DOMAIN subscribers /\ subscribers'[i] = subscribers[i]
                                         \/ subscribers'[i] = s
  BY <1>5, <1>7, <1>10, <1>11, SubscriberAdded DEF ServerInv
<1>13. ServerInv'
  <2>1. \A i \in DOMAIN backlog : backlog[i] # Nobody /\ ~Subscribed(backlog[i], subscribers')
    BY <1>1, <1>7, <1>11, <1>12 DEF ServerInv, Subscribed
  <2>2. ~Subscribed(Nobody, subscribers')
    BY <1>7, <1>12 DEF GoodSubscribers, GoodSubscriber, Subscribed
  <2> QED BY <1>1, <1>6, <1>7, <1>12, <2>1, <2>2 DEF ServerInv, OnlyAt
<1>14. ASSUME NEW d \in Client, d # c PROVE ClientInv(d)'
  <2>1. \A i \in DOMAIN subscribers' : subscribers'[i].client = d =>
           \E j \in DOMAIN subscribers : subscribers[j] = subscribers'[i]
    BY <1>11, <1>12, <1>14
  <2>2. talks' # d
    BY <1>1, <1>7
  <2>3. Same(d)
    BY <1>1, <1>6, <1>14, <2>1, <2>2 DEF Same, OnlyAt
  <2> QED BY <2>3, Undisturbed DEF TalkInv
<1>15. (client[c].at # "idle" /\ Subscribes(c) => Hears(c))'
  BY <1>1, <1>7 DEF ClientInv, Hears, Subscribes
<1>16. (c \in closed => IsGone(c) \/ daemon # "runs")'
  BY <1>1, <1>7 DEF ClientInv, IsGone
<1>17. ClientInv(c)'
  <2>1. CASE IsGone(c)
    <3>1. client'[c].at \in {"done", "failed", "gone"}
      BY <1>1, <2>1 DEF IsGone
    <3> QED BY <1>1, <1>6, <1>7, <1>15, <1>16, <3>1 DEF ClientInv
  <2>2. CASE ~IsGone(c)
    <3>1. client[c].at = "answers" /\ ~Waits(c, backlog)
      BY <1>1, <2>2, WhoAsks
    <3>2. ~IsReport(client[c].command)
      BY <1>1, <3>1, WhatIsAsked DEF Reported
    <3>3. ASSUME Subscribes(c) PROVE Listens(c)'
      <4>1. Len(requests[c]) = 1 /\ Listens(c)
        BY <1>1, <1>7, <3>1, <3>3, WhatIsAsked DEF ClientInv
      <4>2. Len(requests'[c]) = 0
        BY <1>6, <4>1 DEF Tailed, SeqLike
      <4>3. requests'[c] = <<>>
        BY <1>6, <4>2, NoSeq
      <4>4. client[c].got = e /\ due[c] = e /\ socket[c] = e
        BY <1>1, <1>2, <4>1 DEF Listens
      <4>5. Rest(s) = e
        <5>1. IsSeq(Rest(s)) /\ Len(Rest(s)) = 0 - 0
          BY <1>8, <1>10, <1>11, RestIs
        <5>2. Len(Rest(s)) = 0
          BY <5>1
        <5> QED BY <1>2, <5>1, <5>2, NoSeq
      <4>6. e \o e = e
        BY <1>2, <1>8, JoinNone
      <4>7. InParts(e, Len(e), e) /\ AllQueued(e, Len(e), e)
        <5>1. DOMAIN e = {}
          BY <1>8, LenIs
        <5> QED BY <1>2, <1>8, <5>1 DEF InParts, AllQueued
      <4>8. \A i \in DOMAIN subscribers' : subscribers'[i].client = c => subscribers'[i] = s
        BY <1>7, <1>12 DEF Subscribed
      <4>9. (\A i \in DOMAIN subscribers : subscribers[i].client = c =>
                LET parts == socket[c] \o Rest(subscribers[i])
                IN  InParts(parts, Len(client[c].got), due[c]) /\ AllQueued(parts, Len(client[c].got), due[c]))'
        BY <1>1, <4>4, <4>5, <4>6, <4>7, <4>8
      <4>10. InParts(socket[c], Len(client[c].got), due[c])'
        BY <1>1, <4>4, <4>7
      <4> QED BY <1>1, <1>7, <4>3, <4>9, <4>10 DEF Listens
    <3>4. Subscribes(c)' <=> Subscribes(c)
      BY <1>1 DEF Subscribes
    <3>5. ~Waits(c, backlog') /\ talks' # c
      BY <1>1, <1>7, <3>1
    <3> QED BY <1>1, <1>6, <1>7, <1>15, <1>16, <3>1, <3>2, <3>3, <3>4, <3>5 DEF ClientInv
  <2> QED BY <2>1, <2>2
<1> QED BY <1>13, <1>14, <1>17 DEF TalkInv

(* An answer is added to those of a report.                                *)
LEMMA AnswerGiven ==
    ASSUME NEW k, NEW got, NEW answers, NEW asks, NEW known, IsSeq(got), IsSeq(answers), IsSeq(asks), asks # <<>>,
           ReportFits(k, got, answers, asks, known), NEW line, line.req = asks[1].req,
           line.data = Shown(known, asks[1].req), NEW more, more = Append(answers, line),
           NEW left, left = Tail(asks)
    PROVE  ReportFits(k, got, more, left, known)
<1>1. PICK n : n = Len(got)
  OBVIOUS
<1>2. PICK a : a = Len(answers)
  OBVIOUS
<1>3. PICK q : q = Len(asks)
  OBVIOUS
<1>4. n \in Nat /\ a \in Nat /\ q \in Nat /\ DOMAIN answers = 1 .. a /\ DOMAIN asks = 1 .. q
  BY <1>1, <1>2, <1>3, LenIs
<1>5. Tailed(left, asks)
  BY TailIs
<1>6. /\ q >= 1 /\ DOMAIN left = 1 .. q - 1 /\ Len(left) = q - 1 /\ 1 \in 1 .. q
      /\ \A i \in 1 .. q - 1 : i + 1 \in 1 .. q /\ left[i] = asks[i + 1]
  BY <1>3, <1>4, <1>5 DEF Tailed, SeqLike
<1>7. Appended(more, answers, line)
  BY AppendIs
<1>8. /\ DOMAIN more = 1 .. a + 1 /\ Len(more) = a + 1 /\ more[a + 1] = line
      /\ \A i \in 1 .. a : more[i] = answers[i]
  BY <1>2, <1>7 DEF Appended, SeqLike
<1>9. /\ GotFits(k, got, known) /\ AsksSoFar(k, got) <= Len(k.requests)
      /\ n + a + q = AsksSoFar(k, got)
      /\ (\A i \in 1 .. a : answers[i].req = k.requests[n + i].req
                            /\ answers[i].data = Shown(known, k.requests[n + i].req))
      /\ \A i \in 1 .. q : asks[i] = k.requests[n + a + i]
  BY <1>1, <1>2, <1>3, <1>4 DEF ReportFits
<1>10. n + (a + 1) + (q - 1) = n + a + q /\ n + (a + 1) = n + a + 1
  BY <1>4
<1>11. asks[1] = k.requests[n + (a + 1)]
  BY <1>6, <1>9, <1>10
<1>12. ASSUME NEW i \in 1 .. a + 1
       PROVE  more[i].req = k.requests[n + i].req /\ more[i].data = Shown(known, k.requests[n + i].req)
  <2>1. CASE i = a + 1
    BY <1>8, <1>11, <2>1
  <2>2. CASE i # a + 1
    <3>1. i \in 1 .. a
      BY <1>4, <2>2
    <3> QED BY <1>8, <1>9, <3>1
  <2> QED BY <2>1, <2>2
<1>13. ASSUME NEW i \in 1 .. q - 1 PROVE left[i] = k.requests[n + (a + 1) + i]
  <2>1. n + a + (i + 1) = n + (a + 1) + i
    BY <1>4
  <2>2. left[i] = asks[i + 1] /\ i + 1 \in 1 .. q
    BY <1>6
  <2>3. asks[i + 1] = k.requests[n + a + (i + 1)]
    BY <1>9, <2>2
  <2> QED BY <2>1, <2>2, <2>3
<1>14. Len(got) + Len(more) + Len(left) = AsksSoFar(k, got)
  BY <1>1, <1>6, <1>8, <1>9, <1>10
<1> QED BY <1>1, <1>6, <1>8, <1>9, <1>12, <1>13, <1>14 DEF ReportFits

LEMMA DumpIsShown ==
    ASSUME NEW known, NEW req \in Reported
    PROVE  Dump(known, req) = Shown(known, req)
<1>1. CASE req = "nodes"
  BY <1>1 DEF Dump, Shown
<1>2. CASE req = "edges"
  BY <1>2 DEF Dump, Shown
<1>3. CASE req = "subnets"
  BY <1>3 DEF Dump, Shown
<1>4. CASE req = "traffic"
  BY <1>4 DEF Dump, Shown
<1> QED BY <1>1, <1>2, <1>3, <1>4 DEF Reported

(* Who neither reports nor subscribes is answered.                         *)
PlainlyAnswered(c) ==
    /\ client[c].at = "answers" /\ ~Waits(c, backlog) /\ ~Subscribed(c, subscribers)
    /\ ~IsReport(client[c].command) /\ ~Subscribes(c)
    /\ OnlyAt(requests', requests, c) /\ OnlyAt(socket', socket, c)
    /\ IsSeq(requests'[c]) /\ IsSeq(socket'[c])
    /\ \A i \in DOMAIN requests'[c] : requests'[c][i].req = "pcap" => requests'[c][i].arg \in Nat
LEMMA PlainlyIs ==
    ASSUME TalkInv, NEW c \in Client, NEW data, NEW kinds, Request(c, kinds), AnswerRequest(c, data),
           kinds \intersect (Reported \union {"log", "pcap"}) = {}
    PROVE  PlainlyAnswered(c)
<1>1. /\ talks = c /\ heard /\ requests[c] # <<>> /\ NextRequest(c).req \in kinds
      /\ ~IsGone(c) /\ NextLine(c) /\ WritesTo(c, [req |-> NextRequest(c).req, data |-> data])
  BY DEF Request, Talking, AnswerRequest
<1>2. client[c].at = "answers" /\ ~Waits(c, backlog) /\ ~Subscribed(c, subscribers)
  BY <1>1, WhoAsks
<1>3. ~IsReport(client[c].command)
  BY <1>1, <1>2, WhatIsAsked
<1>4. ~Subscribes(c)
  <2>1. Subscribes(c) => NextRequest(c).req \in {"log", "pcap"}
    BY <1>1, <1>2, WhatIsAsked DEF Subscribes
  <2> QED BY <1>1, <2>1
<1> QED BY <1>1, <1>2, <1>3, <1>4, NextLineIs, WritesToIs DEF PlainlyAnswered

LEMMA PlainClient ==
    ASSUME TalkInv, NEW c \in Client, PlainlyAnswered(c), talks = c, heard, daemon = "runs",
           UNCHANGED <<daemon, talks, heard, backlog, client, closed, moment>>,
           GoodFrames(due'[c])
    PROVE  ClientInv(c)'
<1>1. ClientInv(c)
  BY DEF TalkInv
<1>2. ~Subscribes(c)'
  BY DEF Subscribes, PlainlyAnswered
<1> QED BY <1>1, <1>2 DEF ClientInv, PlainlyAnswered, IsGone

LEMMA PlainAnswerKeeps ==
    ASSUME TalkInv, NEW c \in Client, NEW data, NEW kinds, Request(c, kinds), AnswerRequest(c, data),
           kinds \intersect (Reported \union {"log", "pcap"}) = {}, GoodView(view)',
           UNCHANGED <<daemon, talks, heard, backlog, subscribers, client, closed, moment, due>>
    PROVE  TalkInv'
<1>1. PlainlyAnswered(c)
  BY PlainlyIs
<1>2. talks = c /\ heard /\ daemon = "runs" /\ heard' \in BOOLEAN
  BY DEF Request, Talking, TalkInv, ServerInv
<1>3. GoodFrames(due'[c])
  BY DEF TalkInv, ClientInv
<1>4. ClientInv(c)'
  BY <1>1, <1>2, <1>3, PlainClient
<1> QED BY <1>1, <1>2, <1>4, DaemonAnswers DEF PlainlyAnswered

LEMMA AnswerDumpKeeps ==
    ASSUME TalkInv, NEW c \in Client, AnswerDump(c)
    PROVE  TalkInv'
<1>1. /\ Request(c, Dumps) /\ AnswerRequest(c, Dump(view, NextRequest(c).req))
      /\ UNCHANGED <<daemon, talks, heard, backlog, view, debug, subscribers, client, closed, moment, due>>
  BY DEF AnswerDump, talkServer
<1>2. GoodView(view)' /\ heard' \in BOOLEAN /\ ClientInv(c)
  BY <1>1 DEF TalkInv, ServerInv
<1>3. PICK line : line = [req |-> NextRequest(c).req, data |-> Dump(view, NextRequest(c).req)]
  OBVIOUS
<1>4. /\ daemon = "runs" /\ talks = c /\ heard /\ requests[c] # <<>> /\ NextRequest(c).req \in Dumps
      /\ ~IsGone(c) /\ NextLine(c) /\ WritesTo(c, line)
  BY <1>1, <1>3 DEF Request, Talking, AnswerRequest
<1>5. client[c].at = "answers" /\ ~Waits(c, backlog) /\ ~Subscribed(c, subscribers)
  BY <1>4, WhoAsks
<1>6. CASE ~IsReport(client[c].command)
  <2>1. NextRequest(c).req \notin {"log", "pcap"}
    BY <1>4 DEF Dumps
  <2>2. ~Subscribes(c)
    <3>1. Subscribes(c) => NextRequest(c).req \in {"log", "pcap"}
      BY <1>4, <1>5, WhatIsAsked DEF Subscribes
    <3> QED BY <2>1, <3>1
  <2>3. PlainlyAnswered(c)
    BY <1>4, <1>5, <1>6, <2>2, NextLineIs, WritesToIs DEF PlainlyAnswered
  <2>4. GoodFrames(due'[c])
    BY <1>1, <1>2 DEF ClientInv
  <2>5. ClientInv(c)'
    BY <1>1, <1>4, <2>3, <2>4, PlainClient
  <2> QED BY <1>1, <1>2, <1>4, <2>3, <2>5, DaemonAnswers DEF PlainlyAnswered
<1>7. CASE IsReport(client[c].command)
  <2>1. NextRequest(c).req \in Reported
    BY <1>4, <1>5, <1>7, WhatIsAsked
  <2>2. /\ OnlyAt(requests', requests, c) /\ IsSeq(requests'[c])
        /\ requests'[c] = Tail(requests[c]) /\ NextRequest(c) = requests[c][1]
        /\ \A i \in DOMAIN requests'[c] : requests'[c][i].req = "pcap" => requests'[c][i].arg \in Nat
    BY <1>4, NextLineIs
  <2>3. OnlyAt(socket', socket, c) /\ socket'[c] = Append(socket[c], line) /\ IsSeq(socket'[c])
    BY <1>4, WritesToIs
  <2>4. Reports(c) /\ view = moment[c]
    BY <1>2, <1>4, <1>5, <1>7 DEF ClientInv, Reports
  <2>5. line.req = requests[c][1].req /\ line.data = Shown(moment[c], requests[c][1].req)
    BY <1>3, <2>1, <2>2, <2>4, DumpIsShown
  <2>6. PICK k : k = client[c].command
    OBVIOUS
  <2>7. PICK g : g = client[c].got
    OBVIOUS
  <2>8. IsSeq(g) /\ IsSeq(socket[c]) /\ IsSeq(requests[c]) /\ ReportFits(k, g, socket[c], requests[c], moment[c])
    BY <1>2, <2>4, <2>6, <2>7 DEF ClientInv, Reports
  <2>9. ReportFits(k, g, socket'[c], requests'[c], moment[c])
    BY <1>4, <2>2, <2>3, <2>5, <2>8, AnswerGiven
  <2>10. Reports(c)'
    BY <1>1, <1>5, <2>4, <2>6, <2>7, <2>9 DEF Reports
  <2>11. ~Subscribes(c)'
    BY <1>1, <1>7 DEF Subscribes, IsReport
  <2>12. ClientInv(c)'
    BY <1>1, <1>2, <1>4, <1>5, <2>2, <2>3, <2>10, <2>11 DEF ClientInv, IsGone
  <2> QED BY <1>1, <1>2, <1>4, <2>2, <2>3, <2>12, DaemonAnswers
<1> QED BY <1>6, <1>7

LEMMA RetryKeeps ==
    ASSUME TalkInv, NEW c \in Client, Retry(c) \/ AnswerUnknown(c) \/ SetDebug(c)
    PROVE  TalkInv'
<1>1. /\ \E data, kinds : /\ Request(c, kinds) /\ AnswerRequest(c, data)
                          /\ kinds \intersect (Reported \union {"log", "pcap"}) = {}
      /\ UNCHANGED <<daemon, talks, heard, backlog, view, subscribers, client, closed, moment, due>>
  <2>1. CASE Retry(c)
    BY <2>1 DEF Retry, Reported, talkServer
  <2>2. CASE AnswerUnknown(c)
    BY <2>2 DEF AnswerUnknown, Reported, talkServer
  <2>3. CASE SetDebug(c)
    BY <2>3 DEF SetDebug, Reported
  <2> QED BY <2>1, <2>2, <2>3
<1>2. GoodView(view)'
  BY <1>1 DEF TalkInv, ServerInv
<1> QED BY <1>1, <1>2, PlainAnswerKeeps

LEMMA PurgeKeeps ==
    ASSUME TalkInv, NEW c \in Client, Purge(c)
    PROVE  TalkInv'
<1>1. /\ Request(c, {"purge"}) /\ AnswerRequest(c, 0) /\ view' = PurgeUnreachable
      /\ UNCHANGED <<daemon, talks, heard, backlog, subscribers, client, closed, moment, due>>
  BY DEF Purge
<1>2. GoodView(view)
  BY DEF TalkInv, ServerInv
<1>3. PICK lost : lost = view.node \ Reachable(view.edge)
  OBVIOUS
<1>4. Me \notin lost
  BY <1>3, ReachableIs DEF IsReached
<1>5. PICK kept : kept = {e \in view.edge : e[1] \notin lost}
  OBVIOUS
<1>6. PICK nodes : nodes = {n \in view.node : n \in lost => \E e \in kept : e[2] = n}
  OBVIOUS
<1>7. view' = [view EXCEPT !.edge = kept, !.subnet = @ \ lost, !.node = nodes]
  BY <1>1, <1>3, <1>5, <1>6, Zenon DEF PurgeUnreachable
<1>8. kept \subseteq nodes \X nodes
  <2>1. SUFFICES ASSUME NEW e \in kept PROVE e \in nodes \X nodes
    OBVIOUS
  <2>2. e \in view.node \X view.node /\ e[1] \notin lost
    BY <1>2, <1>5 DEF GoodView
  <2>3. e[1] \in nodes /\ e[2] \in nodes
    BY <1>6, <2>2
  <2> QED BY <2>2, <2>3
<1>9. GoodView(view)'
  BY <1>2, <1>4, <1>5, <1>6, <1>7, <1>8 DEF GoodView, View
<1>10. {"purge"} \intersect (Reported \union {"log", "pcap"}) = {}
  BY DEF Reported
<1> QED BY <1>1, <1>9, <1>10, PlainAnswerKeeps

LEMMA DisconnectKeeps ==
    ASSUME TalkInv, NEW c \in Client, Disconnect(c)
    PROVE  TalkInv'
<1>1. /\ Request(c, {"disconnect"})
      /\ \E data : AnswerRequest(c, data)
      /\ \E peer, edge : /\ view' = [view EXCEPT !.peer = peer, !.edge = edge]
                         /\ peer \subseteq view.peer /\ edge \subseteq view.edge
      /\ UNCHANGED <<daemon, talks, heard, backlog, subscribers, client, closed, moment, due>>
  <2>1. PICK peer : peer = view.peer \ {NextRequest(c).arg}
    OBVIOUS
  <2>2. PICK edge : edge = view.edge \ {<<Me, NextRequest(c).arg>>}
    OBVIOUS
  <2>3. view' = [view EXCEPT !.peer = peer, !.edge = edge]
    BY <2>1, <2>2 DEF Disconnect
  <2>4. peer \subseteq view.peer /\ edge \subseteq view.edge
    BY <2>1, <2>2
  <2> QED BY <2>3, <2>4 DEF Disconnect
<1>2. GoodView(view)
  BY DEF TalkInv, ServerInv
<1>3. GoodView(view)'
  BY <1>1, <1>2 DEF GoodView, View
<1>4. {"disconnect"} \intersect (Reported \union {"log", "pcap"}) = {}
  BY DEF Reported
<1> QED BY <1>1, <1>3, <1>4, PlainAnswerKeeps

LEMMA StopKeeps ==
    ASSUME TalkInv, NEW c \in Client, Stop(c)
    PROVE  TalkInv'
<1>1. /\ Request(c, {"stop"}) /\ DaemonEnds("stopped") /\ UNCHANGED <<heard, view, debug, client, moment, due>>
      /\ AnswerRequest(c, 0)
  BY DEF Stop, AnswerRequest, Request
<1>2. {"stop"} \intersect (Reported \union {"log", "pcap"}) = {}
  BY DEF Reported
<1>3. PlainlyAnswered(c)
  BY <1>1, <1>2, PlainlyIs
<1> QED BY <1>1, <1>3, DaemonIsOver DEF PlainlyAnswered

-----------------------------------------------------------------------------
(* The loop.                                                               *)

(* More is due to one client; the rest is left alone.                      *)
Retains(d) ==
    /\ client'[d] = client[d] /\ requests'[d] = requests[d] /\ socket'[d] = socket[d]
    /\ moment'[d] = moment[d] /\ backlog' = backlog /\ closed' = closed /\ daemon' = daemon
    /\ (talks' = d => talks = d /\ heard' = heard /\ view' = view)
    /\ DOMAIN subscribers' = DOMAIN subscribers
    /\ \A i \in DOMAIN subscribers : subscribers'[i].client = subscribers[i].client
LEMMA Grown ==
    ASSUME NEW d \in Client, ClientInv(d), GoodSubscribers(subscribers), Retains(d), DueGrows(d)
    PROVE  ClientInv(d)'
<1>1. CASE /\ due'[d] = due[d]
           /\ \A i \in DOMAIN subscribers : subscribers[i].client = d => subscribers'[i] = subscribers[i]
  <2>1. \A i \in DOMAIN subscribers' : subscribers'[i].client = d =>
           \E j \in DOMAIN subscribers : subscribers[j] = subscribers'[i]
    BY <1>1 DEF Retains
  <2>2. Same(d)
    BY <1>1, <2>1 DEF Same, Retains
  <2> QED BY <2>2, Undisturbed
<1>2. CASE \E f :
             /\ f.number = Len(due[d]) + 1 /\ f.len \in Nat /\ due'[d] = Append(due[d], f)
             /\ Subscribed(d, subscribers)
             /\ \A i \in DOMAIN subscribers :
                   subscribers[i].client = d => Longer(subscribers'[i], subscribers[i], f)
  <2>1. PICK f :
             /\ f.number = Len(due[d]) + 1 /\ f.len \in Nat /\ due'[d] = Append(due[d], f)
             /\ Subscribed(d, subscribers)
             /\ \A i \in DOMAIN subscribers :
                   subscribers[i].client = d => Longer(subscribers'[i], subscribers[i], f)
    BY <1>2
  <2>2. PICK frames : frames = due[d]
    OBVIOUS
  <2>3. PICK more : more = Append(frames, f)
    OBVIOUS
  <2>4. GoodFrames(frames) /\ f.number = Len(frames) + 1 /\ due'[d] = more
    BY <2>1, <2>2, <2>3 DEF ClientInv
  <2>5. GoodFrames(more)
    BY <2>1, <2>3, <2>4, FramesGrow
  <2>6. /\ client'[d] = client[d] /\ requests'[d] = requests[d] /\ socket'[d] = socket[d]
        /\ moment'[d] = moment[d] /\ backlog' = backlog /\ closed' = closed /\ daemon' = daemon
        /\ (talks' = d => talks = d /\ heard' = heard /\ view' = view)
    BY DEF Retains
  <2>7. client[d].at \notin {"idle", "connected", "greeted"}
    BY <2>1 DEF ClientInv, Untouched, Greets
  <2>8. client[d].at = "answers" => ~IsReport(client[d].command)
    BY <2>1 DEF ClientInv, Reports
  <2>9. ASSUME client[d].at = "answers", Subscribes(d) PROVE Listens(d)'
    <3>1. Listens(d) /\ IsSeq(socket[d]) /\ IsSeq(client[d].got)
      BY <2>9 DEF ClientInv
    <3>2. requests[d] = <<>> /\ talks # d
      BY <2>1, <3>1 DEF Listens
    <3>3. PICK s : s = socket[d]
      OBVIOUS
    <3>4. PICK g : g = Len(client[d].got)
      OBVIOUS
    <3>5. g \in Nat /\ IsSeq(s)
      BY <3>1, <3>3, <3>4, LenIs
    <3>6. InParts(s, g, more)
      BY <2>2, <2>3, <2>4, <3>1, <3>3, <3>4, PartsOfMore DEF Listens
    <3>7. ASSUME NEW i \in DOMAIN subscribers, subscribers[i].client = d
          PROVE  /\ InParts(s \o Rest(subscribers'[i]), g, more)
                 /\ AllQueued(s \o Rest(subscribers'[i]), g, more)
      <4>1. PICK r : r = Rest(subscribers[i])
        OBVIOUS
      <4>2. IsSeq(r) /\ IsSeq(Frame(f))
        BY <2>1, <4>1, RestIs, FrameIs DEF GoodSubscribers, SeqLike
      <4>3. Rest(subscribers'[i]) = r \o Frame(f)
        BY <2>1, <3>7, <4>1 DEF Longer
      <4>4. PICK u : u = s \o r
        OBVIOUS
      <4>5. s \o Rest(subscribers'[i]) = u \o Frame(f)
        BY <3>5, <4>2, <4>3, <4>4, Regroup
      <4>6. InParts(u, g, frames) /\ AllQueued(u, g, frames)
        BY <2>2, <3>1, <3>3, <3>4, <3>7, <4>1, <4>4 DEF Listens
      <4>7. InParts(u \o Frame(f), g, more) /\ AllQueued(u \o Frame(f), g, more)
        BY <2>1, <2>3, <2>4, <3>5, <4>6, FrameQueued
      <4> QED BY <4>5, <4>7
    <3>8. (\A i \in DOMAIN subscribers : subscribers[i].client = d =>
              LET parts == socket[d] \o Rest(subscribers[i])
              IN  InParts(parts, Len(client[d].got), due[d]) /\ AllQueued(parts, Len(client[d].got), due[d]))'
      BY <2>4, <2>6, <3>3, <3>4, <3>7 DEF Retains
    <3>9. InParts(socket[d], Len(client[d].got), due[d])'
      BY <2>4, <2>6, <3>3, <3>4, <3>6
    <3>10. talks' # d
      BY <2>6, <3>2
    <3> QED BY <2>6, <3>2, <3>8, <3>9, <3>10 DEF Listens
  <2>10. ASSUME Hears(d) PROVE Hears(d)'
    <3>1. Appended(more, frames, f) /\ IsSeq(frames)
      BY <2>3, <2>4, AppendIs DEF GoodFrames
    <3>2. /\ Len(frames) \in Nat /\ Len(more) = Len(frames) + 1
          /\ \A i \in 1 .. Len(frames) : more[i] = frames[i]
      BY <3>1 DEF Appended, SeqLike
    <3>3. PICK got : got = client[d].got
      OBVIOUS
    <3>4. IsSeq(got) /\ Len(got) <= Len(frames) /\ \A i \in DOMAIN got : got[i] = Frame(frames[i])
      BY <2>2, <2>10, <3>3 DEF Hears, ClientInv
    <3>5. Len(got) \in Nat /\ DOMAIN got = 1 .. Len(got)
      BY <3>4, LenIs
    <3>6. Len(got) <= Len(more)
      BY <3>2, <3>4, <3>5
    <3>7. \A i \in DOMAIN got : i \in 1 .. Len(frames)
      BY <3>2, <3>4, <3>5
    <3>8. \A i \in DOMAIN got : got[i] = Frame(more[i])
      BY <3>2, <3>4, <3>7
    <3> QED BY <2>4, <2>6, <3>3, <3>6, <3>8 DEF Hears
  <2>11. (client[d].at # "idle" /\ Subscribes(d) => Hears(d))'
    BY <2>6, <2>10 DEF ClientInv, Subscribes
  <2>12. Subscribes(d)' <=> Subscribes(d)
    BY <2>6 DEF Subscribes
  <2>13. (d \in closed => IsGone(d) \/ daemon # "runs")'
    BY <2>6 DEF ClientInv, IsGone
  <2>14. (client[d].at = "answers" =>
            /\ ~Waits(d, backlog) /\ (talks = d => heard)
            /\ IsReport(client[d].command) => Reports(d)
            /\ Subscribes(d) => Listens(d))'
    BY <2>6, <2>8, <2>9, <2>12 DEF ClientInv
  <2> QED BY <2>4, <2>5, <2>6, <2>7, <2>11, <2>13, <2>14 DEF ClientInv
<1> QED BY <1>1, <1>2 DEF DueGrows

LEMMA PublishKeeps ==
    ASSUME TalkInv, talks = Nobody,
           UNCHANGED <<daemon, talks, heard, backlog, client, requests, socket, closed, moment>>,
           GoodView(view)', NEW entry, entry.size \in Nat, Publish(entry)
    PROVE  TalkInv'
<1>1. ServerInv /\ Clients /\ Nobody \notin Client
  BY TalkAssumption DEF TalkInv, Clients
<1>2. GoodSubscribers(subscribers) /\ \A c \in Client : GoodFrames(due[c])
  BY <1>1 DEF ServerInv, Clients, ClientInv
<1>3. /\ GoodSubscribers(subscribers') /\ DOMAIN subscribers' = DOMAIN subscribers
      /\ \A i \in DOMAIN subscribers : subscribers'[i].client = subscribers[i].client
      /\ DOMAIN due' = Client /\ \A c \in Client : DueGrows(c)
  BY <1>2, Published
<1>4. \A c : Subscribed(c, subscribers') <=> Subscribed(c, subscribers)
  BY <1>3 DEF Subscribed
<1>5. ServerInv'
  BY <1>1, <1>3, <1>4 DEF ServerInv
<1>6. ASSUME NEW d \in Client PROVE ClientInv(d)'
  <2>1. talks' # d
    BY <1>1
  <2>2. Retains(d)
    BY <1>3, <2>1 DEF Retains
  <2>3. ClientInv(d) /\ DueGrows(d)
    BY <1>1, <1>3 DEF Clients
  <2> QED BY <1>2, <2>2, <2>3, Grown
<1> QED BY <1>5, <1>6 DEF TalkInv

LEMMA ReloadFilesKeeps ==
    ASSUME TalkInv, NEW c \in Client, ReloadFiles(c)
    PROVE  TalkInv'
<1>1. /\ Request(c, {"reload"}) /\ \E result : AnswerRequest(c, result)
      /\ Publish(LogEntry(0, 1))
      /\ UNCHANGED <<daemon, talks, heard, backlog, view, debug, client, closed, moment, talkLeft>>
  BY DEF ReloadFiles
<1>2. {"reload"} \intersect (Reported \union {"log", "pcap"}) = {}
  BY DEF Reported
<1>3. PlainlyAnswered(c)
  BY <1>1, <1>2, PlainlyIs
<1>4. talks = c /\ heard /\ daemon = "runs"
  BY <1>1 DEF Request, Talking
<1>5. ServerInv /\ Clients
  BY DEF TalkInv, Clients
<1>6. GoodSubscribers(subscribers) /\ \A d \in Client : GoodFrames(due[d])
  BY <1>5 DEF ServerInv, Clients, ClientInv
<1>7. PICK entry : entry = LogEntry(0, 1)
  OBVIOUS
<1>8. entry.size \in Nat /\ Publish(entry)
  BY <1>1, <1>7 DEF LogEntry
<1>9. /\ GoodSubscribers(subscribers') /\ DOMAIN subscribers' = DOMAIN subscribers
      /\ \A i \in DOMAIN subscribers : subscribers'[i].client = subscribers[i].client
      /\ DOMAIN due' = Client /\ \A d \in Client : DueGrows(d)
  BY <1>6, <1>8, Published
<1>10. \A d : Subscribed(d, subscribers') <=> Subscribed(d, subscribers)
  BY <1>9 DEF Subscribed
<1>11. ServerInv'
  BY <1>1, <1>3, <1>5, <1>9, <1>10 DEF ServerInv, PlainlyAnswered, OnlyAt
<1>12. ASSUME NEW d \in Client, d # c PROVE ClientInv(d)'
  <2>1. Retains(d)
    BY <1>1, <1>3, <1>4, <1>9, <1>12 DEF Retains, PlainlyAnswered, OnlyAt
  <2>2. ClientInv(d) /\ DueGrows(d)
    BY <1>5, <1>9 DEF Clients
  <2> QED BY <1>6, <2>1, <2>2, Grown
<1>13. ClientInv(c)'
  <2>1. ~Subscribed(c, subscribers) /\ DueGrows(c)
    BY <1>3, <1>9 DEF PlainlyAnswered
  <2>2. due'[c] = due[c]
    BY <2>1 DEF DueGrows
  <2>3. GoodFrames(due'[c])
    BY <1>6, <2>2
  <2> QED BY <1>1, <1>3, <1>4, <2>3, PlainClient
<1> QED BY <1>11, <1>12, <1>13 DEF TalkInv

LEMMA WorldKeeps ==
    ASSUME TalkInv, talks = Nobody, GoodView(view)', UNCHANGED <<LoopAround, subscribers, due>>
    PROVE  TalkInv'
<1>1. Nobody \notin Client
  BY TalkAssumption
<1>2. ServerInv'
  BY DEF TalkInv, ServerInv, LoopAround
<1>3. ASSUME NEW d \in Client PROVE ClientInv(d)'
  <2>1. Same(d)
    BY <1>1 DEF Same, LoopAround
  <2> QED BY <2>1, Undisturbed DEF TalkInv
<1> QED BY <1>2, <1>3 DEF TalkInv

LEMMA MeshChangesKeeps ==
    ASSUME TalkInv, MeshChanges
    PROVE  TalkInv'
<1>1. /\ talks = Nobody /\ UNCHANGED <<LoopAround, subscribers, due>>
      /\ \E a, b \in view.node :
            view' = IF <<a, b>> \in view.edge THEN [view EXCEPT !.edge = @ \ {<<a, b>>}]
                    ELSE [view EXCEPT !.edge = @ \union {<<a, b>>}]
  BY Zenon DEF MeshChanges, Happens, LoopRuns
<1>2. GoodView(view)
  BY DEF TalkInv, ServerInv
<1>3. GoodView(view)'
  <2>1. PICK a \in view.node, b \in view.node :
            view' = IF <<a, b>> \in view.edge THEN [view EXCEPT !.edge = @ \ {<<a, b>>}]
                    ELSE [view EXCEPT !.edge = @ \union {<<a, b>>}]
    BY <1>1
  <2>2. PICK edge : edge = IF <<a, b>> \in view.edge THEN view.edge \ {<<a, b>>} ELSE view.edge \union {<<a, b>>}
    OBVIOUS
  <2>3. view' = [view EXCEPT !.edge = edge]
    BY <2>1, <2>2
  <2>4. edge \subseteq view.node \X view.node
    BY <1>2, <2>2 DEF GoodView
  <2> QED BY <1>2, <2>3, <2>4 DEF GoodView, View
<1> QED BY <1>1, <1>3, WorldKeeps

LEMMA NodeAppearsKeeps ==
    ASSUME TalkInv, NodeAppears
    PROVE  TalkInv'
<1>1. /\ talks = Nobody /\ UNCHANGED <<LoopAround, subscribers, due>>
      /\ \E n \in Mesh \ view.node :
            view' = [view EXCEPT !.node = @ \union {n}, !.edge = @ \union {<<Me, n>>, <<n, Me>>},
                                 !.subnet = @ \union {n}, !.peer = @ \union {n}]
  BY DEF NodeAppears, Happens, LoopRuns
<1>2. GoodView(view)
  BY DEF TalkInv, ServerInv
<1>3. GoodView(view)'
  <2>1. PICK n \in Mesh :
            view' = [view EXCEPT !.node = @ \union {n}, !.edge = @ \union {<<Me, n>>, <<n, Me>>},
                                 !.subnet = @ \union {n}, !.peer = @ \union {n}]
    BY <1>1
  <2>2. /\ view'.node = view.node \union {n} /\ view'.edge = view.edge \union {<<Me, n>>, <<n, Me>>}
        /\ view'.subnet = view.subnet \union {n} /\ view'.peer = view.peer \union {n}
        /\ view'.traffic = view.traffic
        /\ view' = [node |-> view'.node, edge |-> view'.edge, subnet |-> view'.subnet,
                    peer |-> view'.peer, traffic |-> view'.traffic]
    BY <1>2, <2>1 DEF GoodView, View
  <2>3. view'.edge \subseteq view'.node \X view'.node
    BY <1>2, <2>2 DEF GoodView
  <2>4. view'.node \subseteq Mesh /\ view'.edge \subseteq Mesh \X Mesh /\ Me \in view'.node
    BY <1>2, <2>2, <2>3 DEF GoodView, View
  <2>5. view'.subnet \subseteq Mesh /\ view'.peer \subseteq Mesh /\ view'.traffic \in [Mesh -> Nat]
    BY <1>2, <2>2 DEF GoodView, View
  <2> QED BY <2>2, <2>3, <2>4, <2>5 DEF GoodView, View
<1> QED BY <1>1, <1>3, WorldKeeps

LEMMA PacketComesKeeps ==
    ASSUME TalkInv, PacketComes
    PROVE  TalkInv'
<1>1. /\ talks = Nobody /\ UNCHANGED LoopAround
      /\ \E n \in view.node, size \in DataSizes :
            /\ view' = [view EXCEPT !.traffic[n] = @ + 1]
            /\ Publish([kind |-> "pcap", level |-> 0, size |-> size])
  BY DEF PacketComes, Happens, LoopRuns
<1>2. PICK n \in view.node, size \in DataSizes :
            /\ view' = [view EXCEPT !.traffic[n] = @ + 1]
            /\ Publish([kind |-> "pcap", level |-> 0, size |-> size])
  BY <1>1
<1>3. GoodView(view)
  BY DEF TalkInv, ServerInv
<1>4. GoodView(view)'
  <2>1. PICK t : t = [view.traffic EXCEPT ![n] = @ + 1]
    OBVIOUS
  <2>2. view' = [view EXCEPT !.traffic = t]
    BY <1>2, <1>3, <2>1 DEF GoodView, View
  <2>3. t \in [Mesh -> Nat]
    BY <1>3, <2>1 DEF GoodView, View
  <2> QED BY <1>3, <2>2, <2>3 DEF GoodView, View
<1>5. PICK entry : entry = [kind |-> "pcap", level |-> 0, size |-> size]
  OBVIOUS
<1>6. Publish(entry) /\ entry.size \in Nat
  BY <1>2, <1>5, TalkAssumption
<1> QED BY <1>1, <1>4, <1>6, PublishKeeps DEF LoopAround

LEMMA RecordLogKeeps ==
    ASSUME TalkInv, RecordLog
    PROVE  TalkInv'
<1>1. PICK level \in 0 .. 1, size \in DataSizes : Publish(LogEntry(level, size))
  BY DEF RecordLog
<1>2. talks = Nobody /\ UNCHANGED <<LoopAround, view>>
  BY DEF RecordLog, Happens, LoopRuns
<1>3. PICK entry : entry = LogEntry(level, size)
  OBVIOUS
<1>4. Publish(entry) /\ entry.size \in Nat
  BY <1>1, <1>3, TalkAssumption DEF LogEntry
<1>5. GoodView(view)'
  BY <1>2 DEF TalkInv, ServerInv
<1> QED BY <1>2, <1>4, <1>5, PublishKeeps DEF LoopAround

LEMMA RemovalKeeps ==
    ASSUME TalkInv, NEW k \in DOMAIN subscribers, subscribers' = RemoveAt(subscribers, k),
           UNCHANGED <<daemon, talks, heard, backlog, view, client, requests, socket, closed, moment, due>>
    PROVE  TalkInv'
<1>1. PICK ss : ss = subscribers
  OBVIOUS
<1>2. PICK n : n = Len(ss)
  OBVIOUS
<1>3. IsSeq(ss) /\ n \in Nat /\ DOMAIN ss = 1 .. n /\ k \in DOMAIN ss /\ GoodSubscribers(ss) /\ ServerInv
  BY <1>1, <1>2, LenIs DEF TalkInv, ServerInv, GoodSubscribers
<1>4. /\ SeqLike(subscribers', n - 1)
      /\ \A i \in 1 .. n - 1 :
            subscribers'[i] = ss[IF i < k THEN i ELSE i + 1] /\ (IF i < k THEN i ELSE i + 1) \in DOMAIN ss
  BY <1>1, <1>2, <1>3, RemovedAt
<1>5. IsSeq(subscribers') /\ DOMAIN subscribers' = 1 .. n - 1
  BY <1>4 DEF SeqLike
<1>6. \A i \in DOMAIN subscribers' : \E j \in DOMAIN ss : ss[j] = subscribers'[i]
  BY <1>4, <1>5
<1>7. ASSUME NEW i \in DOMAIN subscribers', NEW j \in DOMAIN subscribers',
             subscribers'[i].client = subscribers'[j].client
      PROVE  i = j
  <2>1. PICK a : a = IF i < k THEN i ELSE i + 1
    OBVIOUS
  <2>2. PICK b : b = IF j < k THEN j ELSE j + 1
    OBVIOUS
  <2>3. a \in DOMAIN ss /\ b \in DOMAIN ss /\ subscribers'[i] = ss[a] /\ subscribers'[j] = ss[b]
    BY <1>4, <1>5, <2>1, <2>2
  <2>4. a = b
    BY <1>3, <1>7, <2>3 DEF GoodSubscribers
  <2>5. i \in Int /\ j \in Int /\ k \in Int
    BY <1>3, <1>5
  <2> QED BY <2>1, <2>2, <2>4, <2>5
<1>8. GoodSubscribers(subscribers')
  BY <1>3, <1>5, <1>6, <1>7 DEF GoodSubscribers
<1>9. \A c : Subscribed(c, subscribers') => Subscribed(c, subscribers)
  BY <1>1, <1>6 DEF Subscribed
<1>10. ServerInv'
  BY <1>3, <1>8, <1>9 DEF ServerInv
<1>11. ASSUME NEW d \in Client PROVE ClientInv(d)'
  <2>1. Same(d)
    BY <1>1, <1>6 DEF Same
  <2> QED BY <2>1, Undisturbed DEF TalkInv
<1> QED BY <1>10, <1>11 DEF TalkInv

LEMMA FlushOnceKeeps ==
    ASSUME TalkInv, NEW k \in DOMAIN subscribers, NEW n \in Nat, n >= 1,
           n <= Len(subscribers[k].outbound) - subscribers[k].offset,
           ~IsGone(subscribers[k].client), FlushOnce(k, n),
           UNCHANGED <<daemon, talks, heard, backlog, view, client, requests, closed, moment, due>>
    PROVE  TalkInv'
<1>1. PICK s : s = subscribers[k]
  OBVIOUS
<1>2. PICK c : c = s.client
  OBVIOUS
<1>3. ServerInv /\ GoodSubscriber(s) /\ c \in Client /\ GoodSubscribers(subscribers)
  BY <1>1, <1>2 DEF TalkInv, ServerInv, GoodSubscribers, GoodSubscriber
<1>4. PICK x : x = SubSeq(s.outbound, s.offset + 1, s.offset + n)
  OBVIOUS
<1>5. PICK t : t = WrittenOf(s, n)
  OBVIOUS
<1>6. socket' = [socket EXCEPT ![c] = @ \o x] /\ subscribers' = [subscribers EXCEPT ![k] = t]
  BY <1>1, <1>2, <1>4, <1>5, Zenon DEF FlushOnce, WrittenOf
<1>7. GoodSubscriber(t) /\ t.client = c /\ IsSeq(x) /\ x \o Rest(t) = Rest(s)
  BY <1>1, <1>2, <1>3, <1>4, <1>5, WrittenIs DEF Moves
<1>8. ClientInv(c) /\ Subscribed(c, subscribers) /\ IsSeq(socket[c]) /\ DOMAIN socket = Client
  BY <1>1, <1>2, <1>3 DEF TalkInv, ServerInv, ClientInv, Subscribed
<1>9. OnlyAt(socket', socket, c) /\ socket'[c] = socket[c] \o x
  BY <1>3, <1>6, <1>8 DEF OnlyAt
<1>10. IsSeq(socket'[c])
  BY <1>7, <1>8, <1>9, JoinedIs DEF Joined, SeqLike
<1>11. /\ DOMAIN subscribers' = DOMAIN subscribers /\ subscribers'[k] = t
       /\ \A i \in DOMAIN subscribers : i # k => subscribers'[i] = subscribers[i]
  BY <1>6
<1>12. GoodSubscribers(subscribers')
  <2>1. PICK m : m = Len(subscribers)
    OBVIOUS
  <2>2. m \in Nat /\ DOMAIN subscribers = 1 .. m
    BY <1>3, <2>1, LenIs DEF GoodSubscribers
  <2>3. Listed(subscribers', m)
    BY <1>6, <2>2 DEF Listed
  <2>4. IsSeq(subscribers')
    BY <2>3, ListedIs DEF SeqLike
  <2>5. \A i \in DOMAIN subscribers : subscribers'[i].client = subscribers[i].client
    BY <1>1, <1>2, <1>7, <1>11
  <2> QED BY <1>3, <1>7, <1>11, <2>4, <2>5 DEF GoodSubscribers
<1>13. \A i \in DOMAIN subscribers : subscribers'[i].client = subscribers[i].client
  BY <1>1, <1>2, <1>7, <1>11
<1>14. \A d : Subscribed(d, subscribers') <=> Subscribed(d, subscribers)
  BY <1>11, <1>13 DEF Subscribed
<1>15. ServerInv'
  BY <1>3, <1>9, <1>12, <1>14 DEF ServerInv, OnlyAt
<1>16. \A i \in DOMAIN subscribers : subscribers[i].client = c => i = k
  BY <1>1, <1>2, <1>3 DEF GoodSubscribers
<1>17. ASSUME NEW d \in Client, d # c PROVE ClientInv(d)'
  <2>1. \A i \in DOMAIN subscribers' : subscribers'[i].client = d =>
           \E j \in DOMAIN subscribers : subscribers[j] = subscribers'[i]
    BY <1>7, <1>11, <1>17
  <2>2. Same(d)
    BY <1>9, <1>17, <2>1 DEF Same, OnlyAt
  <2> QED BY <2>2, Undisturbed DEF TalkInv
<1>18. client[c].at = "answers" /\ ~IsReport(client[c].command)
  <2>1. client[c].at \notin {"idle", "connected", "greeted"}
    BY <1>8 DEF ClientInv, Untouched, Greets
  <2>2. client[c].at = "answers"
    BY <1>1, <1>2, <1>8, <2>1 DEF ClientInv, IsGone
  <2> QED BY <1>8, <2>2 DEF ClientInv, Reports
<1>19. ASSUME Subscribes(c) PROVE Listens(c)'
  <2>1. Listens(c)
    BY <1>8, <1>18, <1>19 DEF ClientInv
  <2>2. requests[c] = <<>> /\ talks # c
    BY <1>8, <2>1 DEF Listens
  <2>3. PICK g : g = Len(client[c].got)
    OBVIOUS
  <2>4. PICK r : r = Rest(t)
    OBVIOUS
  <2>5. IsSeq(r)
    BY <1>7, <2>4, RestIs
  <2>6. PICK w : w = socket'[c]
    OBVIOUS
  <2>7. w \o r = socket[c] \o Rest(s)
    <3>1. PICK u : u = socket[c]
      OBVIOUS
    <3>2. IsSeq(u) /\ IsSeq(x) /\ IsSeq(r) /\ w = u \o x /\ x \o r = Rest(s)
      BY <1>7, <1>8, <1>9, <2>4, <2>5, <2>6, <3>1
    <3>3. IsSeq(u) /\ IsSeq(x) /\ IsSeq(r)
      BY <3>2
    <3>4. (u \o x) \o r = u \o (x \o r)
      BY ONLY <3>3, Regroup
    <3> QED BY <3>1, <3>2, <3>4
  <2>8. InParts(w \o r, g, due[c]) /\ AllQueued(w \o r, g, due[c])
    BY <1>1, <1>2, <2>1, <2>3, <2>7 DEF Listens
  <2>9. Joined(w \o r, w, r)
    BY <1>10, <2>5, <2>6, JoinedIs
  <2>10. InParts(w, g, due[c])
    BY <2>8, <2>9, PartsBegin
  <2>11. (\A i \in DOMAIN subscribers : subscribers[i].client = c =>
             LET parts == socket[c] \o Rest(subscribers[i])
             IN  InParts(parts, Len(client[c].got), due[c]) /\ AllQueued(parts, Len(client[c].got), due[c]))'
    BY <1>11, <1>13, <1>16, <2>3, <2>4, <2>6, <2>8
  <2>12. InParts(socket[c], Len(client[c].got), due[c])'
    BY <2>3, <2>6, <2>10
  <2> QED BY <2>2, <2>11, <2>12 DEF Listens
<1>20. ClientInv(c)'
  <2>1. Subscribes(c)' <=> Subscribes(c)
    BY DEF Subscribes
  <2>2. (client[c].at # "idle" /\ Subscribes(c) => Hears(c))'
    BY <1>8, <1>18 DEF ClientInv, Hears, Subscribes
  <2> QED BY <1>8, <1>10, <1>18, <1>19, <2>1, <2>2 DEF ClientInv, IsGone
<1> QED BY <1>15, <1>17, <1>20 DEF TalkInv

LEMMA FlushKeeps ==
    ASSUME TalkInv, Flush
    PROVE  TalkInv'
<1>1. UNCHANGED <<daemon, talks, heard, backlog, view, client, requests, closed, moment, due>>
  BY DEF Flush
<1>2. PICK k \in DOMAIN subscribers :
         LET s == subscribers[k]
             pending == Len(s.outbound) - s.offset
         IN  /\ pending > 0
             /\ IF IsGone(s.client)
                THEN subscribers' = RemoveAt(subscribers, k) /\ UNCHANGED socket
                ELSE \E n \in 1 .. Min({pending, Room - Len(socket[s.client])}) : FlushOnce(k, n)
  BY Zenon DEF Flush
<1>3. PICK s : s = subscribers[k]
  OBVIOUS
<1>4. CASE IsGone(s.client)
  <2>1. subscribers' = RemoveAt(subscribers, k) /\ UNCHANGED socket
    BY <1>2, <1>3, <1>4
  <2> QED BY <1>1, <2>1, RemovalKeeps
<1>5. CASE ~IsGone(s.client)
  <2>1. PICK pending : pending = Len(s.outbound) - s.offset
    OBVIOUS
  <2>2. PICK room : room = Room - Len(socket[s.client])
    OBVIOUS
  <2>3. \E n \in 1 .. Min({pending, room}) : FlushOnce(k, n)
    BY <1>2, <1>3, <1>5, <2>1, <2>2
  <2>4. GoodSubscriber(s) /\ s.client \in Client /\ IsSeq(socket[s.client])
    BY <1>3 DEF TalkInv, ServerInv, GoodSubscribers, GoodSubscriber, ClientInv
  <2>5. Len(socket[s.client]) \in Nat /\ Len(s.outbound) \in Nat /\ s.offset \in Int
    BY <2>4, LenIs DEF GoodSubscriber
  <2>6. pending \in Int /\ room \in Int
    BY <2>1, <2>2, <2>5, TalkAssumption
  <2>7. Min({pending, room}) \in Int /\ Min({pending, room}) <= pending
    BY <2>6, LesserOf
  <2>8. PICK n \in 1 .. Min({pending, room}) : FlushOnce(k, n)
    BY <2>3
  <2>9. n \in Nat /\ n >= 1 /\ n <= pending
    BY <2>6, <2>7, <2>8
  <2> QED BY <1>1, <1>3, <1>5, <2>1, <2>8, <2>9, FlushOnceKeeps
<1> QED BY <1>4, <1>5

-----------------------------------------------------------------------------
(* At the beginning nobody has asked anything.                             *)
LEMMA TalkBegins ==
    ASSUME TalkInit
    PROVE  TalkInv
<1>1. PICK e : e = <<>>
  OBVIOUS
<1>2. IsSeq(e) /\ Len(e) = 0 /\ DOMAIN e = 1 .. 0
  BY <1>1, NoSeq DEF SeqLike
<1>3. /\ talks = Nobody /\ heard = FALSE /\ backlog = e /\ view = FirstView /\ subscribers = e /\ closed = {}
      /\ client = [c \in Client |-> [command |-> Nobody, at |-> "idle", got |-> e]]
      /\ requests = [c \in Client |-> e] /\ socket = [c \in Client |-> e]
      /\ moment = [c \in Client |-> FirstView] /\ due = [c \in Client |-> e]
  BY <1>1 DEF TalkInit
<1>4. GoodView(FirstView)
  BY TalkAssumption DEF GoodView, View, FirstView
<1>5. \A c : ~Waits(c, e) /\ ~Subscribed(c, e)
  BY <1>2 DEF Waits, Subscribed
<1>6. GoodSubscribers(e) /\ GoodFrames(e)
  BY <1>2 DEF GoodSubscribers, GoodFrames
<1>7. ServerInv
  <2>1. IsSeq(backlog) /\ DOMAIN backlog = 1 .. 0
    BY <1>2, <1>3
  <2>2. /\ DOMAIN client = Client /\ DOMAIN requests = Client /\ DOMAIN socket = Client
        /\ DOMAIN moment = Client /\ DOMAIN due = Client
    BY <1>3
  <2>3. talks \in Client \union {Nobody} /\ heard \in BOOLEAN
    BY <1>3
  <2>4. GoodView(view) /\ GoodSubscribers(subscribers) /\ \A c : ~Subscribed(c, subscribers)
    BY <1>3, <1>4, <1>5, <1>6
  <2> QED BY <2>1, <2>2, <2>3, <2>4 DEF ServerInv
<1>8. ASSUME NEW c \in Client PROVE ClientInv(c)
  <2>1. /\ client[c].at = "idle" /\ client[c].got = e /\ DOMAIN client[c] = {"command", "at", "got"}
        /\ requests[c] = e /\ socket[c] = e /\ moment[c] = FirstView /\ due[c] = e
    BY <1>3
  <2>2. Nobody # c
    BY TalkAssumption
  <2>3. ~Waits(c, backlog) /\ talks # c /\ ~Subscribed(c, subscribers)
    BY <1>3, <1>5, <2>2
  <2>4. Untouched(c)
    BY <1>1, <2>1, <2>3 DEF Untouched
  <2>5. \A i \in DOMAIN requests[c] : requests[c][i].req = "pcap" => requests[c][i].arg \in Nat
    BY <1>2, <2>1
  <2> QED BY <1>2, <1>3, <1>4, <1>6, <2>1, <2>4, <2>5 DEF ClientInv
<1> QED BY <1>7, <1>8 DEF TalkInv

LEMMA NothingKeeps ==
    ASSUME TalkInv, UNCHANGED talkVars
    PROVE  TalkInv'
<1>1. UNCHANGED <<daemon, talks, heard, backlog, view, subscribers, client, requests, socket, closed, moment, due>>
  BY DEF talkVars, talkServer
<1>2. ServerInv'
  BY <1>1 DEF TalkInv, ServerInv
<1>3. ASSUME NEW d \in Client PROVE ClientInv(d)'
  <2>1. Same(d)
    BY <1>1 DEF Same
  <2> QED BY <2>1, Undisturbed DEF TalkInv
<1> QED BY <1>2, <1>3 DEF TalkInv

(* Every step keeps the invariant.                                         *)
LEMMA TalkStep ==
    ASSUME TalkInv, [TalkNext]_talkVars
    PROVE  TalkInv'
<1>1. ASSUME NEW c \in Client,
             \/ OpenControl(c) \/ SendCookie(c) \/ ReadAck(c) \/ ReadAnswer(c)
             \/ ReadFrame(c) \/ ReadEnd(c) \/ Kill(c)
      PROVE  TalkInv'
  BY <1>1, OpenControlKeeps, SendCookieKeeps, ReadAckKeeps, ReadAnswerKeeps, ReadFrameKeeps, ReadEndKeeps, KillKeeps
<1>2. ASSUME NEW c \in Client,
             \/ Authenticate(c) \/ HangUp(c) \/ Unheard(c) \/ RegisterSubscriber(c) \/ AnswerDump(c)
             \/ Stop(c) \/ StopUnheard(c)
      PROVE  TalkInv'
  <2>1. ASSUME Unheard(c) \/ StopUnheard(c) PROVE Fails
    BY <2>1 DEF Unheard, StopUnheard
  <2> QED BY <1>2, <2>1, FailsKeeps, AuthenticateKeeps, HangUpKeeps, RegisterSubscriberKeeps, AnswerDumpKeeps, StopKeeps
<1>3. ASSUME NEW c \in Client,
             \/ SetDebug(c) \/ Purge(c) \/ Disconnect(c) \/ ReloadFiles(c) \/ Retry(c) \/ AnswerUnknown(c)
      PROVE  TalkInv'
  BY <1>3, RetryKeeps, PurgeKeeps, DisconnectKeeps, ReloadFilesKeeps
<1>4. ASSUME AcceptClient \/ MeshChanges \/ NodeAppears \/ PacketComes \/ RecordLog \/ Flush
      PROVE  TalkInv'
  BY <1>4, AcceptClientKeeps, MeshChangesKeeps, NodeAppearsKeeps, PacketComesKeeps, RecordLogKeeps, FlushKeeps
<1> QED BY <1>1, <1>2, <1>3, <1>4, NothingKeeps, Zenon DEF TalkNext

-----------------------------------------------------------------------------
(* What a command that is done shows.                                      *)
LEMMA DoneShows ==
    ASSUME TalkInv, NEW c \in Client, client[c].at = "done", IsReport(client[c].command)
    PROVE  /\ ShapeOf(client[c].command) /\ GoodView(moment[c])
           /\ Len(client[c].got) = Len(client[c].command.requests)
           /\ DOMAIN client[c].got = DOMAIN client[c].command.requests
           /\ \A i \in DOMAIN client[c].got : client[c].got[i] = Shown(moment[c], client[c].command.requests[i].req)
<1>1. ClientInv(c)
  BY DEF TalkInv
<1>2. client[c].command \in TincCommands /\ IsSeq(client[c].got)
  BY <1>1 DEF ClientInv
<1>3. ShapeOf(client[c].command)
  BY <1>2, CommandShapes
<1>4. Len(client[c].got) = Len(client[c].command.requests)
  BY <1>1 DEF ClientInv
<1>5. DOMAIN client[c].got = DOMAIN client[c].command.requests
  BY <1>2, <1>3, <1>4, LenIs DEF ShapeOf
<1>6. GotFits(client[c].command, client[c].got, moment[c]) /\ GoodView(moment[c])
  BY <1>1 DEF ClientInv
<1> QED BY <1>3, <1>4, <1>5, <1>6 DEF GotFits

LEMMA GotIs ==
    ASSUME TalkInv, NEW c \in Client, client[c].at = "done",
           NEW name \in {"graph", "digraph", "info"}, client[c].command.name = name
    PROVE  /\ Got(c, "nodes") = Shown(moment[c], "nodes") /\ Got(c, "edges") = Shown(moment[c], "edges")
           /\ name = "info" => Got(c, "subnets") = Shown(moment[c], "subnets")
<1>1. IsReport(client[c].command)
  BY DEF IsReport
<1>2. /\ ShapeOf(client[c].command) /\ DOMAIN client[c].got = DOMAIN client[c].command.requests
      /\ \A i \in DOMAIN client[c].got : client[c].got[i] = Shown(moment[c], client[c].command.requests[i].req)
  BY <1>1, DoneShows
<1>3. PICK a : a = client[c].command.requests
  OBVIOUS
<1>4. PICK got : got = client[c].got
  OBVIOUS
<1>5. /\ DOMAIN got = DOMAIN a /\ DOMAIN a = 1 .. Len(a) /\ Len(a) \in {2, 3} /\ (name = "info" => Len(a) = 3)
      /\ a[1].req = "nodes" /\ a[2].req = "edges" /\ (Len(a) = 3 => a[3].req = "subnets")
      /\ \A i \in DOMAIN got : got[i] = Shown(moment[c], a[i].req)
  BY <1>2, <1>3, <1>4 DEF ShapeOf
<1>6. ASSUME NEW req, \E i \in DOMAIN got : a[i].req = req
      PROVE  Got(c, req) = Shown(moment[c], req)
  <2>1. PICK n : n = CHOOSE i \in DOMAIN got : a[i].req = req
    OBVIOUS
  <2>2. n \in DOMAIN got /\ a[n].req = req
    BY <1>6, <2>1
  <2>3. Got(c, req) = got[n]
    BY <1>3, <1>4, <2>1 DEF Got
  <2> QED BY <1>5, <2>2, <2>3
<1>7. 1 \in DOMAIN got /\ 2 \in DOMAIN got /\ (name = "info" => 3 \in DOMAIN got)
  BY <1>5
<1> QED BY <1>5, <1>6, <1>7

(* Only nodes that an edge leads to are reached, so all are known.         *)
LEMMA ReachedAreKnown ==
    ASSUME NEW known, GoodView(known)
    PROVE  /\ Reachable(known.edge) \subseteq known.node /\ known.node \subseteq Mesh
           /\ \A n \in Reachable(known.edge) : n # Me =>
                 \E m \in Mesh : <<m, n>> \in known.edge /\ <<n, m>> \in known.edge
<1>1. PICK R : R = Reachable(known.edge)
  OBVIOUS
<1>2. IsReached(R, known.edge)
  BY <1>1, ReachableIs
<1>3. known.node \subseteq Mesh /\ known.edge \subseteq known.node \X known.node /\ Me \in known.node
  BY DEF GoodView, View
<1> QED BY <1>1, <1>2, <1>3 DEF IsReached

LEMMA GraphFits ==
    ASSUME TalkInv, NEW c \in Client, client[c].at = "done", client[c].command.name \in {"graph", "digraph"}
    PROVE  /\ \A e \in Drawn(c) : \A n \in {e[1], e[2]} : \E up \in BOOLEAN : <<n, up>> \in Got(c, "nodes")
           /\ {n \in Mesh : <<n, TRUE>> \in Got(c, "nodes")} = Reachable(Got(c, "edges"))
<1>1. PICK known : known = moment[c]
  OBVIOUS
<1>2. GoodView(known)
  BY <1>1 DEF TalkInv, ClientInv
<1>3. PICK R : R = Reachable(known.edge)
  OBVIOUS
<1>4. Got(c, "nodes") = {<<n, n \in R>> : n \in known.node} /\ Got(c, "edges") = known.edge
  BY <1>1, <1>3, GotIs DEF Shown
<1>5. R \subseteq known.node /\ known.node \subseteq Mesh
  BY <1>2, <1>3, ReachedAreKnown
<1>6. {n \in Mesh : <<n, TRUE>> \in Got(c, "nodes")} = R
  <2>1. ASSUME NEW n \in Mesh, <<n, TRUE>> \in Got(c, "nodes") PROVE n \in R
    <3>1. PICK m \in known.node : <<n, TRUE>> = <<m, m \in R>>
      BY <1>4, <2>1
    <3> QED BY <3>1
  <2>2. ASSUME NEW n \in R PROVE n \in Mesh /\ <<n, TRUE>> \in Got(c, "nodes")
    <3>1. n \in known.node /\ (n \in R) = TRUE
      BY <1>5, <2>2
    <3>2. <<n, n \in R>> \in Got(c, "nodes")
      BY <1>4, <3>1
    <3> QED BY <1>5, <3>1, <3>2
  <2> QED BY <2>1, <2>2
<1>7. ASSUME NEW e \in Drawn(c), NEW n \in {e[1], e[2]}
      PROVE  \E up \in BOOLEAN : <<n, up>> \in Got(c, "nodes")
  <2>1. e \in known.edge
    BY <1>4, <1>7 DEF Drawn
  <2>2. n \in known.node
    BY <1>2, <1>7, <2>1 DEF GoodView
  <2>3. <<n, n \in R>> \in Got(c, "nodes")
    BY <1>4, <2>2
  <2>4. (n \in R) \in BOOLEAN
    OBVIOUS
  <2> QED BY <2>3, <2>4
<1> QED BY <1>3, <1>4, <1>6, <1>7

LEMMA InfoFits ==
    ASSUME TalkInv, NEW c \in Client, client[c].at = "done", client[c].command.name = "info",
           NEW n \in moment[c].node
    PROVE  /\ InfoNode(c, n).reachable = (n \in Reachable(moment[c].edge))
           /\ InfoNode(c, n).reachable /\ n # Me => \E m \in InfoNode(c, n).edges : n \in InfoNode(c, m).edges
           /\ InfoNode(c, n).subnets = moment[c].subnet \intersect {n}
<1>1. PICK known : known = moment[c]
  OBVIOUS
<1>2. GoodView(known)
  BY <1>1 DEF TalkInv, ClientInv
<1>3. PICK R : R = Reachable(known.edge)
  OBVIOUS
<1>4. /\ Got(c, "nodes") = {<<m, m \in R>> : m \in known.node} /\ Got(c, "edges") = known.edge
      /\ Got(c, "subnets") = known.subnet
  BY <1>1, <1>3, GotIs DEF Shown
<1>5. (<<n, TRUE>> \in Got(c, "nodes")) = (n \in R)
  <2>1. CASE n \in R
    <3>1. <<n, n \in R>> \in Got(c, "nodes") /\ (n \in R) = TRUE
      BY <1>1, <1>4, <2>1
    <3> QED BY <2>1, <3>1
  <2>2. CASE n \notin R
    <3>1. ASSUME <<n, TRUE>> \in Got(c, "nodes") PROVE FALSE
      <4>1. PICK m \in known.node : <<n, TRUE>> = <<m, m \in R>>
        BY <1>4, <3>1
      <4> QED BY <2>2, <4>1
    <3> QED BY <2>2, <3>1
  <2> QED BY <2>1, <2>2
<1>6. \A m : InfoNode(c, m).edges = {e[2] : e \in {f \in known.edge : f[1] = m}}
  BY <1>4 DEF InfoNode
<1>7. ASSUME n \in R, n # Me PROVE \E m \in InfoNode(c, n).edges : n \in InfoNode(c, m).edges
  <2>1. PICK m \in Mesh : <<m, n>> \in known.edge /\ <<n, m>> \in known.edge
    BY <1>2, <1>3, <1>7, ReachedAreKnown
  <2>2. <<n, m>>[1] = n /\ <<n, m>>[2] = m /\ <<m, n>>[1] = m /\ <<m, n>>[2] = n
    OBVIOUS
  <2>3. m \in InfoNode(c, n).edges /\ n \in InfoNode(c, m).edges
    BY <1>6, <2>1, <2>2
  <2> QED BY <2>3
<1>8. InfoNode(c, n).reachable = (<<n, TRUE>> \in Got(c, "nodes"))
  BY DEF InfoNode
<1>9. InfoNode(c, n).subnets = known.subnet \intersect {n}
  BY <1>4 DEF InfoNode
<1> QED BY <1>1, <1>3, <1>5, <1>7, <1>8, <1>9

LEMMA TopFits ==
    ASSUME TalkInv, NEW c \in Client, client[c].at = "done", client[c].command.name = "top",
           NEW i \in DOMAIN client[c].got
    PROVE  client[c].got[i] = {<<n, moment[c].traffic[n]>> : n \in moment[c].node}
<1>1. IsReport(client[c].command)
  BY DEF IsReport
<1>2. /\ ShapeOf(client[c].command) /\ i \in DOMAIN client[c].command.requests
      /\ client[c].got[i] = Shown(moment[c], client[c].command.requests[i].req)
  BY <1>1, DoneShows
<1>3. DOMAIN client[c].command.requests = 1 .. 2
  BY <1>2 DEF ShapeOf
<1>4. i = 1 \/ i = 2
  BY <1>2, <1>3
<1>5. client[c].command.requests[i].req = "traffic"
  BY <1>2, <1>4 DEF ShapeOf
<1> QED BY <1>2, <1>5 DEF Shown

LEMMA FramesFit ==
    ASSUME TalkInv
    PROVE  FramesAreWhole
<1>1. PICK e : e = <<>>
  OBVIOUS
<1>2. Len(e) = 0 /\ DOMAIN e = 1 .. 0
  BY <1>1, NoSeq DEF SeqLike
<1>3. ASSUME NEW c \in Client, NEW frames, frames = (IF Subscribes(c) THEN client[c].got ELSE e),
             client[c].at # "idle"
      PROVE  Len(frames) <= Len(due[c]) /\ \A i \in DOMAIN frames : frames[i] = Frame(due[c][i])
  <2>1. ClientInv(c)
    BY DEF TalkInv
  <2>2. CASE Subscribes(c)
    BY <1>3, <2>1, <2>2 DEF ClientInv, Hears
  <2>3. CASE ~Subscribes(c)
    <3>1. IsSeq(due[c])
      BY <2>1 DEF ClientInv, GoodFrames
    <3>2. Len(due[c]) \in Nat
      BY <3>1, LenIs
    <3>3. frames = e
      BY <1>3, <2>3
    <3> QED BY <1>2, <3>2, <3>3
  <2> QED BY <2>2, <2>3
<1> QED BY <1>1, <1>3 DEF FramesAreWhole

LEMMA TalkFits ==
    ASSUME TalkInv
    PROVE  ConversationsFit
<1>1. ASSUME NEW c \in Client, client[c].at = "done", client[c].command.name = "stop" PROVE daemon # "runs"
  BY <1>1 DEF TalkInv, ClientInv
<1>2. ReportsFit
  BY <1>1, GraphFits, InfoFits, TopFits DEF ReportsFit
<1> QED BY <1>2, FramesFit DEF ConversationsFit

(* What the commands `tinc graph', `info' and `top' show is what the       *)
(* daemon knew when it accepted them, whatever happens in between, and     *)
(* `tinc log' and `pcap' read whole frames and miss none (server.rs,       *)
(* state.rs and transport.rs of the daemon; tincctl/src/lib.rs).           *)
THEOREM ConversationsAlwaysFit == TalkSpec => []ConversationsFit
<1>1. TalkInit => TalkInv
  BY TalkBegins
<1>2. TalkInv /\ [TalkNext]_talkVars => TalkInv'
  BY TalkStep
<1>3. TalkInv => ConversationsFit
  BY TalkFits
<1> QED BY <1>1, <1>2, <1>3, PTL DEF TalkSpec
=============================================================================
