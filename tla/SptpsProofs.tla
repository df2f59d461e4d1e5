---------------------------- MODULE SptpsProofs ----------------------------
(***************************************************************************)
(* The two halves of SPTPS.                                                *)
(*                                                                         *)
(* The replay window of datagrams is exact for every window length and     *)
(* every size of the sequence number space (SptpsReplayWindow).            *)
(*                                                                         *)
(* No record of a stream is ever refused (SptpsStream), however often      *)
(* either end, or both at once, force a new exchange.  The two sessions    *)
(* and the handshake records between them are always in one of twelve      *)
(* phases; application records lie anywhere between the handshake records, *)
(* sealed with the key that is in use there.  The invariant StreamInv says *)
(* so.  The proof computes what every operation makes of a session that is *)
(* given by its fields (Of), then shows for each phase that the end which  *)
(* reads, or forces an exchange, leads to another phase.                   *)
(***************************************************************************)
EXTENDS SptpsReplayWindow, SptpsStream, SequenceTheorems, FiniteSetTheorems, TLAPS

-----------------------------------------------------------------------------
(***************************************************************************)
(* The replay window.                                                      *)
(***************************************************************************)

(* Two numbers less than a window apart have different remainders.         *)
LEMMA SlotsDiffer ==
    ASSUME NEW w \in Nat \ {0}, NEW a \in Nat, NEW b \in Nat,
           a < b, b - a < w
    PROVE  a % w # b % w
PROOF
  <1> DEFINE q == a \div w
             r == b \div w
  <1>1. q \in Int /\ r \in Int
    OBVIOUS
  <1>2. a = w * q + (a % w) /\ b = w * r + (b % w)
    OBVIOUS
  <1>3. SUFFICES ASSUME a % w = b % w PROVE FALSE
    OBVIOUS
  <1>4. b - a = w * (r - q)
    BY <1>1, <1>2, <1>3
  <1>5. r - q >= 1
    BY <1>1, <1>4
  <1>6. w * (r - q) >= w
    BY <1>1, <1>5
  <1>7. QED BY <1>4, <1>6

(* A slot is an index of the bitmap.                                       *)
LEMMA SlotInRange ==
    ASSUME NEW w \in Nat \ {0}, NEW a \in Nat
    PROVE  a % w \in 0 .. w - 1
PROOF OBVIOUS

(* Two different numbers in a stretch shorter than the window have         *)
(* different slots.                                                        *)
LEMMA SlotFacts ==
    ASSUME Window # 0
    PROVE  /\ \A a \in Nat : Slot(a) \in 0 .. Window - 1
           /\ \A a, b \in Nat : a < b /\ b - a < Window => Slot(a) # Slot(b)
PROOF
  <1>1. Window \in Nat \ {0}
    BY WindowAssumption DEF Window
  <1>2. QED BY <1>1, SlotInRange, SlotsDiffer DEF Slot

(* The sizes that the constants give the window are natural numbers.       *)
LEMMA WindowFacts == Window \in Nat /\ SeqMod \in Nat /\ Window < SeqMod /\ FarFutureLimit \in Nat
PROOF BY WindowAssumption DEF Window, FarFutureLimit

(***************************************************************************)
(* The inductive invariant: the types, and the exactness of the bitmap.    *)
(* The properties of interest follow from it in every state, but none of   *)
(* them is inductive alone: that an accepted number is refused says        *)
(* nothing of the slots that a later jump is going to reuse.               *)
(***************************************************************************)
IInv == TypeOK /\ WindowExact

(* A new window satisfies the invariant.                                   *)
LEMMA InitIInv == Init => IInv
PROOF BY WindowFacts DEF Init, IInv, TypeOK, WindowExact, Remembered, Seqno

(* The two refusals change at most the far-future count.                   *)
LEMMA RefuseIInv ==
    ASSUME IInv, NEW s \in Seqno, RefuseFarFuture(s) \/ RefuseReplay(s)
    PROVE  IInv'
PROOF
  <1>1. UNCHANGED <<expected_seqno, received, late, accepted>>
    BY DEF RefuseFarFuture, RefuseReplay, vars
  <1>2. far_future' \in 0 .. FarFutureLimit
    <2>1. CASE RefuseFarFuture(s)
      BY <2>1, WindowFacts DEF IInv, TypeOK, RefuseFarFuture, TooFar
    <2>2. CASE RefuseReplay(s)
      BY <2>2 DEF IInv, TypeOK, RefuseReplay, vars
    <2>3. QED BY <2>1, <2>2
  <1>3. QED
    BY <1>1, <1>2 DEF IInv, TypeOK, WindowExact, Remembered, OutsideWindow

(* Accepting a number keeps every field in its range.                      *)
LEMMA AcceptTypeOK ==
    ASSUME IInv, NEW s \in Seqno, Accept(s)
    PROVE  TypeOK'
PROOF
  <1>1. late' \subseteq 0 .. Window - 1
    <2>1. CASE Window = 0
      BY <2>1 DEF IInv, TypeOK, Accept, LateAfter
    <2>2. CASE Window # 0
      <3>1. \A m \in expected_seqno .. s - 1 : m \in Nat
        BY WindowFacts DEF IInv, TypeOK, Seqno
      <3>2. {Slot(m) : m \in expected_seqno .. s - 1} \subseteq 0 .. Window - 1
        BY <2>2, <3>1, SlotFacts
      <3>3. QED BY <2>2, <3>2 DEF IInv, TypeOK, Accept, LateAfter
    <2>3. QED BY <2>1, <2>2
  <1>2. expected_seqno' \in Seqno
    BY WindowFacts DEF IInv, TypeOK, Accept, ExpectedAfter, Seqno
  <1>5. received' \in Seqno
    BY WindowFacts DEF IInv, TypeOK, Accept, Seqno
  <1>6. accepted' \subseteq Seqno
    BY DEF IInv, TypeOK, Accept
  <1>3. far_future' \in 0 .. FarFutureLimit
    BY WindowFacts DEF IInv, TypeOK, Accept
  <1>4. QED BY <1>1, <1>2, <1>3, <1>5, <1>6 DEF TypeOK

(* An accepted number becomes, or already was, older than expected_seqno.  *)
LEMMA AcceptBound ==
    ASSUME IInv, NEW s \in Seqno, Accept(s), Window # 0
    PROVE  accepted' \subseteq 0 .. expected_seqno' - 1
PROOF
  <1>1. expected_seqno \in Nat /\ s \in Nat /\ s < SeqMod
    BY WindowFacts DEF IInv, TypeOK, Seqno
  <1>2. CASE expected_seqno' = 0
    BY <1>2 DEF Accept
  <1>3. CASE expected_seqno' # 0
    <2>1. expected_seqno' >= expected_seqno /\ s < expected_seqno' /\ expected_seqno' \in Nat
      BY <1>1, <1>3 DEF Accept, ExpectedAfter
    <2>2. accepted' = accepted \union {s}
      BY <1>3 DEF Accept
    <2>3. \A a \in accepted : a \in 0 .. expected_seqno - 1
      BY DEF IInv, WindowExact
    <2>4. \A a \in accepted' : a \in 0 .. expected_seqno' - 1
      BY <1>1, <2>1, <2>2, <2>3
    <2>5. QED BY <2>4
  <1>4. QED BY <1>2, <1>3

(* Accepting a number keeps the bitmap exact: the case that needs the      *)
(* slots of a window to be distinct.                                       *)
LEMMA AcceptWindowExact ==
    ASSUME IInv, NEW s \in Seqno, Accept(s), Window # 0
    PROVE  WindowExact'
PROOF
  <1> DEFINE e == expected_seqno
  <1> USE WindowFacts
  <1>1. /\ e \in Nat /\ e < SeqMod /\ s \in Nat /\ s < SeqMod
        /\ accepted \subseteq 0 .. e - 1
    BY DEF IInv, TypeOK, WindowExact, Seqno
  <1>2. ASSUME NEW t \in Remembered'
        PROVE  Slot(t) \in late' <=> t \notin accepted'
    <2>1. t \in Nat /\ t < SeqMod /\ t < expected_seqno'
          /\ (expected_seqno' >= Window => t >= expected_seqno' - Window)
      BY <1>2, AcceptTypeOK DEF Remembered, OutsideWindow, Seqno, TypeOK
    <2>2. expected_seqno' # 0 /\ accepted' = accepted \union {s}
      BY <2>1 DEF Accept
    <2>3. late' = (IF FarFuture(s) THEN 0 .. Window - 1
                   ELSE late \union {Slot(m) : m \in e .. s - 1}) \ {Slot(s)}
      BY DEF Accept, LateAfter
    <2>4. CASE t = s
      BY <2>4, <2>2, <2>3
    <2>5. CASE t # s /\ s < e
      <3>1. expected_seqno' = e
        BY <2>5 DEF Accept, ExpectedAfter
      <3>2. t \in Remembered
        BY <3>1, <2>1 DEF Remembered, OutsideWindow, Seqno
      <3>3. s < FutureCutoff
        BY <1>1, <2>5 DEF FutureCutoff
      <3>4. ~OutsideWindow(s)
        BY <1>1, <2>5, <3>3 DEF Accept, Accepts, Replay, Old, Unexpected
      <3>5. Slot(t) # Slot(s)
        <4>1. (t < s /\ s - t < Window) \/ (s < t /\ t - s < Window)
          BY <1>1, <2>1, <2>5, <3>1, <3>4 DEF OutsideWindow
        <4>2. QED BY <1>1, <2>1, <4>1, SlotFacts
      <3>6. late' = late \ {Slot(s)}
        <4>1. ~FarFuture(s)
          BY <1>1, <3>3 DEF FarFuture, FutureCutoff
        <4>2. e .. s - 1 = {}
          BY <1>1, <2>5
        <4>3. QED BY <2>3, <4>1, <4>2
      <3>7. QED BY <2>2, <2>5, <3>2, <3>5, <3>6 DEF IInv, WindowExact
    <2>6. CASE t # s /\ s >= e
      <3>1. expected_seqno' = s + 1 /\ s + 1 < SeqMod
        BY <1>1, <2>2, <2>6 DEF Accept, ExpectedAfter
      <3>2. t < s /\ s - t < Window
        BY <1>1, <2>1, <2>6, <3>1
      <3>3. Slot(t) # Slot(s)
        BY <1>1, <2>1, <3>2, SlotFacts
      <3>4. CASE FarFuture(s)
        <4>1. s >= e + Window
          BY <1>1, <3>1, <3>4 DEF FarFuture, FutureCutoff
        <4>2. t \notin accepted'
          BY <1>1, <2>1, <2>2, <2>6, <3>2, <4>1
        <4>3. Slot(t) \in late'
          BY <2>1, <2>3, <3>3, <3>4, SlotFacts
        <4>4. QED BY <4>2, <4>3
      <3>5. CASE ~FarFuture(s) /\ t >= e
        <4>1. Slot(t) \in late'
          BY <1>1, <2>1, <2>3, <3>2, <3>3, <3>5
        <4>2. t \notin accepted'
          BY <1>1, <2>1, <2>2, <2>6, <3>5
        <4>3. QED BY <4>1, <4>2
      <3>6. CASE ~FarFuture(s) /\ t < e
        <4>1. t \in Remembered
          <5>1. ~OutsideWindow(t)
            BY <1>1, <2>1, <3>1, <3>2, <2>6 DEF OutsideWindow
          <5>2. t \in Seqno
            BY <2>1 DEF Seqno
          <5>3. QED BY <3>6, <5>1, <5>2 DEF Remembered
        <4>2. \A m \in e .. s - 1 : m \in Nat /\ t < m /\ m - t < Window
          BY <1>1, <2>1, <3>2, <3>6
        <4>3. \A m \in e .. s - 1 : Slot(t) # Slot(m)
          BY <2>1, <4>2, SlotFacts
        <4>4. Slot(t) \in late' <=> Slot(t) \in late
          BY <2>3, <3>3, <3>6, <4>3
        <4>5. QED BY <2>2, <2>6, <4>1, <4>4 DEF IInv, WindowExact
      <3>7. QED BY <3>4, <3>5, <3>6, <1>1, <2>1
    <2>7. QED BY <2>4, <2>5, <2>6, <1>1
  <1>3. QED BY <1>2, AcceptBound DEF WindowExact

(* Every datagram, accepted or refused, preserves the invariant.           *)
LEMMA NextIInv == IInv /\ [Next]_vars => IInv'
PROOF
  <1> SUFFICES ASSUME IInv, [Next]_vars PROVE IInv'
    OBVIOUS
  <1>1. CASE UNCHANGED vars
    BY <1>1 DEF vars, IInv, TypeOK, WindowExact, Remembered, OutsideWindow
  <1>2. ASSUME NEW s \in Seqno, RefuseFarFuture(s) \/ RefuseReplay(s)
        PROVE  IInv'
    BY <1>2, RefuseIInv
  <1>3. ASSUME NEW s \in Seqno, Accept(s)
        PROVE  IInv'
    <2>1. TypeOK'
      BY <1>3, AcceptTypeOK
    <2>2. Window = 0 => WindowExact'
      BY DEF WindowExact
    <2>3. Window # 0 => WindowExact'
      BY <1>3, AcceptWindowExact
    <2>4. QED BY <2>1, <2>2, <2>3 DEF IInv
  <1>4. QED BY <1>1, <1>2, <1>3 DEF Next

(* The window keeps its types and its bitmap stays exact, for every length *)
(* of the window and every size of the sequence number space.              *)
THEOREM WindowInvariant == Spec => []IInv
PROOF BY InitIInv, NextIInv, PTL DEF Spec

(* A number below expected_seqno is judged as an old one, never as far     *)
(* ahead, even when the cutoff has saturated.                              *)
LEMMA BelowIsOld ==
    ASSUME IInv, Window # 0, NEW s \in Seqno, s < expected_seqno
    PROVE  Old(s) /\ ~FarFuture(s)
PROOF
  <1>1. expected_seqno \in Nat /\ expected_seqno < SeqMod /\ s \in Nat
    BY WindowFacts DEF IInv, TypeOK, Seqno
  <1>2. s < FutureCutoff /\ FutureCutoff \in Nat
    BY <1>1, WindowFacts DEF FutureCutoff
  <1>3. QED BY <1>1, <1>2 DEF Old, FarFuture, Unexpected

(* An accepted number is either outside the window or has its bit clear.   *)
LEMMA IInvNoReplay == IInv => NoReplay
PROOF
  <1> SUFFICES ASSUME IInv, Window # 0, NEW s \in accepted PROVE ~Accepts(s)
    BY DEF NoReplay
  <1>1. s \in Seqno /\ s < expected_seqno
    BY WindowFacts DEF IInv, TypeOK, WindowExact, Seqno
  <1>2. Old(s)
    BY <1>1, BelowIsOld
  <1>3. ~OutsideWindow(s) => s \in Remembered
    BY <1>1 DEF Remembered
  <1>4. ~OutsideWindow(s) => Slot(s) \notin late
    BY <1>3 DEF IInv, WindowExact
  <1>5. QED BY <1>2, <1>4 DEF Accepts, Replay

(* A remembered number that was not accepted has its bit set.              *)
LEMMA IInvLateStillAccepted == IInv => LateStillAccepted
PROOF
  <1> SUFFICES ASSUME IInv, Window # 0, NEW s \in Remembered \ accepted
               PROVE  Accepts(s)
    BY DEF LateStillAccepted
  <1>1. s \in Seqno /\ s < expected_seqno /\ ~OutsideWindow(s)
    BY DEF Remembered
  <1>2. ~FarFuture(s)
    BY <1>1, BelowIsOld
  <1>3. Slot(s) \in late
    BY DEF IInv, WindowExact
  <1>4. QED BY <1>1, <1>2, <1>3 DEF Accepts, Replay, TooFar

(* SptpsReplayWindow::accept never accepts a sequence number twice in one  *)
(* cycle of the sequence numbers, whatever the window's length.            *)
THEOREM NeverReplayed == Spec => []NoReplay
PROOF BY WindowInvariant, IInvNoReplay, PTL

(* A datagram that later ones overtook by less than a window is accepted   *)
(* when it arrives, even after a jump that filled the whole bitmap.        *)
THEOREM NeverLost == Spec => []LateStillAccepted
PROOF BY WindowInvariant, IInvLateStillAccepted, PTL

-----------------------------------------------------------------------------
(* The counter `received` and the set of accepted numbers.                 *)

(* The history is finite.                                                  *)
LEMMA AcceptedFinite ==
    ASSUME IInv, Window # 0
    PROVE  /\ IsFiniteSet(accepted)
           /\ Cardinality(accepted) \in Nat
           /\ Cardinality(accepted) <= expected_seqno
PROOF
  <1>1. expected_seqno \in Nat /\ accepted \subseteq 0 .. expected_seqno - 1
    BY WindowFacts DEF IInv, TypeOK, WindowExact, Seqno
  <1>2. /\ IsFiniteSet(0 .. expected_seqno - 1)
        /\ Cardinality(0 .. expected_seqno - 1) = expected_seqno
    <2>1. expected_seqno - 1 \in Int /\ 0 \in Int
      BY <1>1
    <2>2. QED BY <1>1, <2>1, FS_Interval
  <1>3. QED BY <1>1, <1>2, FS_Subset, FS_CardinalityType

(* The count follows the history: what is accepted was not in it before.   *)
LEMMA NextReceived ==
    IInv /\ IInv' /\ ReceivedCountsAccepted /\ [Next]_vars => ReceivedCountsAccepted'
PROOF
  <1> SUFFICES ASSUME IInv, IInv', ReceivedCountsAccepted, [Next]_vars, Window # 0
               PROVE  received' = Cardinality(accepted')
    BY DEF ReceivedCountsAccepted
  <1>1. received = Cardinality(accepted)
    BY DEF ReceivedCountsAccepted
  <1>2. CASE UNCHANGED <<received, accepted>>
    BY <1>1, <1>2
  <1>3. ASSUME NEW s \in Seqno, Accept(s)
        PROVE  received' = Cardinality(accepted')
    <2>1. CASE expected_seqno' = 0
      BY <1>3, <2>1, FS_EmptySet DEF Accept
    <2>2. CASE expected_seqno' # 0
      <3>1. accepted' = accepted \union {s}
        BY <1>3, <2>2 DEF Accept
      <3>2. s \notin accepted
        BY <1>3, IInvNoReplay DEF NoReplay, Accept
      <3>3. Cardinality(accepted') = received + 1
        BY <1>1, <3>1, <3>2, AcceptedFinite, FS_AddElement
      <3>4. /\ IsFiniteSet(accepted')
            /\ Cardinality(accepted') \in Nat
            /\ Cardinality(accepted') <= expected_seqno'
        <4>1. expected_seqno' \in Nat /\ accepted' \subseteq 0 .. expected_seqno' - 1
          <5>1. expected_seqno' \in Nat
            BY WindowFacts DEF IInv, TypeOK, Seqno
          <5>2. QED BY <1>3, <5>1, AcceptBound
        <4>2. /\ IsFiniteSet(0 .. expected_seqno' - 1)
              /\ Cardinality(0 .. expected_seqno' - 1) = expected_seqno'
          <5>1. expected_seqno' - 1 \in Int /\ 0 \in Int
            BY <4>1
          <5>2. QED BY <4>1, <5>1, FS_Interval, SMTT(60)
        <4>3. QED BY <4>1, <4>2, FS_Subset, FS_CardinalityType
      <3>5. expected_seqno' \in Nat /\ expected_seqno' < SeqMod /\ received \in Nat
        BY WindowFacts DEF IInv, TypeOK, Seqno
      <3>6. received + 1 < SeqMod
        BY WindowFacts, <3>3, <3>4, <3>5
      <3>7. received' = received + 1
        BY <1>3, <2>2, <3>6 DEF Accept
      <3>8. QED BY <3>3, <3>7
    <2>3. QED BY <2>1, <2>2
  <1>4. CASE \E s \in Seqno : RefuseFarFuture(s) \/ RefuseReplay(s)
    BY <1>2, <1>4 DEF RefuseFarFuture, RefuseReplay, vars
  <1>5. QED BY <1>2, <1>3, <1>4 DEF Next, vars

(* The counter that `received` reports is the number of distinct sequence  *)
(* numbers accepted in this cycle: it never counts a datagram twice and    *)
(* never saturates.                                                        *)
THEOREM ReceivedIsExact == Spec => []ReceivedCountsAccepted
PROOF
  <1>1. Init => ReceivedCountsAccepted
    BY FS_EmptySet DEF Init, ReceivedCountsAccepted
  <1>2. QED BY <1>1, WindowInvariant, NextReceived, PTL DEF Spec

-----------------------------------------------------------------------------
(***************************************************************************)
(* The stream.                                                             *)
(***************************************************************************)

(* The types of what ends keep and send.                                   *)
Kexes == 0 .. MaxKex
Materials == Kexes \X Kexes \X {"stream"}
Keys == {NoKey} \union {SealedBy(i, m) : i \in BOOLEAN, m \in Materials}

Payload ==
    [type : {"KEX"}, kex : Kexes]
        \union
    [type : {"SIG"}, initiator : BOOLEAN, mine : Kexes, his : Kexes, label : {"stream"}]
        \union
    [type : {"ACK", "DATA"}]

Record == [key : Keys, seq : Nat, payload : Payload]

Session ==
    [initiator : BOOLEAN, label : {"stream"},
     state : {"Kex", "SecondaryKex", "Sig", "Ack"},
     my_kex : Kexes, his_kex : Kexes, in_key : Keys, out_key : Keys,
     pending_key : {NoKey} \union Materials, in_seq : Nat, out_seq : Nat,
     outbound : Seq(Record)]

NoRecords == <<>>

-----------------------------------------------------------------------------
(* How far a session is.                                                   *)
Keyed(s) == s.in_key # NoKey /\ s.out_key # NoKey

Rests(s) ==
    /\ s.state = "SecondaryKex" /\ s.my_kex = NoKex /\ s.his_kex = NoKex
    /\ s.pending_key = NoKey /\ Keyed(s)

Began(s) ==
    /\ s.state = "Kex" /\ s.my_kex # NoKex /\ s.his_kex = NoKex
    /\ s.pending_key = NoKey

Signs(s) ==
    /\ s.state = "Sig" /\ s.my_kex # NoKex /\ s.his_kex # NoKex
    /\ s.pending_key = NoKey

Waits(s) ==
    /\ s.state = "Ack" /\ s.my_kex = NoKex /\ s.his_kex = NoKex
    /\ s.pending_key # NoKey /\ Keyed(s)
    /\ s.out_key = OutKey(s, s.pending_key)

(* What one seals the other opens; nobody has a key, or both have both.    *)
SameKeys(x, y) ==
    /\ x.in_key = y.out_key /\ x.out_key = y.in_key
    /\ x.in_key = NoKey <=> x.out_key = NoKey

(* The numbers of the next records, as long as these are in plaintext.     *)
Counts(s, in, out) == s.in_key = NoKey => s.in_seq = in /\ s.out_seq = out

(* A handshake record under a key, the n-th one if there is no key.        *)
Under(key, n, payload) ==
    [key |-> key, seq |-> IF key = NoKey THEN n ELSE 0, payload |-> payload]

KexOfEnd(s, key) == Under(key, 0, Kex(s.my_kex))
SigOfPeer(s) == Under(s.in_key, 1, Sig(~s.initiator, s.his_kex, s.my_kex, s.label))
AckOfPeer(s) == Under(s.in_key, 0, Ack)

(* The phases of an exchange: x is the initiator and y the responder, toX  *)
(* and toY are the handshake records on their way to them.                 *)
AtRest(x, y, toX, toY) ==
    /\ Rests(x) /\ Rests(y) /\ SameKeys(x, y) /\ toX = NoRecords /\ toY = NoRecords

XBegan(x, y, toX, toY) ==
    /\ Began(x) /\ Rests(y) /\ SameKeys(x, y)
    /\ toX = NoRecords /\ toY = <<KexOfEnd(x, y.in_key)>>

YBegan(x, y, toX, toY) ==
    /\ Rests(x) /\ Began(y) /\ SameKeys(x, y)
    /\ toX = <<KexOfEnd(y, x.in_key)>> /\ toY = NoRecords

BothBegan(x, y, toX, toY) ==
    /\ Began(x) /\ Counts(x, 0, 1) /\ Began(y) /\ Counts(y, 0, 1) /\ SameKeys(x, y)
    /\ toX = <<KexOfEnd(y, x.in_key)>> /\ toY = <<KexOfEnd(x, y.in_key)>>

YSigns(x, y, toX, toY) ==
    /\ Began(x) /\ Counts(x, 0, 1) /\ Signs(y) /\ Counts(y, 1, 1) /\ SameKeys(x, y)
    /\ y.his_kex = x.my_kex
    /\ toX = <<KexOfEnd(y, x.in_key)>> /\ toY = NoRecords

XSigned(x, y, toX, toY) ==
    /\ Signs(x) /\ Counts(x, 1, 2) /\ Began(y) /\ Counts(y, 0, 1) /\ SameKeys(x, y)
    /\ x.his_kex = y.my_kex
    /\ toX = NoRecords
    /\ toY = <<KexOfEnd(x, y.in_key),
               Under(y.in_key, 1, Sig(x.initiator, x.my_kex, x.his_kex, x.label))>>

BothSign(x, y, toX, toY) ==
    /\ Signs(x) /\ Counts(x, 1, 2) /\ Signs(y) /\ Counts(y, 1, 1) /\ SameKeys(x, y)
    /\ x.his_kex = y.my_kex /\ y.his_kex = x.my_kex
    /\ toX = NoRecords /\ toY = <<SigOfPeer(y)>>

YDone(x, y, toX, toY) ==
    /\ Signs(x) /\ Keyed(x) /\ Waits(y) /\ y.pending_key = Material(x)
    /\ x.out_key = y.in_key
    /\ toX = <<SigOfPeer(x), AckOfPeer(x)>> /\ toY = NoRecords

BothDone(x, y, toX, toY) ==
    /\ Waits(x) /\ Waits(y) /\ x.pending_key = y.pending_key
    /\ toX = <<AckOfPeer(x)>> /\ toY = <<AckOfPeer(y)>>

(* The end that has the ACK may begin the next exchange while its own ACK  *)
(* is still on its way.                                                    *)
XWaits(x, y, toX, toY) ==
    /\ Waits(x) /\ Keyed(y)
    /\ y.in_key = x.out_key /\ y.out_key = InKey(x, x.pending_key)
    /\ toY = NoRecords
    /\ \/ Rests(y) /\ toX = <<AckOfPeer(x)>>
       \/ Began(y) /\ toX = <<AckOfPeer(x), KexOfEnd(y, y.out_key)>>

YWaits(x, y, toX, toY) ==
    /\ Waits(y) /\ Keyed(x)
    /\ x.in_key = y.out_key /\ x.out_key = InKey(y, y.pending_key)
    /\ toX = NoRecords
    /\ \/ Rests(x) /\ toY = <<AckOfPeer(y)>>
       \/ Began(x) /\ toY = <<AckOfPeer(y), KexOfEnd(x, x.out_key)>>

(* The first exchange has no ACK: the responder is done with it first.     *)
YFirst(x, y, toX, toY) ==
    /\ Signs(x) /\ Counts(x, 1, 2) /\ x.in_key = NoKey /\ x.out_key = NoKey
    /\ y.in_key = OutKey(x, Material(x)) /\ y.out_key = InKey(x, Material(x))
    /\ toY = NoRecords
    /\ \/ Rests(y) /\ toX = <<SigOfPeer(x)>>
       \/ Began(y) /\ toX = <<SigOfPeer(x), KexOfEnd(y, y.out_key)>>

Phase(x, y, toX, toY) ==
    \/ AtRest(x, y, toX, toY)
    \/ XBegan(x, y, toX, toY)
    \/ YBegan(x, y, toX, toY)
    \/ BothBegan(x, y, toX, toY)
    \/ YSigns(x, y, toX, toY)
    \/ XSigned(x, y, toX, toY)
    \/ BothSign(x, y, toX, toY)
    \/ YDone(x, y, toX, toY)
    \/ BothDone(x, y, toX, toY)
    \/ XWaits(x, y, toX, toY)
    \/ YWaits(x, y, toX, toY)
    \/ YFirst(x, y, toX, toY)

(* The handshake records that s queued on becoming t, after those that are *)
(* on their way already: sealed with its key, which changes with the last. *)
Queues(s, t, toPeer) ==
    \/ /\ t.outbound = NoRecords
       /\ t.out_key = s.out_key \/ (s.out_key = NoKey /\ toPeer = NoRecords)
    \/ \E a \in Record : /\ t.outbound = <<a>> /\ a.key = s.out_key
                         /\ Len(toPeer) < 2
    \/ \E a, b \in Record : /\ t.outbound = <<a, b>> /\ toPeer = NoRecords
                            /\ a.key = s.out_key /\ b.key = s.out_key

IsData(record, key) ==
    /\ record = [key |-> key, seq |-> 0, payload |-> AppData]
    /\ key # NoKey

-----------------------------------------------------------------------------
(* Payloads of different types are different.                              *)
LEMMA PayloadsDiffer ==
    ASSUME NEW k, NEW i, NEW m, NEW h, NEW l
    PROVE  Kex(k) # AppData /\ Sig(i, m, h, l) # AppData /\ Ack # AppData
<1>1. /\ Kex(k).type = "KEX" /\ Sig(i, m, h, l).type = "SIG" /\ Ack.type = "ACK"
      /\ AppData.type = "DATA"
  BY DEF Kex, Sig, Ack, AppData
<1>2. QED
  BY <1>1

(* A session by its fields.                                                *)
Of(i, st, mine, his, in, out, pending, nin, nout, ob) ==
    [initiator |-> i, label |-> "stream", state |-> st, my_kex |-> mine,
     his_kex |-> his, in_key |-> in, out_key |-> out, pending_key |-> pending,
     in_seq |-> nin, out_seq |-> nout, outbound |-> ob]

(* The roles: the initiator has Yes, the responder No.                     *)
Yes == TRUE
No == FALSE

(* The number after n, in plaintext.                                       *)
Counted(key, n) == IF key = NoKey THEN n + 1 ELSE n

(* Sequences of one and of two records.                                    *)
LEMMA One ==
    ASSUME NEW r PROVE Append(NoRecords, r) = <<r>>
BY DEF NoRecords

LEMMA Two ==
    ASSUME NEW r, NEW q PROVE Append(<<r>>, q) = <<r, q>>
<1> DEFINE S == {r, q}
<1>1. <<r>> \in Seq(S) /\ <<r, q>> \in Seq(S)
  OBVIOUS
<1>2. Append(<<r>>, q) \in Seq(S)
  BY <1>1
<1>3. Len(Append(<<r>>, q)) = 2 /\ Append(<<r>>, q)[1] = r /\ Append(<<r>>, q)[2] = q
  BY <1>1
<1>4. Len(<<r, q>>) = 2 /\ <<r, q>>[1] = r /\ <<r, q>>[2] = q
  OBVIOUS
<1> DEFINE a == Append(<<r>>, q)
           b == <<r, q>>
<1>5. \A n \in 1 .. Len(a) : a[n] = b[n]
  BY <1>3, <1>4
<1>6. Len(a) = Len(b)
  BY <1>3, <1>4
<1> HIDE DEF a, b, S
<1>7. QED
  BY <1>1, <1>2, <1>5, <1>6, SeqEqual DEF a, b

LEMMA Few ==
    ASSUME NEW S, NEW r \in S, NEW q \in S
    PROVE  <<r>> \in Seq(S) /\ <<r, q>> \in Seq(S)
OBVIOUS

(* QueueHandshake, and the operations that queue a KEX or a SIG.           *)
LEMMA Queueing ==
    ASSUME NEW i, NEW st, NEW mine, NEW his, NEW in, NEW out, NEW pending,
           NEW nin, NEW nout, NEW ob, NEW p
    PROVE  QueueHandshake(Of(i, st, mine, his, in, out, pending, nin, nout, ob), p) =
           Of(i, st, mine, his, in, out, pending, nin,
              Counted(out, nout), Append(ob, Under(out, nout, p)))
<1> DEFINE s == Of(i, st, mine, his, in, out, pending, nin, nout, ob)
           n == Counted(out, nout)
           x == Append(ob, Under(out, nout, p))
<1>1. s.out_key = out /\ s.out_seq = nout
  BY DEF Of
<1>2. Sent(s) = Of(i, st, mine, his, in, out, pending, nin, n, ob)
  <2>1. Sent(s) = IF out = NoKey THEN [s EXCEPT !.out_seq = nout + 1] ELSE s
    BY <1>1 DEF Sent
  <2>2. [s EXCEPT !.out_seq = nout + 1] = Of(i, st, mine, his, in, out, pending, nin, nout + 1,
        ob)
    BY DEF Of
  <2>3. QED
    BY <2>1, <2>2 DEF Counted
<1>3. Encode(s, p) = Under(out, nout, p)
  BY <1>1 DEF Encode, Under
<1>4. Sent(s).outbound = ob
  BY <1>2 DEF Of
<1>5. QueueHandshake(s, p) = [Sent(s) EXCEPT !.outbound = x]
  BY <1>3, <1>4 DEF QueueHandshake
<1>6. [Of(i, st, mine, his, in, out, pending, nin, n, ob) EXCEPT !.outbound = x]
      = Of(i, st, mine, his, in, out, pending, nin, n, x)
  BY DEF Of
<1> HIDE DEF n, x, s
<1>7. QED
  BY <1>2, <1>5, <1>6 DEF n, x, s

LEMMA QueueingKex ==
    ASSUME NEW i, NEW st, NEW mine, NEW his, NEW in, NEW out, NEW pending,
           NEW nin, NEW nout, NEW ob, NEW kex
    PROVE  SendKex(Of(i, st, mine, his, in, out, pending, nin, nout, ob), kex) =
           Of(i, st, kex, his, in, out, pending, nin,
              Counted(out, nout), Append(ob, Under(out, nout, Kex(kex))))
<1> DEFINE s == Of(i, st, mine, his, in, out, pending, nin, nout, ob)
           n == Counted(out, nout)
           x == Append(ob, Under(out, nout, Kex(kex)))
<1>1. QueueHandshake(s, Kex(kex)) = Of(i, st, mine, his, in, out, pending, nin, n, x)
  BY Queueing
<1>2. [Of(i, st, mine, his, in, out, pending, nin, n, x) EXCEPT !.my_kex = kex]
      = Of(i, st, kex, his, in, out, pending, nin, n, x)
  BY DEF Of
<1>3. QED
  BY <1>1, <1>2 DEF SendKex

LEMMA QueueingSig ==
    ASSUME NEW i, NEW st, NEW mine, NEW his, NEW in, NEW out, NEW pending,
           NEW nin, NEW nout, NEW ob
    PROVE  SendSig(Of(i, st, mine, his, in, out, pending, nin, nout, ob)) =
           Of(i, st, mine, his, in, out, pending, nin,
              Counted(out, nout),
              Append(ob, Under(out, nout, Sig(i, mine, his, "stream"))))
<1> DEFINE s == Of(i, st, mine, his, in, out, pending, nin, nout, ob)
<1>1. SendSig(s) = QueueHandshake(s, Sig(i, mine, his, "stream"))
  BY DEF SendSig, Of
<1>2. QED
  BY <1>1, Queueing

-----------------------------------------------------------------------------
(* What the role decides.                                                  *)
LEMMA Initiators ==
    ASSUME NEW s, s.initiator = Yes, s.label = "stream"
    PROVE  /\ s.initiator
           /\ Material(s) = <<s.my_kex, s.his_kex, "stream">>
           /\ \A m : OutKey(s, m) = SealedBy(Yes, m) /\ InKey(s, m) = SealedBy(No, m)
           /\ \A a, b, l : Sig(~s.initiator, a, b, l) = Sig(No, a, b, l)
<1>1. s.initiator = TRUE /\ (~s.initiator) = FALSE
  BY DEF Yes
<1>2. QED
  BY <1>1 DEF Material, OutKey, InKey, Yes, No

LEMMA Responders ==
    ASSUME NEW s, s.initiator = No, s.label = "stream"
    PROVE  /\ ~s.initiator
           /\ Material(s) = <<s.his_kex, s.my_kex, "stream">>
           /\ \A m : OutKey(s, m) = SealedBy(No, m) /\ InKey(s, m) = SealedBy(Yes, m)
           /\ \A a, b, l : Sig(~s.initiator, a, b, l) = Sig(Yes, a, b, l)
<1>1. s.initiator = FALSE /\ (~s.initiator) = TRUE
  BY DEF No
<1>2. QED
  BY <1>1 DEF Material, OutKey, InKey, Yes, No

(* Only the initiator signs when it takes the KEX of its peer.             *)
LEMMA InitiatorTakesKex ==
    ASSUME NEW st, NEW mine, NEW in, NEW out, NEW pending, NEW nin,
           NEW nout, NEW ob, NEW k
    PROVE  ReceiveKex(Of(Yes, st, mine, NoKex, in, out, pending, nin, nout, ob), Kex(k)) =
           Went(Of(Yes, "Sig", mine, k, in, out, pending, nin, Counted(out, nout),
                   Append(ob, Under(out, nout, Sig(Yes, mine, k, "stream")))))
<1> DEFINE s == Of(Yes, st, mine, NoKex, in, out, pending, nin, nout, ob)
           known == Of(Yes, st, mine, k, in, out, pending, nin, nout, ob)
           n == Counted(out, nout)
           x == Append(ob, Under(out, nout, Sig(Yes, mine, k, "stream")))
           signed == Of(Yes, st, mine, k, in, out, pending, nin, n, x)
<1>1. s.his_kex = NoKex /\ s.initiator = Yes /\ s.label = "stream"
  BY DEF Of
<1>2. Kex(k).type = "KEX" /\ Kex(k).kex = k
  BY DEF Kex
<1>3. [s EXCEPT !.his_kex = k] = known
  BY DEF Of
<1>4. SendSig(known) = signed
  BY QueueingSig
<1> HIDE DEF n, x
<1>5. [signed EXCEPT !.state = "Sig"] = Of(Yes, "Sig", mine, k, in, out, pending, nin, n, x)
  BY DEF Of
<1> HIDE DEF s, known, signed
<1>6. s.initiator
  BY <1>1, Initiators
<1>7. ReceiveKex(s, Kex(k)) = Went([SendSig([s EXCEPT !.his_kex = k]) EXCEPT !.state = "Sig"])
  BY <1>1, <1>2, <1>6 DEF ReceiveKex
<1>8. QED
  BY <1>3, <1>4, <1>5, <1>7 DEF s, n, x

LEMMA ResponderTakesKex ==
    ASSUME NEW st, NEW mine, NEW in, NEW out, NEW pending, NEW nin,
           NEW nout, NEW ob, NEW k
    PROVE  ReceiveKex(Of(No, st, mine, NoKex, in, out, pending, nin, nout, ob), Kex(k)) =
           Went(Of(No, "Sig", mine, k, in, out, pending, nin, nout, ob))
<1> DEFINE s == Of(No, st, mine, NoKex, in, out, pending, nin, nout, ob)
           known == Of(No, st, mine, k, in, out, pending, nin, nout, ob)
<1>1. s.his_kex = NoKex /\ s.initiator = No /\ s.label = "stream"
  BY DEF Of
<1>2. Kex(k).type = "KEX" /\ Kex(k).kex = k
  BY DEF Kex
<1>3. [s EXCEPT !.his_kex = k] = known
  BY DEF Of
<1>4. [known EXCEPT !.state = "Sig"] = Of(No, "Sig", mine, k, in, out, pending, nin, nout, ob)
  BY DEF Of
<1> HIDE DEF s, known
<1>5. ~s.initiator
  BY <1>1, Responders
<1>6. ReceiveKex(s, Kex(k)) = Went([[s EXCEPT !.his_kex = k] EXCEPT !.state = "Sig"])
  BY <1>1, <1>2, <1>5 DEF ReceiveKex
<1>7. QED
  BY <1>3, <1>4, <1>6 DEF s

(* What a session becomes that has signed and verified: at the end of the  *)
(* first exchange it takes both keys into use, later the one for what it   *)
(* sends, after its ACK.                                                   *)
Cleared(s) == [s EXCEPT !.my_kex = NoKex, !.his_kex = NoKex]

FirstDone(s, ours, theirs) ==
    [[Cleared(s) EXCEPT !.out_key = ours] EXCEPT !.in_key = theirs, !.state = "SecondaryKex"]

LaterDone(s, ours, m) ==
    [[[QueueHandshake(Cleared(s), Ack) EXCEPT !.pending_key = m] EXCEPT !.out_key = ours]
        EXCEPT !.state = "Ack"]

LEMMA Clearing ==
    ASSUME NEW i, NEW st, NEW mine, NEW his, NEW in, NEW out, NEW pending, NEW nin,
           NEW nout, NEW x
    PROVE  Cleared(Of(i, st, mine, his, in, out, pending, nin, nout, x))
           = Of(i, st, NoKex, NoKex, in, out, pending, nin, nout, x)
<1>1. [Of(i, st, mine, his, in, out, pending, nin, nout, x) EXCEPT !.my_kex = NoKex]
      = Of(i, st, NoKex, his, in, out, pending, nin, nout, x)
  BY DEF Of
<1>2. [Of(i, st, NoKex, his, in, out, pending, nin, nout, x) EXCEPT !.his_kex = NoKex]
      = Of(i, st, NoKex, NoKex, in, out, pending, nin, nout, x)
  BY DEF Of
<1>3. QED
  BY <1>1, <1>2 DEF Cleared

LEMMA FirstFinishing ==
    ASSUME NEW i, NEW mine, NEW his, NEW in, NEW out, NEW pending, NEW nin,
           NEW nout, NEW x, NEW ours, NEW theirs
    PROVE  FirstDone(Of(i, "Sig", mine, his, in, out, pending, nin, nout, x), ours, theirs)
           = Of(i, "SecondaryKex", NoKex, NoKex, theirs, ours, pending, nin, nout, x)
<1>1. [Of(i, "Sig", NoKex, NoKex, in, out, pending, nin, nout, x) EXCEPT !.out_key = ours]
      = Of(i, "Sig", NoKex, NoKex, in, ours, pending, nin, nout, x)
  BY DEF Of
<1>2. [Of(i, "Sig", NoKex, NoKex, in, ours, pending, nin, nout, x) EXCEPT !.in_key = theirs]
      = Of(i, "Sig", NoKex, NoKex, theirs, ours, pending, nin, nout, x)
  BY DEF Of
<1>3. [Of(i, "Sig", NoKex, NoKex, theirs, ours, pending, nin, nout, x)
          EXCEPT !.state = "SecondaryKex"]
      = Of(i, "SecondaryKex", NoKex, NoKex, theirs, ours, pending, nin, nout, x)
  BY DEF Of
<1>4. Cleared(Of(i, "Sig", mine, his, in, out, pending, nin, nout, x))
      = Of(i, "Sig", NoKex, NoKex, in, out, pending, nin, nout, x)
  BY Clearing
<1>5. QED
  BY <1>1, <1>2, <1>3, <1>4 DEF FirstDone

LEMMA LaterFinishing ==
    ASSUME NEW i, NEW mine, NEW his, NEW in, NEW out, NEW pending, NEW nin,
           NEW nout, NEW x, NEW ours, NEW m,
           out # NoKey
    PROVE  LaterDone(Of(i, "Sig", mine, his, in, out, pending, nin, nout, x), ours, m)
           = Of(i, "Ack", NoKex, NoKex, in, ours, m, nin, nout, Append(x, Under(out, nout, Ack)))
<1> DEFINE y == Append(x, Under(out, nout, Ack))
           cleared == Of(i, "Sig", NoKex, NoKex, in, out, pending, nin, nout, x)
<1>1. Cleared(Of(i, "Sig", mine, his, in, out, pending, nin, nout, x)) = cleared
  BY Clearing
<1>2. QueueHandshake(cleared, Ack) = Of(i, "Sig", NoKex, NoKex, in, out, pending, nin, nout, y)
  <2>1. Counted(out, nout) = nout
    BY DEF Counted
  <2>2. QED
    BY <2>1, Queueing
<1> HIDE DEF y, cleared
<1>3. [Of(i, "Sig", NoKex, NoKex, in, out, pending, nin, nout, y) EXCEPT !.pending_key = m]
      = Of(i, "Sig", NoKex, NoKex, in, out, m, nin, nout, y)
  BY DEF Of
<1>4. [Of(i, "Sig", NoKex, NoKex, in, out, m, nin, nout, y) EXCEPT !.out_key = ours]
      = Of(i, "Sig", NoKex, NoKex, in, ours, m, nin, nout, y)
  BY DEF Of
<1>5. [Of(i, "Sig", NoKex, NoKex, in, ours, m, nin, nout, y) EXCEPT !.state = "Ack"]
      = Of(i, "Ack", NoKex, NoKex, in, ours, m, nin, nout, y)
  BY DEF Of
<1>6. QED
  BY <1>1, <1>2, <1>3, <1>4, <1>5 DEF LaterDone, y

(* The initiator has signed before it takes the signature.                 *)
LEMMA InitiatorTakesSig ==
    ASSUME NEW mine, NEW his, NEW in, NEW out, NEW pending, NEW nin,
           NEW nout, NEW ob
    PROVE  LET r == ReceiveSig(Of(Yes, "Sig", mine, his, in, out, pending, nin, nout, ob),
                               Sig(No, his, mine, "stream"))
               m == <<mine, his, "stream">>
           IN  /\ out = NoKey =>
                     r = Completed(Of(Yes, "SecondaryKex", NoKex, NoKex, SealedBy(No, m),
                                      SealedBy(Yes, m), pending, nin, nout, ob))
               /\ out # NoKey =>
                     r = Went(Of(Yes, "Ack", NoKex, NoKex, in, SealedBy(Yes, m), m, nin, nout,
                                 Append(ob, Under(out, nout, Ack))))
<1> DEFINE s == Of(Yes, "Sig", mine, his, in, out, pending, nin, nout, ob)
           m == <<mine, his, "stream">>
           p == Sig(No, his, mine, "stream")
           ours == SealedBy(Yes, m)
           theirs == SealedBy(No, m)
<1>1. /\ s.initiator = Yes /\ s.his_kex = his /\ s.my_kex = mine /\ s.label = "stream"
      /\ s.out_key = out
  BY DEF Of
<1> HIDE DEF s
<1>2. /\ s.initiator /\ Material(s) = m /\ OutKey(s, m) = ours /\ InKey(s, m) = theirs
      /\ p = Sig(~s.initiator, s.his_kex, s.my_kex, s.label)
  BY <1>1, Initiators
<1> HIDE DEF m, p, ours, theirs
<1>3. /\ out = NoKey => ReceiveSig(s, p) = Completed(FirstDone(s, ours, theirs))
      /\ out # NoKey => ReceiveSig(s, p) = Went(LaterDone(s, ours, m))
  BY <1>1, <1>2 DEF ReceiveSig, FirstDone, LaterDone, Cleared
<1>4. /\ FirstDone(s, ours, theirs)
             = Of(Yes, "SecondaryKex", NoKex, NoKex, theirs, ours, pending, nin, nout, ob)
      /\ out # NoKey =>
            LaterDone(s, ours, m)
             = Of(Yes, "Ack", NoKex, NoKex, in, ours, m, nin, nout, Append(ob, Under(out, nout,
                 Ack)))
  BY FirstFinishing, LaterFinishing DEF s
<1>5. QED
  BY <1>3, <1>4 DEF s, m, p, ours, theirs

(* The responder signs now.                                                *)
LEMMA ResponderTakesSig ==
    ASSUME NEW mine, NEW his, NEW in, NEW out, NEW pending, NEW nin,
           NEW nout, NEW ob
    PROVE  LET r == ReceiveSig(Of(No, "Sig", mine, his, in, out, pending, nin, nout, ob),
                               Sig(Yes, his, mine, "stream"))
               m == <<his, mine, "stream">>
               n == Counted(out, nout)
               x == Append(ob, Under(out, nout, Sig(No, mine, his, "stream")))
           IN  /\ out = NoKey =>
                     r = Completed(Of(No, "SecondaryKex", NoKex, NoKex, SealedBy(Yes, m),
                                      SealedBy(No, m), pending, nin, n, x))
               /\ out # NoKey =>
                     r = Went(Of(No, "Ack", NoKex, NoKex, in, SealedBy(No, m), m, nin, n,
                                 Append(x, Under(out, n, Ack))))
<1> DEFINE s == Of(No, "Sig", mine, his, in, out, pending, nin, nout, ob)
           m == <<his, mine, "stream">>
           n == Counted(out, nout)
           x == Append(ob, Under(out, nout, Sig(No, mine, his, "stream")))
           p == Sig(Yes, his, mine, "stream")
           ours == SealedBy(No, m)
           theirs == SealedBy(Yes, m)
           signed == Of(No, "Sig", mine, his, in, out, pending, nin, n, x)
<1>1. /\ s.initiator = No /\ s.his_kex = his /\ s.my_kex = mine /\ s.label = "stream"
      /\ s.out_key = out
  BY DEF Of
<1>2. SendSig(s) = signed
  BY QueueingSig
<1> HIDE DEF s, signed
<1>3. /\ ~s.initiator /\ Material(s) = m /\ OutKey(s, m) = ours /\ InKey(s, m) = theirs
      /\ p = Sig(~s.initiator, s.his_kex, s.my_kex, s.label)
  BY <1>1, Responders
<1> HIDE DEF m, p, ours, theirs, n, x
<1>4. /\ out = NoKey => ReceiveSig(s, p) = Completed(FirstDone(signed, ours, theirs))
      /\ out # NoKey => ReceiveSig(s, p) = Went(LaterDone(signed, ours, m))
  BY <1>1, <1>2, <1>3 DEF ReceiveSig, FirstDone, LaterDone, Cleared
<1>5. /\ FirstDone(signed, ours, theirs)
             = Of(No, "SecondaryKex", NoKex, NoKex, theirs, ours, pending, nin, n, x)
      /\ out # NoKey =>
            LaterDone(signed, ours, m)
             = Of(No, "Ack", NoKex, NoKex, in, ours, m, nin, n, Append(x, Under(out, n, Ack)))
  BY FirstFinishing, LaterFinishing DEF signed
<1>6. QED
  BY <1>4, <1>5 DEF s, m, p, ours, theirs, n, x

(* The ACK announces the key that was agreed.                              *)
LEMMA TakesAck ==
    ASSUME NEW i, NEW mine, NEW his, NEW in, NEW out, NEW pending, NEW nin,
           NEW nout, NEW ob, NEW theirs,
           pending # NoKey,
           theirs = InKey(Of(i, "Ack", mine, his, in, out, pending, nin, nout, ob), pending)
    PROVE  ReceiveAck(Of(i, "Ack", mine, his, in, out, pending, nin, nout, ob), Ack) =
           Completed(Of(i, "SecondaryKex", mine, his, theirs, out, NoKey, nin, nout, ob))
<1> DEFINE s == Of(i, "Ack", mine, his, in, out, pending, nin, nout, ob)
<1>1. s.pending_key = pending
  BY DEF Of
<1>2. ReceiveAck(s, Ack) = Completed([s EXCEPT !.in_key = theirs, !.pending_key = NoKey,
                                               !.state = "SecondaryKex"])
  BY <1>1 DEF ReceiveAck
<1>3. [s EXCEPT !.in_key = theirs, !.pending_key = NoKey, !.state = "SecondaryKex"]
      = Of(i, "SecondaryKex", mine, his, theirs, out, NoKey, nin, nout, ob)
  <2>1. [s EXCEPT !.in_key = theirs]
        = Of(i, "Ack", mine, his, theirs, out, pending, nin, nout, ob)
    BY DEF Of
  <2>2. [Of(i, "Ack", mine, his, theirs, out, pending, nin, nout,
        ob) EXCEPT !.pending_key = NoKey]
        = Of(i, "Ack", mine, his, theirs, out, NoKey, nin, nout, ob)
    BY DEF Of
  <2>3. [Of(i, "Ack", mine, his, theirs, out, NoKey, nin, nout,
        ob) EXCEPT !.state = "SecondaryKex"]
        = Of(i, "SecondaryKex", mine, his, theirs, out, NoKey, nin, nout, ob)
    BY DEF Of
  <2> HIDE DEF s
  <2>4. QED
    BY <2>1, <2>2, <2>3
<1>4. QED
  BY <1>2, <1>3

(* ForceKex at rest.                                                       *)
LEMMA Forcing ==
    ASSUME NEW i, NEW his, NEW in, NEW out, NEW pending, NEW nin, NEW nout, NEW ob, NEW kex
    PROVE  ForceKex(Of(i, "SecondaryKex", NoKex, his, in, out, pending, nin, nout, ob), kex) =
           Of(i, "Kex", kex, his, in, out, pending, nin,
              Counted(out, nout), Append(ob, Under(out, nout, Kex(kex))))
<1> DEFINE s == Of(i, "SecondaryKex", NoKex, his, in, out, pending, nin, nout, ob)
           n == Counted(out, nout)
           x == Append(ob, Under(out, nout, Kex(kex)))
<1>1. s.my_kex = NoKex
  BY DEF Of
<1>2. SendKex(s, kex) = Of(i, "SecondaryKex", kex, his, in, out, pending, nin, n, x)
  BY QueueingKex
<1>3. ForceKex(s, kex) = [SendKex(s, kex) EXCEPT !.state = "Kex"]
  BY <1>1 DEF ForceKex
<1>4. [Of(i, "SecondaryKex", kex, his, in, out, pending, nin, n, x) EXCEPT !.state = "Kex"]
      = Of(i, "Kex", kex, his, in, out, pending, nin, n, x)
  BY DEF Of
<1>5. QED
  BY <1>2, <1>3, <1>4

(* Records in plaintext are counted when they are opened.                  *)
LEMMA Opening ==
    ASSUME NEW i, NEW st, NEW mine, NEW his, NEW in, NEW out, NEW pending, NEW nin, NEW nout,
           NEW ob, NEW record, record.key = in, in = NoKey => record.seq = nin
    PROVE  LET s == Of(i, st, mine, his, in, out, pending, nin, nout, ob)
           IN  /\ Opens(s, record)
               /\ Opened(s) = Of(i, st, mine, his, in, out, pending,
                                 Counted(in, nin), nout, ob)
<1> DEFINE s == Of(i, st, mine, his, in, out, pending, nin, nout, ob)
<1>1. s.in_key = in /\ s.in_seq = nin
  BY DEF Of
<1>2. Opens(s, record)
  BY <1>1 DEF Opens
<1>3. Opened(s) = IF in = NoKey THEN [s EXCEPT !.in_seq = nin + 1] ELSE s
  BY <1>1 DEF Opened
<1>4. [s EXCEPT !.in_seq = nin + 1] = Of(i, st, mine, his, in, out, pending, nin + 1, nout, ob)
  BY DEF Of
<1>5. QED
  BY <1>2, <1>3, <1>4 DEF Counted

-----------------------------------------------------------------------------
(* What a session does with a record that its state and its keys fit.      *)
LEMMA ReadsHandshake ==
    ASSUME NEW i, NEW st, NEW mine, NEW his, NEW in, NEW out, NEW pending, NEW nin, NEW nout,
           NEW ob, NEW p, p # AppData, NEW kex
    PROVE  ReceiveDatagram(Of(i, st, mine, his, in, out, pending, nin, nout, ob),
                           Under(in, nin, p), kex) =
           ReceiveHandshake(Of(i, st, mine, his, in, out, pending, Counted(in, nin), nout, ob),
               p, kex)
<1> DEFINE s == Of(i, st, mine, his, in, out, pending, nin, nout, ob)
           record == Under(in, nin, p)
<1>1. record.key = in /\ (in = NoKey => record.seq = nin) /\ record.payload = p
  BY DEF Under
<1> HIDE DEF record
<1>2. /\ Opens(s, record)
      /\ Opened(s) = Of(i, st, mine, his, in, out, pending, Counted(in, nin), nout, ob)
  BY <1>1, Opening
<1> HIDE DEF s
<1>3. QED
  BY <1>1, <1>2 DEF ReceiveDatagram, record, s

(* An application record under the key in use changes nothing.             *)
LEMMA ReadsData ==
    ASSUME NEW s, NEW record, IsData(record, s.in_key), NEW kex
    PROVE  ReceiveDatagram(s, record, kex) = Went(s)
<1>1. record.key = s.in_key /\ s.in_key # NoKey /\ record.payload = AppData
  BY DEF IsData
<1>2. Opens(s, record) /\ Opened(s) = s
  BY <1>1 DEF Opens, Opened
<1>3. QED
  BY <1>1, <1>2 DEF ReceiveDatagram

-----------------------------------------------------------------------------
(* Under a key the number of a record does not matter.                     *)
LEMMA UnderKey ==
    ASSUME NEW key, NEW n, NEW m, NEW p, key = NoKey => n = m
    PROVE  Under(key, n, p) = Under(key, m, p)
<1>1. CASE key = NoKey
  BY <1>1
<1>2. CASE key # NoKey
  BY <1>2 DEF Under
<1>3. QED
  BY <1>1, <1>2

(* An end that waits for the KEX of its peer.                              *)
LEMMA InitiatorBegunReads ==
    ASSUME NEW mine, NEW in, NEW out, NEW pending, NEW nin, NEW nout, NEW kex, NEW k, NEW n,
           in = NoKey => n = nin
    PROVE  ReceiveDatagram(Of(Yes, "Kex", mine, NoKex, in, out, pending, nin, nout, NoRecords),
                           Under(in, n, Kex(k)), kex) =
           Went(Of(Yes, "Sig", mine, k, in, out, pending, Counted(in, nin), Counted(out, nout),
                   <<Under(out, nout, Sig(Yes, mine, k, "stream"))>>))
<1> DEFINE c == Counted(in, nin)
           s == Of(Yes, "Kex", mine, NoKex, in, out, pending, nin, nout, NoRecords)
           t == Of(Yes, "Kex", mine, NoKex, in, out, pending, c, nout, NoRecords)
           sig == Under(out, nout, Sig(Yes, mine, k, "stream"))
           e == Of(Yes, "Sig", mine, k, in, out, pending, c, Counted(out, nout), <<sig>>)
<1>1. Under(in, n, Kex(k)) = Under(in, nin, Kex(k))
  BY UnderKey
<1>2. Kex(k) # AppData
  BY PayloadsDiffer
<1>3. ReceiveDatagram(s, Under(in, nin, Kex(k)), kex) = ReceiveHandshake(t, Kex(k), kex)
  BY <1>2, ReadsHandshake
<1>4. t.state = "Kex"
  BY DEF Of
<1>5. ReceiveKex(t, Kex(k)) =
      Went(Of(Yes, "Sig", mine, k, in, out, pending, c, Counted(out, nout), Append(NoRecords,
          sig)))
  BY InitiatorTakesKex
<1>6. Append(NoRecords, sig) = <<sig>>
  BY One
<1> HIDE DEF c, s, t, sig
<1>7. ReceiveHandshake(t, Kex(k), kex) = ReceiveKex(t, Kex(k))
  BY <1>4 DEF ReceiveHandshake
<1>8. QED
  BY <1>1, <1>3, <1>5, <1>6, <1>7 DEF c, s, sig

LEMMA ResponderBegunReads ==
    ASSUME NEW mine, NEW in, NEW out, NEW pending, NEW nin, NEW nout, NEW kex, NEW k, NEW n,
           in = NoKey => n = nin
    PROVE  ReceiveDatagram(Of(No, "Kex", mine, NoKex, in, out, pending, nin, nout, NoRecords),
                           Under(in, n, Kex(k)), kex) =
           Went(Of(No, "Sig", mine, k, in, out, pending, Counted(in, nin), nout, NoRecords))
<1> DEFINE c == Counted(in, nin)
           s == Of(No, "Kex", mine, NoKex, in, out, pending, nin, nout, NoRecords)
           t == Of(No, "Kex", mine, NoKex, in, out, pending, c, nout, NoRecords)
<1>1. Under(in, n, Kex(k)) = Under(in, nin, Kex(k))
  BY UnderKey
<1>2. Kex(k) # AppData
  BY PayloadsDiffer
<1>3. ReceiveDatagram(s, Under(in, nin, Kex(k)), kex) = ReceiveHandshake(t, Kex(k), kex)
  BY <1>2, ReadsHandshake
<1>4. t.state = "Kex"
  BY DEF Of
<1>5. ReceiveKex(t, Kex(k)) = Went(Of(No, "Sig", mine, k, in, out, pending, c, nout, NoRecords))
  BY ResponderTakesKex
<1> HIDE DEF c, s, t
<1>6. ReceiveHandshake(t, Kex(k), kex) = ReceiveKex(t, Kex(k))
  BY <1>4 DEF ReceiveHandshake
<1>7. QED
  BY <1>1, <1>3, <1>5, <1>6 DEF c, s

(* An end at rest, which has keys, answers with its own KEX first.         *)
LEMMA RestingReads ==
    ASSUME NEW i, NEW his, NEW in, NEW out, NEW pending, NEW nin, NEW nout, NEW kex, NEW k, NEW n,
           in # NoKey, out # NoKey
    PROVE  ReceiveDatagram(Of(i, "SecondaryKex", NoKex, his, in, out, pending, nin, nout,
        NoRecords),
                           Under(in, n, Kex(k)), kex) =
           ReceiveKex(Of(i, "SecondaryKex", kex, his, in, out, pending, nin, nout,
                         <<Under(out, nout, Kex(kex))>>), Kex(k))
<1> DEFINE s == Of(i, "SecondaryKex", NoKex, his, in, out, pending, nin, nout, NoRecords)
           own == Under(out, nout, Kex(kex))
           t == Of(i, "SecondaryKex", kex, his, in, out, pending, nin, nout, <<own>>)
<1>1. Under(in, n, Kex(k)) = Under(in, nin, Kex(k))
  BY UnderKey
<1>2. Kex(k) # AppData
  BY PayloadsDiffer
<1>3. Counted(in, nin) = nin /\ Counted(out, nout) = nout
  BY DEF Counted
<1>4. ReceiveDatagram(s, Under(in, nin, Kex(k)), kex) = ReceiveHandshake(s, Kex(k), kex)
  BY <1>2, <1>3, ReadsHandshake
<1>5. s.state = "SecondaryKex" /\ s.my_kex = NoKex
  BY DEF Of
<1>6. SendKex(s, kex) = Of(i, "SecondaryKex", kex, his, in, out, pending, nin, nout,
                           Append(NoRecords, own))
  BY <1>3, QueueingKex
<1>7. Append(NoRecords, own) = <<own>>
  BY One
<1> HIDE DEF s, own
<1>8. ReceiveHandshake(s, Kex(k), kex) = ReceiveKex(SendKex(s, kex), Kex(k))
  BY <1>5 DEF ReceiveHandshake
<1>9. QED
  BY <1>1, <1>4, <1>6, <1>7, <1>8 DEF s, own

LEMMA InitiatorRestingReads ==
    ASSUME NEW in, NEW out, NEW pending, NEW nin, NEW nout, NEW kex, NEW k, NEW n,
           in # NoKey, out # NoKey
    PROVE  ReceiveDatagram(Of(Yes, "SecondaryKex", NoKex, NoKex, in, out, pending, nin, nout,
        NoRecords),
                           Under(in, n, Kex(k)), kex) =
           Went(Of(Yes, "Sig", kex, k, in, out, pending, nin, nout,
                   <<Under(out, nout, Kex(kex)),
                     Under(out, nout, Sig(Yes, kex, k, "stream"))>>))
<1> DEFINE own == Under(out, nout, Kex(kex))
           sig == Under(out, nout, Sig(Yes, kex, k, "stream"))
<1>1. Counted(out, nout) = nout
  BY DEF Counted
<1>2. ReceiveKex(Of(Yes, "SecondaryKex", kex, NoKex, in, out, pending, nin, nout, <<own>>),
      Kex(k)) =
      Went(Of(Yes, "Sig", kex, k, in, out, pending, nin, nout, Append(<<own>>, sig)))
  BY <1>1, InitiatorTakesKex
<1>3. Append(<<own>>, sig) = <<own, sig>>
  BY Two
<1>4. ReceiveDatagram(Of(Yes, "SecondaryKex", NoKex, NoKex, in, out, pending, nin, nout,
      NoRecords),
                      Under(in, n, Kex(k)), kex)
      = ReceiveKex(Of(Yes, "SecondaryKex", kex, NoKex, in, out, pending, nin, nout, <<own>>),
          Kex(k))
  BY RestingReads
<1> HIDE DEF own, sig
<1>5. QED
  BY <1>2, <1>3, <1>4 DEF own, sig

LEMMA ResponderRestingReads ==
    ASSUME NEW in, NEW out, NEW pending, NEW nin, NEW nout, NEW kex, NEW k, NEW n,
           in # NoKey, out # NoKey
    PROVE  ReceiveDatagram(Of(No, "SecondaryKex", NoKex, NoKex, in, out, pending, nin, nout,
        NoRecords),
                           Under(in, n, Kex(k)), kex) =
           Went(Of(No, "Sig", kex, k, in, out, pending, nin, nout, <<Under(out, nout,
               Kex(kex))>>))
<1> DEFINE own == Under(out, nout, Kex(kex))
<1>1. ReceiveKex(Of(No, "SecondaryKex", kex, NoKex, in, out, pending, nin, nout, <<own>>),
      Kex(k)) =
      Went(Of(No, "Sig", kex, k, in, out, pending, nin, nout, <<own>>))
  BY ResponderTakesKex
<1>2. ReceiveDatagram(Of(No, "SecondaryKex", NoKex, NoKex, in, out, pending, nin, nout,
      NoRecords),
                      Under(in, n, Kex(k)), kex)
      = ReceiveKex(Of(No, "SecondaryKex", kex, NoKex, in, out, pending, nin, nout, <<own>>),
          Kex(k))
  BY RestingReads
<1> HIDE DEF own
<1>3. QED
  BY <1>1, <1>2 DEF own

(* An end that waits for the signature of its peer.                        *)
LEMMA SigningReads ==
    ASSUME NEW i, NEW mine, NEW his, NEW in, NEW out, NEW pending, NEW nin, NEW nout, NEW kex,
        NEW n,
           NEW j, in = NoKey => n = nin
    PROVE  ReceiveDatagram(Of(i, "Sig", mine, his, in, out, pending, nin, nout, NoRecords),
                           Under(in, n, Sig(j, his, mine, "stream")), kex) =
           ReceiveSig(Of(i, "Sig", mine, his, in, out, pending, Counted(in, nin), nout,
               NoRecords),
                      Sig(j, his, mine, "stream"))
<1> DEFINE c == Counted(in, nin)
           s == Of(i, "Sig", mine, his, in, out, pending, nin, nout, NoRecords)
           t == Of(i, "Sig", mine, his, in, out, pending, c, nout, NoRecords)
           p == Sig(j, his, mine, "stream")
<1>1. Under(in, n, p) = Under(in, nin, p)
  BY UnderKey
<1>2. p # AppData
  BY PayloadsDiffer
<1> HIDE DEF p
<1>3. ReceiveDatagram(s, Under(in, nin, p), kex) = ReceiveHandshake(t, p, kex)
  BY <1>2, ReadsHandshake
<1>4. t.state = "Sig"
  BY DEF Of
<1> HIDE DEF s, t
<1>5. ReceiveHandshake(t, p, kex) = ReceiveSig(t, p)
  BY <1>4 DEF ReceiveHandshake
<1>6. QED
  BY <1>1, <1>3, <1>5 DEF p, s, t

LEMMA InitiatorFirstReads ==
    ASSUME NEW mine, NEW his, NEW in, NEW out, NEW pending, NEW nin, NEW nout, NEW kex, NEW n,
           in = NoKey => n = nin, out = NoKey
    PROVE  ReceiveDatagram(Of(Yes, "Sig", mine, his, in, out, pending, nin, nout, NoRecords),
                           Under(in, n, Sig(No, his, mine, "stream")), kex)
           = Completed(Of(Yes, "SecondaryKex", NoKex, NoKex,
                          SealedBy(No, <<mine, his, "stream">>),
                          SealedBy(Yes, <<mine, his, "stream">>),
                          pending, Counted(in, nin), nout, NoRecords))
<1> DEFINE c == Counted(in, nin)
           m == <<mine, his, "stream">>
           p == Sig(No, his, mine, "stream")
           t == Of(Yes, "Sig", mine, his, in, out, pending, c, nout, NoRecords)
<1>1. ReceiveDatagram(Of(Yes, "Sig", mine, his, in, out, pending, nin, nout, NoRecords),
                      Under(in, n, p), kex) = ReceiveSig(t, p)
  BY SigningReads
<1>2. ReceiveSig(t, p) =
      Completed(Of(Yes, "SecondaryKex", NoKex, NoKex, SealedBy(No, m), SealedBy(Yes, m),
                   pending, c, nout, NoRecords))
  BY InitiatorTakesSig
<1> HIDE DEF t
<1>3. QED
  BY <1>1, <1>2

LEMMA InitiatorLaterReads ==
    ASSUME NEW mine, NEW his, NEW in, NEW out, NEW pending, NEW nin, NEW nout, NEW kex, NEW n,
           in = NoKey => n = nin, out # NoKey
    PROVE  ReceiveDatagram(Of(Yes, "Sig", mine, his, in, out, pending, nin, nout, NoRecords),
                           Under(in, n, Sig(No, his, mine, "stream")), kex)
           = Went(Of(Yes, "Ack", NoKex, NoKex, in,
                     SealedBy(Yes, <<mine, his, "stream">>),
                     <<mine, his, "stream">>, Counted(in, nin), nout,
                     <<Under(out, nout, Ack)>>))
<1> DEFINE c == Counted(in, nin)
           m == <<mine, his, "stream">>
           p == Sig(No, his, mine, "stream")
           t == Of(Yes, "Sig", mine, his, in, out, pending, c, nout, NoRecords)
           ack == Under(out, nout, Ack)
<1>1. ReceiveDatagram(Of(Yes, "Sig", mine, his, in, out, pending, nin, nout, NoRecords),
                      Under(in, n, p), kex) = ReceiveSig(t, p)
  BY SigningReads
<1>2. ReceiveSig(t, p) =
      Went(Of(Yes, "Ack", NoKex, NoKex, in, SealedBy(Yes, m), m, c, nout,
              Append(NoRecords, ack)))
  BY InitiatorTakesSig
<1>3. Append(NoRecords, ack) = <<ack>>
  BY One, Two
<1> HIDE DEF c, m, p, t
<1>4. QED
  BY <1>1, <1>2, <1>3 DEF c, m, p

LEMMA ResponderFirstReads ==
    ASSUME NEW mine, NEW his, NEW in, NEW out, NEW pending, NEW nin, NEW nout, NEW kex, NEW n,
           in = NoKey => n = nin, out = NoKey
    PROVE  ReceiveDatagram(Of(No, "Sig", mine, his, in, out, pending, nin, nout, NoRecords),
                           Under(in, n, Sig(Yes, his, mine, "stream")), kex)
           = Completed(Of(No, "SecondaryKex", NoKex, NoKex,
                          SealedBy(Yes, <<his, mine, "stream">>),
                          SealedBy(No, <<his, mine, "stream">>),
                          pending, Counted(in, nin), Counted(out, nout),
                          <<Under(out, nout, Sig(No, mine, his, "stream"))>>))
<1> DEFINE c == Counted(in, nin)
           m == <<his, mine, "stream">>
           p == Sig(Yes, his, mine, "stream")
           t == Of(No, "Sig", mine, his, in, out, pending, c, nout, NoRecords)
           d == Counted(out, nout)
           sig == Under(out, nout, Sig(No, mine, his, "stream"))
<1>1. ReceiveDatagram(Of(No, "Sig", mine, his, in, out, pending, nin, nout, NoRecords),
                      Under(in, n, p), kex) = ReceiveSig(t, p)
  BY SigningReads
<1>2. ReceiveSig(t, p) =
      Completed(Of(No, "SecondaryKex", NoKex, NoKex, SealedBy(Yes, m), SealedBy(No, m),
                   pending, c, d, Append(NoRecords, sig)))
  BY ResponderTakesSig
<1>3. Append(NoRecords, sig) = <<sig>>
  BY One, Two
<1> HIDE DEF c, m, p, t, d, sig
<1>4. QED
  BY <1>1, <1>2, <1>3 DEF c, m, p, d, sig

LEMMA ResponderLaterReads ==
    ASSUME NEW mine, NEW his, NEW in, NEW out, NEW pending, NEW nin, NEW nout, NEW kex, NEW n,
           in = NoKey => n = nin, out # NoKey
    PROVE  ReceiveDatagram(Of(No, "Sig", mine, his, in, out, pending, nin, nout, NoRecords),
                           Under(in, n, Sig(Yes, his, mine, "stream")), kex)
           = Went(Of(No, "Ack", NoKex, NoKex, in,
                     SealedBy(No, <<his, mine, "stream">>),
                     <<his, mine, "stream">>, Counted(in, nin), nout,
                     <<Under(out, nout, Sig(No, mine, his, "stream")),
                       Under(out, nout, Ack)>>))
<1> DEFINE c == Counted(in, nin)
           m == <<his, mine, "stream">>
           p == Sig(Yes, his, mine, "stream")
           t == Of(No, "Sig", mine, his, in, out, pending, c, nout, NoRecords)
           d == Counted(out, nout)
           sig == Under(out, nout, Sig(No, mine, his, "stream"))
           ack == Under(out, nout, Ack)
<1>1. ReceiveDatagram(Of(No, "Sig", mine, his, in, out, pending, nin, nout, NoRecords),
                      Under(in, n, p), kex) = ReceiveSig(t, p)
  BY SigningReads
<1>2. ReceiveSig(t, p) =
      Went(Of(No, "Ack", NoKex, NoKex, in, SealedBy(No, m), m, c, d,
              Append(Append(NoRecords, sig), Under(out, d, Ack))))
  BY ResponderTakesSig
<1>3. Append(NoRecords, sig) = <<sig>> /\ Append(<<sig>>, ack) = <<sig, ack>> /\ d = nout
  BY One, Two DEF Counted
<1> HIDE DEF c, m, p, t, d, sig
<1>4. QED
  BY <1>1, <1>2, <1>3 DEF c, m, p, d, sig

(* An end that waits for the ACK of its peer.                              *)
LEMMA WaitingReads ==
    ASSUME NEW i, NEW mine, NEW his, NEW in, NEW out, NEW pending, NEW nin, NEW nout, NEW kex,
        NEW n,
           in # NoKey, pending # NoKey, NEW theirs,
           theirs = InKey(Of(i, "Ack", mine, his, in, out, pending, nin, nout, NoRecords),
               pending)
    PROVE  ReceiveDatagram(Of(i, "Ack", mine, his, in, out, pending, nin, nout, NoRecords),
                           Under(in, n, Ack), kex) =
           Completed(Of(i, "SecondaryKex", mine, his, theirs, out, NoKey, nin, nout, NoRecords))
<1> DEFINE s == Of(i, "Ack", mine, his, in, out, pending, nin, nout, NoRecords)
<1>1. Under(in, n, Ack) = Under(in, nin, Ack)
  BY UnderKey
<1>2. Ack # AppData
  BY PayloadsDiffer
<1>3. Counted(in, nin) = nin
  BY DEF Counted
<1>4. ReceiveDatagram(s, Under(in, nin, Ack), kex) = ReceiveHandshake(s, Ack, kex)
  BY <1>2, <1>3, ReadsHandshake
<1>5. s.state = "Ack"
  BY DEF Of
<1>6. ReceiveAck(s, Ack) =
      Completed(Of(i, "SecondaryKex", mine, his, theirs, out, NoKey, nin, nout, NoRecords))
  BY TakesAck
<1> HIDE DEF s
<1>7. ReceiveHandshake(s, Ack, kex) = ReceiveAck(s, Ack)
  BY <1>5 DEF ReceiveHandshake
<1>8. QED
  BY <1>1, <1>4, <1>6, <1>7 DEF s

-----------------------------------------------------------------------------
(* What travels on a wire: handshake records hs in this order, before each *)
(* of them application records sealed with the same key as it, and after   *)
(* the last one application records sealed with the key `last`.            *)
Plain(w, hs, last) ==
    Len(hs) = 0 /\ \A n \in 1 .. Len(w) : IsData(w[n], last)

WithOne(w, hs, last) ==
    /\ Len(hs) = 1
    /\ \E p \in 1 .. Len(w) :
           /\ w[p] = hs[1]
           /\ \A n \in 1 .. Len(w) : /\ n < p => IsData(w[n], hs[1].key)
                                     /\ n > p => IsData(w[n], last)

WithTwo(w, hs, last) ==
    /\ Len(hs) = 2
    /\ \E p, q \in 1 .. Len(w) :
           /\ p < q /\ w[p] = hs[1] /\ w[q] = hs[2]
           /\ \A n \in 1 .. Len(w) : /\ n < p => IsData(w[n], hs[1].key)
                                     /\ p < n /\ n < q => IsData(w[n], hs[2].key)
                                     /\ n > q => IsData(w[n], last)

Carries(w, hs, last) == Plain(w, hs, last) \/ WithOne(w, hs, last) \/ WithTwo(w, hs, last)

-----------------------------------------------------------------------------
(* An application record may join the end of a wire.                       *)
LEMMA CarriesOneMore ==
    ASSUME NEW S, NEW w \in Seq(S), NEW hs \in Seq(S), NEW last, NEW d \in S,
           Carries(w, hs, last), IsData(d, last)
    PROVE  Carries(Append(w, d), hs, last)
<1> DEFINE v == Append(w, d)
<1>1. /\ v \in Seq(S) /\ Len(w) \in Nat /\ Len(v) = Len(w) + 1 /\ v[Len(w) + 1] = d
      /\ \A n \in 1 .. Len(w) : v[n] = w[n]
  OBVIOUS
<1> HIDE DEF v
<1>2. CASE Plain(w, hs, last)
  <2>1. \A n \in 1 .. Len(v) : IsData(v[n], last)
    BY <1>1, <1>2, SMT DEF Plain
  <2>2. QED
    BY <1>2, <2>1 DEF Carries, Plain, v
<1>3. CASE WithOne(w, hs, last)
  <2>1. PICK p \in 1 .. Len(w) :
            /\ w[p] = hs[1]
            /\ \A n \in 1 .. Len(w) : /\ n < p => IsData(w[n], hs[1].key)
                                      /\ n > p => IsData(w[n], last)
    BY <1>3 DEF WithOne
  <2>2. p \in 1 .. Len(v) /\ v[p] = hs[1]
    BY <1>1, <2>1
  <2>3. \A n \in 1 .. Len(v) : /\ n < p => IsData(v[n], hs[1].key)
                               /\ n > p => IsData(v[n], last)
    BY <1>1, <2>1
  <2>4. WithOne(v, hs, last)
    BY <1>3, <2>2, <2>3 DEF WithOne
  <2>5. QED
    BY <2>4 DEF Carries, v
<1>4. CASE WithTwo(w, hs, last)
  <2>1. PICK p \in 1 .. Len(w), q \in 1 .. Len(w) :
            /\ p < q /\ w[p] = hs[1] /\ w[q] = hs[2]
            /\ \A n \in 1 .. Len(w) : /\ n < p => IsData(w[n], hs[1].key)
                                      /\ p < n /\ n < q => IsData(w[n], hs[2].key)
                                      /\ n > q => IsData(w[n], last)
    BY <1>4 DEF WithTwo
  <2>2. p \in 1 .. Len(v) /\ q \in 1 .. Len(v) /\ v[p] = hs[1] /\ v[q] = hs[2]
    BY <1>1, <2>1
  <2>3. \A n \in 1 .. Len(v) : /\ n < p => IsData(v[n], hs[1].key)
                               /\ p < n /\ n < q => IsData(v[n], hs[2].key)
                               /\ n > q => IsData(v[n], last)
    BY <1>1, <2>1
  <2>4. WithTwo(v, hs, last)
    BY <1>4, <2>1, <2>2, <2>3 DEF WithTwo
  <2>5. QED
    BY <2>4 DEF Carries, v
<1>5. QED
  BY <1>2, <1>3, <1>4 DEF Carries

(* So may a handshake record that is sealed with the last key; what        *)
(* follows it may then have another key.                                   *)
LEMMA CarriesOneMoreHandshake ==
    ASSUME NEW S, NEW w \in Seq(S), NEW hs \in Seq(S), NEW h \in S, NEW last,
           Carries(w, hs, h.key), Len(hs) < 2
    PROVE  Carries(Append(w, h), Append(hs, h), last)
<1> DEFINE v == Append(w, h)
           gs == Append(hs, h)
           q == Len(w) + 1
<1>1. /\ v \in Seq(S) /\ Len(w) \in Nat /\ Len(v) = Len(w) + 1 /\ v[q] = h
      /\ \A n \in 1 .. Len(w) : v[n] = w[n]
  OBVIOUS
<1>2. /\ Len(hs) \in Nat /\ Len(gs) = Len(hs) + 1 /\ gs[Len(hs) + 1] = h
      /\ \A n \in 1 .. Len(hs) : gs[n] = hs[n]
  OBVIOUS
<1> HIDE DEF v, gs
<1>3. CASE Plain(w, hs, h.key)
  <2>1. q \in 1 .. Len(v) /\ v[q] = gs[1] /\ gs[1] = h /\ Len(gs) = 1
    BY <1>1, <1>2, <1>3 DEF Plain
  <2>2. \A n \in 1 .. Len(v) : /\ n < q => IsData(v[n], gs[1].key)
                               /\ n > q => IsData(v[n], last)
    BY <1>1, <1>3, <2>1 DEF Plain
  <2> HIDE DEF q
  <2>3. WithOne(v, gs, last)
    BY <2>1, <2>2 DEF WithOne
  <2>4. QED
    BY <2>3 DEF Carries, v, gs
<1>4. CASE WithOne(w, hs, h.key)
  <2>1. PICK p \in 1 .. Len(w) :
            /\ w[p] = hs[1]
            /\ \A n \in 1 .. Len(w) : /\ n < p => IsData(w[n], hs[1].key)
                                      /\ n > p => IsData(w[n], h.key)
    BY <1>4 DEF WithOne
  <2>2. Len(gs) = 2 /\ gs[1] = hs[1] /\ gs[2] = h
    BY <1>2, <1>4 DEF WithOne
  <2>3. p \in 1 .. Len(v) /\ q \in 1 .. Len(v) /\ p < q /\ v[p] = gs[1] /\ v[q] = gs[2]
    BY <1>1, <2>1, <2>2
  <2>4. \A n \in 1 .. Len(v) : /\ n < p => IsData(v[n], gs[1].key)
                               /\ p < n /\ n < q => IsData(v[n], gs[2].key)
                               /\ n > q => IsData(v[n], last)
    BY <1>1, <2>1, <2>2
  <2> HIDE DEF q
  <2>5. WithTwo(v, gs, last)
    BY <2>2, <2>3, <2>4 DEF WithTwo
  <2>6. QED
    BY <2>5 DEF Carries, v, gs
<1>5. CASE WithTwo(w, hs, h.key)
  BY <1>5 DEF WithTwo
<1>6. QED
  BY <1>3, <1>4, <1>5 DEF Carries

(* The first record of a wire is an application record, and the rest is as *)
(* before, or else the first handshake record.                             *)
LEMMA CarriesOneLess ==
    ASSUME NEW S, NEW w \in Seq(S), NEW hs \in Seq(S), NEW last,
           Carries(w, hs, last), w # <<>>
    PROVE  \/ /\ IsData(Head(w), IF hs = <<>> THEN last ELSE hs[1].key)
              /\ Carries(Tail(w), hs, last)
           \/ /\ hs # <<>> /\ Head(w) = hs[1]
              /\ Carries(Tail(w), Tail(hs), last)
<1> DEFINE v == Tail(w)
           gs == Tail(hs)
           head == Head(w)
<1>1. /\ v \in Seq(S) /\ Len(v) = Len(w) - 1 /\ head = w[1] /\ Len(w) \in Nat \ {0}
      /\ \A n \in 1 .. Len(v) : v[n] = w[n + 1]
  OBVIOUS
<1>2. /\ hs # <<>> <=> Len(hs) # 0
      /\ hs # <<>> => /\ Len(gs) = Len(hs) - 1
                      /\ \A n \in 1 .. Len(gs) : gs[n] = hs[n + 1]
  OBVIOUS
<1>3. SUFFICES \/ /\ IsData(head, IF hs = <<>> THEN last ELSE hs[1].key)
                  /\ Carries(v, hs, last)
               \/ /\ hs # <<>> /\ head = hs[1]
                  /\ Carries(v, gs, last)
  OBVIOUS
<1> HIDE DEF v, gs, head
<1>4. CASE Plain(w, hs, last)
  <2>1. IsData(head, last)
    BY <1>1, <1>4 DEF Plain
  <2>2. Plain(v, hs, last)
    BY <1>1, <1>4 DEF Plain
  <2>3. QED
    BY <1>2, <1>4, <2>1, <2>2 DEF Carries, Plain
<1>5. CASE WithOne(w, hs, last)
  <2>1. PICK p \in 1 .. Len(w) :
            /\ w[p] = hs[1]
            /\ \A n \in 1 .. Len(w) : /\ n < p => IsData(w[n], hs[1].key)
                                      /\ n > p => IsData(w[n], last)
    BY <1>5 DEF WithOne
  <2>2. Len(hs) = 1 /\ hs # <<>> /\ Len(gs) = 0
    BY <1>2, <1>5 DEF WithOne
  <2>3. CASE p = 1
    <3>1. head = hs[1]
      BY <1>1, <2>1, <2>3
    <3>2. Plain(v, gs, last)
      BY <1>1, <2>1, <2>2, <2>3 DEF Plain
    <3>3. QED
      BY <2>2, <3>1, <3>2 DEF Carries
  <2>4. CASE p # 1
    <3>1. IsData(head, hs[1].key)
      BY <1>1, <2>1, <2>4
    <3> DEFINE o == p - 1
    <3>2. o \in 1 .. Len(v) /\ v[o] = hs[1]
      BY <1>1, <2>1, <2>4
    <3>3. \A n \in 1 .. Len(v) : /\ n < o => IsData(v[n], hs[1].key)
                                 /\ n > o => IsData(v[n], last)
      BY <1>1, <2>1, <2>4
    <3> HIDE DEF o
    <3>4. WithOne(v, hs, last)
      BY <2>2, <3>2, <3>3 DEF WithOne
    <3>5. QED
      BY <2>2, <3>1, <3>4 DEF Carries
  <2>5. QED
    BY <2>3, <2>4
<1>6. CASE WithTwo(w, hs, last)
  <2>1. PICK p \in 1 .. Len(w), q \in 1 .. Len(w) :
            /\ p < q /\ w[p] = hs[1] /\ w[q] = hs[2]
            /\ \A n \in 1 .. Len(w) : /\ n < p => IsData(w[n], hs[1].key)
                                      /\ p < n /\ n < q => IsData(w[n], hs[2].key)
                                      /\ n > q => IsData(w[n], last)
    BY <1>6 DEF WithTwo
  <2>2. Len(hs) = 2 /\ hs # <<>> /\ Len(gs) = 1 /\ gs[1] = hs[2]
    <3>1. Len(hs) = 2
      BY <1>6 DEF WithTwo
    <3>2. hs # <<>> /\ Len(gs) = 1
      BY <1>2, <3>1
    <3>3. QED
      BY <1>2, <3>1, <3>2
  <2> DEFINE r == q - 1
  <2>3. CASE p = 1
    <3>1. head = hs[1]
      BY <1>1, <2>1, <2>3
    <3>2. r \in 1 .. Len(v) /\ v[r] = gs[1]
      BY <1>1, <2>1, <2>2, <2>3
    <3>3. ASSUME NEW n \in 1 .. Len(v)
          PROVE  /\ n < r => IsData(v[n], gs[1].key)
                 /\ n > r => IsData(v[n], last)
      <4>1. n + 1 \in 1 .. Len(w) /\ v[n] = w[n + 1]
        BY <1>1
      <4>2. /\ p < n + 1 /\ n + 1 < q => IsData(v[n], hs[2].key)
            /\ n + 1 > q => IsData(v[n], last)
        BY <2>1, <4>1
      <4>3. QED
        BY <2>2, <2>3, <4>2
    <3> HIDE DEF r
    <3>4. WithOne(v, gs, last)
      BY <2>2, <3>2, <3>3 DEF WithOne
    <3>5. QED
      BY <2>2, <3>1, <3>4 DEF Carries
  <2>4. CASE p # 1
    <3>1. IsData(head, hs[1].key)
      BY <1>1, <2>1, <2>4
    <3> DEFINE o == p - 1
    <3>2. o \in 1 .. Len(v) /\ r \in 1 .. Len(v) /\ o < r /\ v[o] = hs[1] /\ v[r] = hs[2]
      BY <1>1, <2>1, <2>4
    <3>3. ASSUME NEW n \in 1 .. Len(v)
          PROVE  /\ n < o => IsData(v[n], hs[1].key)
                 /\ o < n /\ n < r => IsData(v[n], hs[2].key)
                 /\ n > r => IsData(v[n], last)
      <4>1. n + 1 \in 1 .. Len(w) /\ v[n] = w[n + 1]
        BY <1>1
      <4>2. /\ n + 1 < p => IsData(v[n], hs[1].key)
            /\ p < n + 1 /\ n + 1 < q => IsData(v[n], hs[2].key)
            /\ n + 1 > q => IsData(v[n], last)
        BY <2>1, <4>1
      <4>3. QED
        BY <4>2
    <3> HIDE DEF o, r
    <3>4. WithTwo(v, hs, last)
      BY <2>2, <3>2, <3>3 DEF WithTwo
    <3>5. QED
      BY <2>2, <3>1, <3>4 DEF Carries
  <2>5. QED
    BY <2>3, <2>4
<1>7. QED
  BY <1>4, <1>5, <1>6 DEF Carries

-----------------------------------------------------------------------------
(* Sessions and records of these types, by their fields.                   *)
LEMMA ByFields ==
    ASSUME NEW s \in Session
    PROVE  s = Of(s.initiator, s.state, s.my_kex, s.his_kex, s.in_key, s.out_key,
                  s.pending_key, s.in_seq, s.out_seq, s.outbound)
BY DEF Session, Of

LEMMA OfIsSession ==
    ASSUME NEW i \in BOOLEAN, NEW st \in {"Kex", "SecondaryKex", "Sig", "Ack"},
           NEW mine \in Kexes, NEW his \in Kexes, NEW in \in Keys, NEW out \in Keys,
           NEW pending \in {NoKey} \union Materials, NEW nin \in Nat, NEW nout \in Nat,
           NEW ob \in Seq(Record)
    PROVE  Of(i, st, mine, his, in, out, pending, nin, nout, ob) \in Session
BY DEF Session, Of

(* What was queued is gone.                                                *)
LEMMA Draining ==
    ASSUME NEW i, NEW st, NEW mine, NEW his, NEW in, NEW out, NEW pending, NEW nin, NEW nout,
           NEW ob
    PROVE  Drained(Of(i, st, mine, his, in, out, pending, nin, nout, ob)) =
           Of(i, st, mine, his, in, out, pending, nin, nout, NoRecords)
BY DEF Of, Drained, NoRecords

(* The types of what is computed.                                          *)
LEMMA Counting ==
    ASSUME NEW key, NEW n \in Nat
    PROVE  Counted(key, n) \in Nat
BY DEF Counted

LEMMA Typed ==
    ASSUME MaxKex \in Nat
    PROVE
    /\ \A k \in Kexes : Kex(k) \in Payload
    /\ \A i \in BOOLEAN, m, h \in Kexes : Sig(i, m, h, "stream") \in Payload
    /\ Ack \in Payload /\ AppData \in Payload
    /\ \A key \in Keys, n \in Nat, p \in Payload : Under(key, n, p) \in Record
    /\ \A a, b \in Kexes, i \in BOOLEAN :
          <<a, b, "stream">> \in Materials /\ <<a, b, "stream">> # NoKey
    /\ \A m \in Materials, i \in BOOLEAN : SealedBy(i, m) \in Keys /\ SealedBy(i, m) # NoKey
    /\ NoKex \in Kexes /\ NoKey \in Keys /\ NoRecords \in Seq(Record)
<1>1. /\ \A k \in Kexes : Kex(k) \in Payload
      /\ \A i \in BOOLEAN, m, h \in Kexes : Sig(i, m, h, "stream") \in Payload
      /\ Ack \in Payload /\ AppData \in Payload
  BY DEF Payload, Kex, Sig, Ack, AppData
<1>2. \A key \in Keys, n \in Nat, p \in Payload : Under(key, n, p) \in Record
  BY DEF Under, Record
<1>4. \A a, b \in Kexes : <<a, b, "stream">> \in Materials /\ <<a, b, "stream">> # NoKey
  BY DEF Materials, NoKey
<1>5. \A m \in Materials, i \in BOOLEAN : SealedBy(i, m) \in Keys /\ SealedBy(i, m) # NoKey
  <2> SUFFICES ASSUME NEW a \in Kexes, NEW b \in Kexes, NEW i \in BOOLEAN
               PROVE  /\ SealedBy(i, <<a, b, "stream">>) \in Keys
                      /\ SealedBy(i, <<a, b, "stream">>) # NoKey
    BY DEF Materials
  <2>1. SealedBy(i, <<a, b, "stream">>) \in Keys
    BY <1>4 DEF Keys
  <2> DEFINE m == <<a, b, "stream">>
             S == {a, b, "stream", i}
  <2>2. m \in Seq(S) /\ i \in S
    OBVIOUS
  <2> HIDE DEF m, S
  <2>3. SealedBy(i, m) # NoKey
    BY <2>2, AppendProperties DEF SealedBy, NoKey
  <2>4. QED
    BY <2>1, <2>3 DEF m
<1>6. NoKex \in Kexes /\ NoKey \in Keys /\ NoRecords \in Seq(Record)
  <2>1. NoKex \in Kexes
    BY DEF NoKex, Kexes
  <2>2. NoKey \in Keys
    BY DEF Keys
  <2>3. NoRecords \in Seq(Record)
    BY EmptySeq DEF NoRecords
  <2>4. QED
    BY <2>1, <2>2, <2>3
<1>7. QED
  BY <1>1, <1>2, <1>4, <1>5, <1>6

-----------------------------------------------------------------------------
(* Sequences of records.                                                   *)
LEMMA OneTail ==
    ASSUME NEW a \in Record
    PROVE  Tail(<<a>>) = NoRecords /\ <<a>>[1] = a /\ Len(<<a>>) = 1
BY DEF NoRecords

LEMMA TwoTail ==
    ASSUME NEW a \in Record, NEW b \in Record
    PROVE  Tail(<<a, b>>) = <<b>> /\ <<a, b>>[1] = a /\ Len(<<a, b>>) = 2
<1> DEFINE t == Tail(<<a, b>>)
           u == <<b>>
<1>1. /\ t \in Seq(Record) /\ u \in Seq(Record) /\ Len(t) = 1 /\ Len(u) = 1 /\ t[1] = b
         /\ u[1] = b
      /\ <<a, b>>[1] = a /\ Len(<<a, b>>) = 2
  OBVIOUS
<1>2. \A n \in 1 .. Len(t) : t[n] = u[n]
  BY <1>1
<1> HIDE DEF t, u
<1>3. t = u
  BY <1>1, <1>2, SeqEqual
<1>4. QED
  BY <1>1, <1>3 DEF t, u

LEMMA EmptyJoins ==
    ASSUME NEW s \in Seq(Record)
    PROVE  NoRecords \o s = s /\ s \o NoRecords = s
BY ConcatEmptySeq DEF NoRecords

LEMMA OneJoins ==
    ASSUME NEW a \in Record, NEW b \in Record
    PROVE  <<a>> \o <<b>> = <<a, b>>
<1> DEFINE t == <<a>> \o <<b>>
           u == <<a, b>>
<1>1. /\ t \in Seq(Record) /\ u \in Seq(Record) /\ Len(t) = 2 /\ Len(u) = 2
      /\ t[1] = a /\ t[2] = b /\ u[1] = a /\ u[2] = b
  OBVIOUS
<1>2. \A n \in 1 .. Len(t) : t[n] = u[n]
  BY <1>1
<1> HIDE DEF t, u
<1>3. QED
  BY <1>1, <1>2, SeqEqual DEF t, u

LEMMA NoneYet == Len(NoRecords) = 0
BY DEF NoRecords

(* The fields of a session.                                                *)
LEMMA Fields ==
    ASSUME NEW i, NEW st, NEW mine, NEW his, NEW in, NEW out, NEW pending, NEW nin, NEW nout,
        NEW ob
    PROVE  LET s == Of(i, st, mine, his, in, out, pending, nin, nout, ob)
           IN  /\ s.initiator = i /\ s.label = "stream" /\ s.state = st
               /\ s.my_kex = mine /\ s.his_kex = his
               /\ s.in_key = in /\ s.out_key = out /\ s.pending_key = pending
               /\ s.in_seq = nin /\ s.out_seq = nout /\ s.outbound = ob
BY DEF Of

-----------------------------------------------------------------------------
(* What the initiator x and the responder y do with the handshake record   *)
(* that they read next.                                                    *)
Ends(x, y) ==
    /\ x \in Session /\ x.initiator = Yes /\ x.outbound = NoRecords
    /\ y \in Session /\ y.initiator = No /\ y.outbound = NoRecords

XGoesOn(x, y, toX, toY, r) ==
    /\ r.ok /\ r.s \in Session /\ r.s.initiator = Yes
    /\ Phase(Drained(r.s), y, Tail(toX), toY \o r.s.outbound)
    /\ Queues(x, r.s, toY)

YGoesOn(x, y, toX, toY, r) ==
    /\ r.ok /\ r.s \in Session /\ r.s.initiator = No
    /\ Phase(x, Drained(r.s), toX \o r.s.outbound, Tail(toY))
    /\ Queues(y, r.s, toX)

-----------------------------------------------------------------------------
(* The outcomes of an operation.                                           *)
LEMMA Outcomes ==
    ASSUME NEW t
    PROVE  Went(t).ok /\ Went(t).s = t /\ Completed(t).ok /\ Completed(t).s = t
BY DEF Went, Completed

(* What follows from the fields of the ends.                               *)
LEMMA EndFields ==
    ASSUME MaxKex \in Nat, NEW x, NEW y, Ends(x, y)
    PROVE  /\ x.label = "stream" /\ y.label = "stream"
           /\ x.my_kex \in Kexes /\ x.his_kex \in Kexes /\ y.my_kex \in Kexes
              /\ y.his_kex \in Kexes
           /\ x.in_key \in Keys /\ x.out_key \in Keys /\ y.in_key \in Keys /\ y.out_key \in Keys
           /\ x.in_seq \in Nat /\ x.out_seq \in Nat /\ y.in_seq \in Nat /\ y.out_seq \in Nat
           /\ x.pending_key \in {NoKey} \union Materials
              /\ y.pending_key \in {NoKey} \union Materials
BY DEF Ends, Session

(* In YBegan the initiator reads the KEX, it answers and signs: XSigned.   *)
LEMMA XReadsYBegan ==
    ASSUME MaxKex \in Nat, NEW x, NEW y, Ends(x, y), NEW toX, NEW toY,
           YBegan(x, y, toX, toY), NEW kex \in Kexes, kex # NoKex
    PROVE  XGoesOn(x, y, toX, toY, ReceiveDatagram(x, toX[1], kex))
<1> DEFINE in == x.in_key
           out == x.out_key
           nin == x.in_seq
           nout == x.out_seq
           k == y.my_kex
           a == Under(out, nout, Kex(kex))
           b == Under(out, nout, Sig(Yes, kex, k, "stream"))
           t == Of(Yes, "Sig", kex, k, in, out, NoKey, nin, nout, <<a, b>>)
           d == Of(Yes, "Sig", kex, k, in, out, NoKey, nin, nout, NoRecords)
<1>1. x = Of(Yes, "SecondaryKex", NoKex, NoKex, in, out, NoKey, nin, nout, NoRecords)
  BY ByFields DEF Ends, YBegan, Rests
<1>2. toX = <<Under(in, 0, Kex(k))>> /\ in # NoKey /\ out # NoKey /\ toY = NoRecords
  BY DEF YBegan, Rests, Keyed, KexOfEnd
<1>3. /\ in \in Keys /\ out \in Keys /\ nin \in Nat /\ nout \in Nat /\ k \in Kexes
      /\ Under(in, 0, Kex(k)) \in Record /\ a \in Record /\ b \in Record
      /\ <<a, b>> \in Seq(Record) /\ NoRecords \in Seq(Record)
  <2>1. in \in Keys /\ out \in Keys /\ nin \in Nat /\ nout \in Nat /\ k \in Kexes
    BY EndFields
  <2>2. Under(in, 0, Kex(k)) \in Record /\ a \in Record /\ b \in Record
    BY <2>1, Typed DEF Yes
  <2> HIDE DEF a, b
  <2>3. QED
    BY <2>1, <2>2, Typed, Few
<1>4. ReceiveDatagram(x, toX[1], kex) = Went(t)
  <2> HIDE DEF in, out, nin, nout, k
  <2>1. ReceiveDatagram(x, Under(in, 0, Kex(k)), kex) = Went(t)
    BY <1>1, <1>2, InitiatorRestingReads
  <2>2. toX[1] = Under(in, 0, Kex(k))
    BY <1>2, <1>3, OneTail
  <2>3. QED
    BY <2>1, <2>2
<1>5. /\ d.initiator = Yes /\ d.label = "stream" /\ d.state = "Sig" /\ d.my_kex = kex
         /\ d.his_kex = k
      /\ d.in_key = in /\ d.out_key = out /\ d.pending_key = NoKey
  BY Fields
<1>6. Drained(t) = d
  BY Draining
<1>7. t.outbound = <<a, b>> /\ t.initiator = Yes /\ t.out_key = out
  BY Fields
<1>8. t \in Session
  <2> HIDE DEF in, out, nin, nout, k, a, b
  <2>1. QED
    BY <1>3, OfIsSession, Typed DEF Yes
<1>9. a.key = out /\ b.key = out
  BY DEF Under
<1>10. /\ a = Under(out, 0, Kex(kex))
       /\ b = Under(out, 1, Sig(Yes, kex, k, "stream"))
  BY <1>2, UnderKey
<1> HIDE DEF t, d, a, b
<1>11. XSigned(d, y, NoRecords, <<a, b>>)
  BY <1>2, <1>5, <1>10 DEF YBegan, XSigned, Signs, Began, Counts, SameKeys, KexOfEnd, Keyed,
     Rests, NoKex
<1>12. Tail(toX) = NoRecords /\ toY \o <<a, b>> = <<a, b>>
  BY <1>2, <1>3, OneTail, EmptyJoins
<1>13. Queues(x, t, toY)
  BY <1>2, <1>3, <1>7, <1>9 DEF Queues
<1>14. QED
  BY <1>4, <1>6, <1>7, <1>8, <1>11, <1>12, <1>13, Outcomes DEF XGoesOn, Phase

(* In BothBegan the initiator reads the KEX, it signs: XSigned.            *)
LEMMA XReadsBothBegan ==
    ASSUME MaxKex \in Nat, NEW x, NEW y, Ends(x, y), NEW toX, NEW toY,
           BothBegan(x, y, toX, toY), NEW kex \in Kexes, kex # NoKex
    PROVE  XGoesOn(x, y, toX, toY, ReceiveDatagram(x, toX[1], kex))
<1> DEFINE in == x.in_key
           out == x.out_key
           nin == x.in_seq
           nout == x.out_seq
           mine == x.my_kex
           k == y.my_kex
           c == Counted(in, nin)
           f == Under(in, 0, Kex(k))
           g == Under(out, 0, Kex(mine))
           b == Under(out, nout, Sig(Yes, mine, k, "stream"))
           t == Of(Yes, "Sig", mine, k, in, out, NoKey, c, Counted(out, nout), <<b>>)
           d == Of(Yes, "Sig", mine, k, in, out, NoKey, c, Counted(out, nout), NoRecords)
<1>1. x = Of(Yes, "Kex", mine, NoKex, in, out, NoKey, nin, nout, NoRecords)
  BY ByFields DEF Ends, BothBegan, Rests, Began, Signs, Waits, Counts, SameKeys, Keyed,
     KexOfEnd, SigOfPeer, AckOfPeer, NoKex
<1>2. /\ toX = <<f>> /\ toY = <<g>>
      /\ in = y.out_key /\ out = y.in_key /\ (in = NoKey <=> out = NoKey)
      /\ (in = NoKey => nin = 0 /\ nout = 1)
  BY DEF BothBegan, Rests, Began, Signs, Waits, Counts, SameKeys, Keyed, KexOfEnd, SigOfPeer,
     AckOfPeer, NoKex
<1>3. /\ in \in Keys /\ out \in Keys /\ nin \in Nat /\ nout \in Nat /\ c \in Nat
         /\ Counted(out, nout) \in Nat
      /\ mine \in Kexes /\ k \in Kexes /\ f \in Record /\ g \in Record /\ b \in Record
      /\ <<b>> \in Seq(Record) /\ NoRecords \in Seq(Record)
  <2>1. in \in Keys /\ out \in Keys /\ nin \in Nat /\ nout \in Nat
    BY EndFields
  <2>2. mine \in Kexes /\ k \in Kexes
    BY EndFields
  <2>3. f \in Record /\ g \in Record /\ b \in Record
    BY <2>1, <2>2, <1>2, EndFields, Typed DEF Yes, No
  <2> HIDE DEF f, g, b
  <2>4. QED
    BY <2>1, <2>2, <2>3, <1>2, Typed, Counting, Few DEF Yes, No
<1>4. ReceiveDatagram(x, toX[1], kex) = Went(t)
  <2>1. toX[1] = Under(in, 0, Kex(k))
    BY <1>2, <1>3, OneTail, TwoTail
  <2> HIDE DEF in, out, nin, nout, mine, k
  <2>2. ReceiveDatagram(x, Under(in, 0, Kex(k)), kex) = Went(t)
    BY <1>1, <1>2, InitiatorBegunReads
  <2>3. QED
    BY <2>1, <2>2
<1>5. /\ d.initiator = Yes /\ d.label = "stream" /\ d.state = "Sig"
      /\ d.my_kex = mine /\ d.his_kex = k /\ d.in_key = in /\ d.out_key = out
      /\ d.pending_key = NoKey /\ d.in_seq = c /\ d.out_seq = Counted(out, nout)
      /\ t.initiator = Yes /\ t.out_key = out /\ t.outbound = <<b>>
  BY Fields
<1>6. Drained(t) = d
  BY Draining
<1>7. t \in Session
  <2> HIDE DEF in, out, nin, nout, mine, k, c, f, g, b
  <2>1. QED
    BY <1>3, OfIsSession, Typed DEF Yes
<1>8. b = Under(out, 1, Sig(Yes, mine, k, "stream")) /\ b.key = out
  BY <1>2, UnderKey DEF Under
<1>9. in = NoKey => c = 1 /\ Counted(out, nout) = 2
  BY <1>2 DEF Counted
<1>10. mine # NoKex /\ k # NoKex
  BY DEF BothBegan, Began
<1> HIDE DEF t, d, b
<1>11. XSigned(d, y, NoRecords, <<g, b>>)
  BY <1>2, <1>5, <1>8, <1>9, <1>10 DEF BothBegan, XSigned, Rests, Began, Signs, Waits, Counts,
     SameKeys, Keyed, KexOfEnd, SigOfPeer, AckOfPeer, NoKex
<1>12. Tail(toX) = NoRecords /\ toY \o t.outbound = <<g, b>>
  BY <1>2, <1>3, <1>5, OneTail, TwoTail, EmptyJoins, OneJoins
<1>13. Queues(x, t, toY)
  BY <1>2, <1>3, <1>5, <1>8, OneTail, NoneYet DEF Queues
<1> HIDE DEF in, out, nin, nout, mine, k, c, f, g
<1>14. Phase(Drained(t), y, Tail(toX), toY \o t.outbound)
  BY <1>6, <1>11, <1>12 DEF Phase
<1>15. QED
  BY <1>4, <1>5, <1>7, <1>13, <1>14, Outcomes DEF XGoesOn

(* In YSigns the initiator reads the KEX, it signs: BothSign.              *)
LEMMA XReadsYSigns ==
    ASSUME MaxKex \in Nat, NEW x, NEW y, Ends(x, y), NEW toX, NEW toY,
           YSigns(x, y, toX, toY), NEW kex \in Kexes, kex # NoKex
    PROVE  XGoesOn(x, y, toX, toY, ReceiveDatagram(x, toX[1], kex))
<1> DEFINE in == x.in_key
           out == x.out_key
           nin == x.in_seq
           nout == x.out_seq
           mine == x.my_kex
           k == y.my_kex
           c == Counted(in, nin)
           f == Under(in, 0, Kex(k))
           b == Under(out, nout, Sig(Yes, mine, k, "stream"))
           t == Of(Yes, "Sig", mine, k, in, out, NoKey, c, Counted(out, nout), <<b>>)
           d == Of(Yes, "Sig", mine, k, in, out, NoKey, c, Counted(out, nout), NoRecords)
<1>1. x = Of(Yes, "Kex", mine, NoKex, in, out, NoKey, nin, nout, NoRecords)
  BY ByFields DEF Ends, YSigns, Rests, Began, Signs, Waits, Counts, SameKeys, Keyed, KexOfEnd,
     SigOfPeer, AckOfPeer, NoKex
<1>2. /\ toX = <<f>> /\ toY = NoRecords
      /\ in = y.out_key /\ out = y.in_key /\ (in = NoKey <=> out = NoKey)
      /\ (in = NoKey => nin = 0 /\ nout = 1)
  BY DEF YSigns, Rests, Began, Signs, Waits, Counts, SameKeys, Keyed, KexOfEnd, SigOfPeer,
     AckOfPeer, NoKex
<1>3. /\ in \in Keys /\ out \in Keys /\ nin \in Nat /\ nout \in Nat /\ c \in Nat
         /\ Counted(out, nout) \in Nat
      /\ mine \in Kexes /\ k \in Kexes /\ f \in Record /\ b \in Record
      /\ <<b>> \in Seq(Record) /\ NoRecords \in Seq(Record)
  <2>1. in \in Keys /\ out \in Keys /\ nin \in Nat /\ nout \in Nat
    BY EndFields
  <2>2. mine \in Kexes /\ k \in Kexes
    BY EndFields
  <2>3. f \in Record /\ b \in Record
    BY <2>1, <2>2, <1>2, EndFields, Typed DEF Yes, No
  <2> HIDE DEF f, b
  <2>4. QED
    BY <2>1, <2>2, <2>3, <1>2, Typed, Counting, Few DEF Yes, No
<1>4. ReceiveDatagram(x, toX[1], kex) = Went(t)
  <2>1. toX[1] = Under(in, 0, Kex(k))
    BY <1>2, <1>3, OneTail, TwoTail
  <2> HIDE DEF in, out, nin, nout, mine, k
  <2>2. ReceiveDatagram(x, Under(in, 0, Kex(k)), kex) = Went(t)
    BY <1>1, <1>2, InitiatorBegunReads
  <2>3. QED
    BY <2>1, <2>2
<1>5. /\ d.initiator = Yes /\ d.label = "stream" /\ d.state = "Sig"
      /\ d.my_kex = mine /\ d.his_kex = k /\ d.in_key = in /\ d.out_key = out
      /\ d.pending_key = NoKey /\ d.in_seq = c /\ d.out_seq = Counted(out, nout)
      /\ t.initiator = Yes /\ t.out_key = out /\ t.outbound = <<b>>
  BY Fields
<1>6. Drained(t) = d
  BY Draining
<1>7. t \in Session
  <2> HIDE DEF in, out, nin, nout, mine, k, c, f, b
  <2>1. QED
    BY <1>3, OfIsSession, Typed DEF Yes
<1>8. b = Under(out, 1, Sig(Yes, mine, k, "stream")) /\ b.key = out
  BY <1>2, UnderKey DEF Under
<1>9. in = NoKey => c = 1 /\ Counted(out, nout) = 2
  BY <1>2 DEF Counted
<1>10. SigOfPeer(y) = b
  BY <1>2, <1>8, EndFields, Responders DEF SigOfPeer, YSigns, Ends
<1> HIDE DEF t, d, b
<1>11. BothSign(d, y, NoRecords, <<b>>)
  BY <1>2, <1>5, <1>8, <1>9, <1>10 DEF YSigns, BothSign, Rests, Began, Signs, Waits, Counts,
     SameKeys, Keyed, KexOfEnd, AckOfPeer, NoKex
<1>12. Tail(toX) = NoRecords /\ toY \o t.outbound = <<b>>
  BY <1>2, <1>3, <1>5, OneTail, TwoTail, EmptyJoins, OneJoins
<1>13. Queues(x, t, toY)
  BY <1>2, <1>3, <1>5, <1>8, OneTail, NoneYet DEF Queues
<1> HIDE DEF in, out, nin, nout, mine, k, c, f
<1>14. Phase(Drained(t), y, Tail(toX), toY \o t.outbound)
  BY <1>6, <1>11, <1>12 DEF Phase
<1>15. QED
  BY <1>4, <1>5, <1>7, <1>13, <1>14, Outcomes DEF XGoesOn

(* In YDone the initiator reads the SIG of a later exchange, it sends its  *)
(* ACK: BothDone.                                                          *)
LEMMA XReadsYDone ==
    ASSUME MaxKex \in Nat, NEW x, NEW y, Ends(x, y), NEW toX, NEW toY,
           YDone(x, y, toX, toY), NEW kex \in Kexes, kex # NoKex
    PROVE  XGoesOn(x, y, toX, toY, ReceiveDatagram(x, toX[1], kex))
<1> DEFINE in == x.in_key
           out == x.out_key
           nin == x.in_seq
           nout == x.out_seq
           mine == x.my_kex
           his == x.his_kex
           m == <<mine, his, "stream">>
           f == Under(in, 1, Sig(No, his, mine, "stream"))
           g == Under(in, 0, Ack)
           b == Under(out, nout, Ack)
           t == Of(Yes, "Ack", NoKex, NoKex, in, SealedBy(Yes, m), m, nin, nout, <<b>>)
           d == Of(Yes, "Ack", NoKex, NoKex, in, SealedBy(Yes, m), m, nin, nout, NoRecords)
<1>1. x = Of(Yes, "Sig", mine, his, in, out, NoKey, nin, nout, NoRecords)
  BY ByFields DEF Ends, YDone, Rests, Began, Signs, Waits, Counts, SameKeys, Keyed, KexOfEnd,
     SigOfPeer, AckOfPeer, NoKex
<1>2. /\ toX = <<f, g>> /\ toY = NoRecords /\ in # NoKey /\ out # NoKey
      /\ y.pending_key = m /\ out = y.in_key
  BY EndFields, Initiators DEF YDone, Ends, Rests, Began, Signs, Waits, Counts, SameKeys,
     Keyed, KexOfEnd, SigOfPeer, AckOfPeer, NoKex
<1>3. /\ in \in Keys /\ out \in Keys /\ nin \in Nat /\ nout \in Nat
      /\ mine \in Kexes /\ his \in Kexes /\ m \in Materials /\ m # NoKey
      /\ SealedBy(Yes, m) \in Keys /\ SealedBy(Yes, m) # NoKey
      /\ f \in Record /\ g \in Record /\ b \in Record /\ <<b>> \in Seq(Record)
         /\ NoRecords \in Seq(Record)
  <2>1. in \in Keys /\ out \in Keys /\ nin \in Nat /\ nout \in Nat
    BY EndFields
  <2>2. mine \in Kexes /\ his \in Kexes
    BY EndFields
  <2>3. f \in Record /\ g \in Record /\ b \in Record
    BY <2>1, <2>2, <1>2, EndFields, Typed DEF Yes, No
  <2> HIDE DEF f, g, b
  <2>4. QED
    BY <2>1, <2>2, <2>3, <1>2, Typed, Counting, Few DEF Yes, No
<1>4. ReceiveDatagram(x, toX[1], kex) = Went(t)
  <2>1. toX[1] = Under(in, 1, Sig(No, his, mine, "stream"))
    BY <1>2, <1>3, OneTail, TwoTail
  <2> HIDE DEF in, out, nin, nout, mine, his
  <2>2. ReceiveDatagram(x, Under(in, 1, Sig(No, his, mine, "stream")), kex) = Went(t)
    BY <1>1, <1>2, InitiatorLaterReads DEF Counted
  <2>3. QED
    BY <2>1, <2>2
<1>5. /\ d.initiator = Yes /\ d.label = "stream" /\ d.state = "Ack"
      /\ d.my_kex = NoKex /\ d.his_kex = NoKex /\ d.in_key = in /\ d.out_key = SealedBy(Yes, m)
      /\ d.pending_key = m /\ d.in_seq = nin /\ d.out_seq = nout
      /\ t.initiator = Yes /\ t.out_key = SealedBy(Yes, m) /\ t.outbound = <<b>>
  BY Fields
<1>6. Drained(t) = d
  BY Draining
<1>7. t \in Session
  <2> HIDE DEF in, out, nin, nout, mine, his, m, f, g, b
  <2>1. QED
    BY <1>3, OfIsSession, Typed DEF Yes
<1>8. b = Under(out, 0, Ack) /\ b.key = out
  BY <1>2, UnderKey DEF Under
<1>9. OutKey(d, m) = SealedBy(Yes, m) /\ SigOfPeer(x) = f
  BY <1>5, EndFields, Initiators DEF SigOfPeer, Ends
<1> HIDE DEF t, d, b
<1>10. BothDone(d, y, <<g>>, <<b>>)
  BY <1>2, <1>5, <1>8, <1>9, <1>3 DEF YDone, BothDone, Rests, Began, Signs, Waits, Counts,
     SameKeys, Keyed, KexOfEnd, AckOfPeer, NoKex
<1>11. Tail(toX) = <<g>> /\ toY \o t.outbound = <<b>>
  BY <1>2, <1>3, <1>5, OneTail, TwoTail, EmptyJoins, OneJoins
<1>12. Queues(x, t, toY)
  BY <1>2, <1>3, <1>5, <1>8, OneTail, NoneYet DEF Queues
<1> HIDE DEF in, out, nin, nout, mine, his, m, f, g
<1>13. Phase(Drained(t), y, Tail(toX), toY \o t.outbound)
  BY <1>6, <1>10, <1>11 DEF Phase
<1>14. QED
  BY <1>4, <1>5, <1>7, <1>12, <1>13, Outcomes DEF XGoesOn

(* In BothDone the initiator reads the ACK: YWaits.                        *)
LEMMA XReadsBothDone ==
    ASSUME MaxKex \in Nat, NEW x, NEW y, Ends(x, y), NEW toX, NEW toY,
           BothDone(x, y, toX, toY), NEW kex \in Kexes, kex # NoKex
    PROVE  XGoesOn(x, y, toX, toY, ReceiveDatagram(x, toX[1], kex))
<1> DEFINE in == x.in_key
           out == x.out_key
           nin == x.in_seq
           nout == x.out_seq
           m == x.pending_key
           theirs == SealedBy(No, m)
           f == Under(in, 0, Ack)
           g == Under(y.in_key, 0, Ack)
           t == Of(Yes, "SecondaryKex", NoKex, NoKex, theirs, out, NoKey, nin, nout, NoRecords)
<1>1. x = Of(Yes, "Ack", NoKex, NoKex, in, out, m, nin, nout, NoRecords)
  BY ByFields DEF Ends, BothDone, Waits, Keyed, AckOfPeer
<1>2. /\ toX = <<f>> /\ toY = <<g>> /\ in # NoKey /\ out # NoKey /\ m # NoKey
      /\ m \in Materials /\ y.pending_key = m /\ out = SealedBy(Yes, m) /\ y.out_key = theirs
      /\ InKey(x, m) = theirs /\ OutKey(y, m) = theirs /\ InKey(y, m) = out
  BY EndFields, Initiators, Responders DEF BothDone, Ends, Waits, Keyed, AckOfPeer
<1>3. /\ in \in Keys /\ out \in Keys /\ nin \in Nat /\ nout \in Nat
      /\ theirs \in Keys /\ theirs # NoKey
      /\ f \in Record /\ g \in Record /\ NoRecords \in Seq(Record) /\ <<g>> \in Seq(Record)
  <2>1. in \in Keys /\ out \in Keys /\ nin \in Nat /\ nout \in Nat
    BY EndFields
  <2>2. f \in Record /\ g \in Record
    BY <2>1, <1>2, EndFields, Typed DEF Yes, No
  <2> HIDE DEF f, g
  <2>3. QED
    BY <2>1, <2>2, <1>2, Typed, Counting, Few DEF Yes, No
<1>4. ReceiveDatagram(x, toX[1], kex) = Completed(t)
  <2>1. toX[1] = Under(in, 0, Ack)
    BY <1>2, <1>3, OneTail, TwoTail
  <2>2. InKey(Of(Yes, "Ack", NoKex, NoKex, in, out, m, nin, nout, NoRecords), m) = theirs
    BY <1>1, <1>2
  <2> HIDE DEF in, out, nin, nout, m, theirs
  <2>3. ReceiveDatagram(x, Under(in, 0, Ack), kex) = Completed(t)
    BY <1>1, <1>2, <2>2, WaitingReads
  <2>4. QED
    BY <2>1, <2>3
<1>5. /\ t.initiator = Yes /\ t.label = "stream" /\ t.state = "SecondaryKex"
      /\ t.my_kex = NoKex /\ t.his_kex = NoKex /\ t.in_key = theirs /\ t.out_key = out
      /\ t.pending_key = NoKey /\ t.in_seq = nin /\ t.out_seq = nout
      /\ t.outbound = NoRecords
  BY Fields
<1>6. Drained(t) = t
  BY Draining
<1>7. t \in Session
  <2> HIDE DEF in, out, nin, nout, m, theirs, f, g
  <2>1. QED
    BY <1>3, OfIsSession, Typed DEF Yes
<1> HIDE DEF t
<1>8. YWaits(t, y, NoRecords, <<g>>)
  BY <1>2, <1>5, <1>3 DEF BothDone, YWaits, Ends, Rests, Began, Signs, Waits, Counts, SameKeys,
     Keyed, KexOfEnd, SigOfPeer, AckOfPeer, NoKex
<1>9. Tail(toX) = NoRecords /\ toY \o t.outbound = <<g>>
  BY <1>2, <1>3, <1>5, OneTail, TwoTail, EmptyJoins, OneJoins
<1>10. Queues(x, t, toY)
  BY <1>2, <1>3, <1>5, OneTail, NoneYet DEF Queues
<1> HIDE DEF in, out, nin, nout, m, theirs, f, g
<1>11. Phase(Drained(t), y, Tail(toX), toY \o t.outbound)
  BY <1>6, <1>8, <1>9 DEF Phase
<1>12. QED
  BY <1>4, <1>5, <1>7, <1>10, <1>11, Outcomes DEF XGoesOn

(* In XWaits the initiator reads the ACK: AtRest.                          *)
LEMMA XReadsXWaits ==
    ASSUME MaxKex \in Nat, NEW x, NEW y, Ends(x, y), NEW toX, NEW toY,
           XWaits(x, y, toX, toY), Rests(y), NEW kex \in Kexes, kex # NoKex
    PROVE  XGoesOn(x, y, toX, toY, ReceiveDatagram(x, toX[1], kex))
<1> DEFINE in == x.in_key
           out == x.out_key
           nin == x.in_seq
           nout == x.out_seq
           m == x.pending_key
           theirs == SealedBy(No, m)
           f == Under(in, 0, Ack)
           t == Of(Yes, "SecondaryKex", NoKex, NoKex, theirs, out, NoKey, nin, nout, NoRecords)
<1>1. x = Of(Yes, "Ack", NoKex, NoKex, in, out, m, nin, nout, NoRecords)
  BY ByFields DEF Ends, XWaits, Waits, Rests, Began, Keyed, AckOfPeer, KexOfEnd
<1>2. /\ toX = <<f>> /\ toY = NoRecords /\ in # NoKey /\ out # NoKey /\ m # NoKey
      /\ m \in Materials /\ out = SealedBy(Yes, m) /\ InKey(x, m) = theirs
      /\ y.in_key = out /\ y.out_key = theirs
  BY EndFields, Initiators, Responders DEF XWaits, Ends, Waits, Rests, Began, Keyed, AckOfPeer,
     KexOfEnd
<1>3. /\ in \in Keys /\ out \in Keys /\ nin \in Nat /\ nout \in Nat
      /\ theirs \in Keys /\ theirs # NoKey
      /\ f \in Record /\ NoRecords \in Seq(Record)
  <2>1. in \in Keys /\ out \in Keys /\ nin \in Nat /\ nout \in Nat
    BY EndFields
  <2>2. f \in Record
    BY <2>1, <1>2, EndFields, Typed DEF Yes, No
  <2> HIDE DEF f
  <2>3. QED
    BY <2>1, <2>2, <1>2, Typed, Counting, Few DEF Yes, No
<1>4. ReceiveDatagram(x, toX[1], kex) = Completed(t)
  <2>1. toX[1] = Under(in, 0, Ack)
    BY <1>2, <1>3, OneTail, TwoTail
  <2>2. InKey(Of(Yes, "Ack", NoKex, NoKex, in, out, m, nin, nout, NoRecords), m) = theirs
    BY <1>1, <1>2
  <2> HIDE DEF in, out, nin, nout, m, theirs
  <2>3. ReceiveDatagram(x, Under(in, 0, Ack), kex) = Completed(t)
    BY <1>1, <1>2, <2>2, WaitingReads
  <2>4. QED
    BY <2>1, <2>3
<1>5. /\ t.initiator = Yes /\ t.label = "stream" /\ t.state = "SecondaryKex"
      /\ t.my_kex = NoKex /\ t.his_kex = NoKex /\ t.in_key = theirs /\ t.out_key = out
      /\ t.pending_key = NoKey /\ t.in_seq = nin /\ t.out_seq = nout
      /\ t.outbound = NoRecords
  BY Fields
<1>6. Drained(t) = t
  BY Draining
<1>7. t \in Session
  <2> HIDE DEF in, out, nin, nout, m, theirs, f
  <2>1. QED
    BY <1>3, OfIsSession, Typed DEF Yes
<1> HIDE DEF t
<1>8. AtRest(t, y, NoRecords, NoRecords)
  BY <1>2, <1>5, <1>3 DEF XWaits, AtRest, Ends, Rests, Began, Signs, Waits, Counts, SameKeys,
     Keyed, KexOfEnd, SigOfPeer, AckOfPeer, NoKex
<1>9. Tail(toX) = NoRecords /\ toY \o t.outbound = NoRecords
  BY <1>2, <1>3, <1>5, OneTail, TwoTail, EmptyJoins, OneJoins
<1>10. Queues(x, t, toY)
  BY <1>2, <1>3, <1>5, OneTail, NoneYet DEF Queues
<1> HIDE DEF in, out, nin, nout, m, theirs, f
<1>11. Phase(Drained(t), y, Tail(toX), toY \o t.outbound)
  BY <1>6, <1>8, <1>9 DEF Phase
<1>12. QED
  BY <1>4, <1>5, <1>7, <1>10, <1>11, Outcomes DEF XGoesOn

(* In XWaits the initiator reads the ACK, and the next exchange has begun: *)
(* YBegan.                                                                 *)
LEMMA XReadsXWaitsFurther ==
    ASSUME MaxKex \in Nat, NEW x, NEW y, Ends(x, y), NEW toX, NEW toY,
           XWaits(x, y, toX, toY), Began(y), NEW kex \in Kexes, kex # NoKex
    PROVE  XGoesOn(x, y, toX, toY, ReceiveDatagram(x, toX[1], kex))
<1> DEFINE in == x.in_key
           out == x.out_key
           nin == x.in_seq
           nout == x.out_seq
           m == x.pending_key
           theirs == SealedBy(No, m)
           f == Under(in, 0, Ack)
           k == y.my_kex
           g == Under(theirs, 0, Kex(k))
           t == Of(Yes, "SecondaryKex", NoKex, NoKex, theirs, out, NoKey, nin, nout, NoRecords)
<1>1. x = Of(Yes, "Ack", NoKex, NoKex, in, out, m, nin, nout, NoRecords)
  BY ByFields DEF Ends, XWaits, Waits, Rests, Began, Keyed, AckOfPeer, KexOfEnd
<1>2. /\ toX = <<f, g>> /\ toY = NoRecords /\ in # NoKey /\ out # NoKey /\ m # NoKey
      /\ m \in Materials /\ out = SealedBy(Yes, m) /\ InKey(x, m) = theirs
      /\ y.in_key = out /\ y.out_key = theirs
  BY EndFields, Initiators, Responders DEF XWaits, Ends, Waits, Rests, Began, Keyed, AckOfPeer,
     KexOfEnd
<1>3. /\ in \in Keys /\ out \in Keys /\ nin \in Nat /\ nout \in Nat
      /\ theirs \in Keys /\ theirs # NoKey /\ k \in Kexes
      /\ f \in Record /\ g \in Record /\ NoRecords \in Seq(Record)
  <2>1. in \in Keys /\ out \in Keys /\ nin \in Nat /\ nout \in Nat
    BY EndFields
  <2>2. k \in Kexes
    BY EndFields
  <2>3. f \in Record /\ g \in Record
    BY <2>1, <2>2, <1>2, EndFields, Typed DEF Yes, No
  <2> HIDE DEF f, g
  <2>4. QED
    BY <2>1, <2>2, <2>3, <1>2, Typed, Counting, Few DEF Yes, No
<1>4. ReceiveDatagram(x, toX[1], kex) = Completed(t)
  <2>1. toX[1] = Under(in, 0, Ack)
    BY <1>2, <1>3, OneTail, TwoTail
  <2>2. InKey(Of(Yes, "Ack", NoKex, NoKex, in, out, m, nin, nout, NoRecords), m) = theirs
    BY <1>1, <1>2
  <2> HIDE DEF in, out, nin, nout, m, theirs
  <2>3. ReceiveDatagram(x, Under(in, 0, Ack), kex) = Completed(t)
    BY <1>1, <1>2, <2>2, WaitingReads
  <2>4. QED
    BY <2>1, <2>3
<1>5. /\ t.initiator = Yes /\ t.label = "stream" /\ t.state = "SecondaryKex"
      /\ t.my_kex = NoKex /\ t.his_kex = NoKex /\ t.in_key = theirs /\ t.out_key = out
      /\ t.pending_key = NoKey /\ t.in_seq = nin /\ t.out_seq = nout
      /\ t.outbound = NoRecords
  BY Fields
<1>6. Drained(t) = t
  BY Draining
<1>7. t \in Session
  <2> HIDE DEF in, out, nin, nout, m, theirs, f, k, g
  <2>1. QED
    BY <1>3, OfIsSession, Typed DEF Yes
<1> HIDE DEF t
<1>8. YBegan(t, y, <<g>>, NoRecords)
  BY <1>2, <1>5, <1>3 DEF XWaits, YBegan, Ends, Rests, Began, Signs, Waits, Counts, SameKeys,
     Keyed, KexOfEnd, SigOfPeer, AckOfPeer, NoKex
<1>9. Tail(toX) = <<g>> /\ toY \o t.outbound = NoRecords
  BY <1>2, <1>3, <1>5, OneTail, TwoTail, EmptyJoins, OneJoins
<1>10. Queues(x, t, toY)
  BY <1>2, <1>3, <1>5, OneTail, NoneYet DEF Queues
<1> HIDE DEF in, out, nin, nout, m, theirs, f, k, g
<1>11. Phase(Drained(t), y, Tail(toX), toY \o t.outbound)
  BY <1>6, <1>8, <1>9 DEF Phase
<1>12. QED
  BY <1>4, <1>5, <1>7, <1>10, <1>11, Outcomes DEF XGoesOn

(* In YFirst the initiator reads the SIG of the first exchange: AtRest.    *)
LEMMA XReadsYFirst ==
    ASSUME MaxKex \in Nat, NEW x, NEW y, Ends(x, y), NEW toX, NEW toY,
           YFirst(x, y, toX, toY), Rests(y), NEW kex \in Kexes, kex # NoKex
    PROVE  XGoesOn(x, y, toX, toY, ReceiveDatagram(x, toX[1], kex))
<1> DEFINE in == x.in_key
           out == x.out_key
           nin == x.in_seq
           nout == x.out_seq
           mine == x.my_kex
           his == x.his_kex
           m == <<mine, his, "stream">>
           ours == SealedBy(Yes, m)
           theirs == SealedBy(No, m)
           c == Counted(in, nin)
           f == Under(in, 1, Sig(No, his, mine, "stream"))
           t == Of(Yes, "SecondaryKex", NoKex, NoKex, theirs, ours, NoKey, c, nout, NoRecords)
<1>1. x = Of(Yes, "Sig", mine, his, in, out, NoKey, nin, nout, NoRecords)
  BY ByFields DEF Ends, YFirst, Rests, Began, Signs, Waits, Counts, SameKeys, Keyed, KexOfEnd,
     SigOfPeer, AckOfPeer, NoKex
<1>2. /\ toX = <<f>> /\ toY = NoRecords /\ in = NoKey /\ out = NoKey /\ nin = 1
      /\ y.in_key = ours /\ y.out_key = theirs
  BY EndFields, Initiators DEF YFirst, Ends, Rests, Began, Signs, Waits, Counts, SameKeys,
     Keyed, KexOfEnd, SigOfPeer, AckOfPeer, NoKex
<1>3. /\ in \in Keys /\ out \in Keys /\ nin \in Nat /\ nout \in Nat /\ c \in Nat
      /\ mine \in Kexes /\ his \in Kexes /\ m \in Materials /\ m # NoKey
      /\ ours \in Keys /\ ours # NoKey /\ theirs \in Keys /\ theirs # NoKey
      /\ f \in Record /\ NoRecords \in Seq(Record)
  <2>1. in \in Keys /\ out \in Keys /\ nin \in Nat /\ nout \in Nat
    BY EndFields
  <2>2. mine \in Kexes /\ his \in Kexes
    BY EndFields
  <2>3. f \in Record
    BY <2>1, <2>2, <1>2, EndFields, Typed DEF Yes, No
  <2> HIDE DEF f
  <2>4. QED
    BY <2>1, <2>2, <2>3, <1>2, Typed, Counting, Few DEF Yes, No
<1>4. ReceiveDatagram(x, toX[1], kex) = Completed(t)
  <2>1. toX[1] = Under(in, 1, Sig(No, his, mine, "stream"))
    BY <1>2, <1>3, OneTail, TwoTail
  <2> HIDE DEF in, out, nin, nout, mine, his
  <2>2. ReceiveDatagram(x, Under(in, 1, Sig(No, his, mine, "stream")), kex) = Completed(t)
    BY <1>1, <1>2, InitiatorFirstReads
  <2>3. QED
    BY <2>1, <2>2
<1>5. /\ t.initiator = Yes /\ t.label = "stream" /\ t.state = "SecondaryKex"
      /\ t.my_kex = NoKex /\ t.his_kex = NoKex /\ t.in_key = theirs /\ t.out_key = ours
      /\ t.pending_key = NoKey /\ t.in_seq = c /\ t.out_seq = nout
      /\ t.outbound = NoRecords
  BY Fields
<1>6. Drained(t) = t
  BY Draining
<1>7. t \in Session
  <2> HIDE DEF in, out, nin, nout, mine, his, m, ours, theirs, c, f
  <2>1. QED
    BY <1>3, OfIsSession, Typed DEF Yes
<1> HIDE DEF t
<1>8. AtRest(t, y, NoRecords, NoRecords)
  BY <1>2, <1>5, <1>3 DEF YFirst, AtRest, Rests, Began, Signs, Waits, Counts, SameKeys, Keyed,
     KexOfEnd, SigOfPeer, AckOfPeer, NoKex
<1>9. Tail(toX) = NoRecords /\ toY \o t.outbound = NoRecords
  BY <1>2, <1>3, <1>5, OneTail, TwoTail, EmptyJoins, OneJoins
<1>10. Queues(x, t, toY)
  BY <1>2, <1>3, <1>5, OneTail, NoneYet DEF Queues
<1> HIDE DEF in, out, nin, nout, mine, his, m, ours, theirs, c, f
<1>11. Phase(Drained(t), y, Tail(toX), toY \o t.outbound)
  BY <1>6, <1>8, <1>9 DEF Phase
<1>12. QED
  BY <1>4, <1>5, <1>7, <1>10, <1>11, Outcomes DEF XGoesOn

(* In YFirst the initiator reads the SIG of the first exchange, and the    *)
(* next has begun: YBegan.                                                 *)
LEMMA XReadsYFirstFurther ==
    ASSUME MaxKex \in Nat, NEW x, NEW y, Ends(x, y), NEW toX, NEW toY,
           YFirst(x, y, toX, toY), Began(y), NEW kex \in Kexes, kex # NoKex
    PROVE  XGoesOn(x, y, toX, toY, ReceiveDatagram(x, toX[1], kex))
<1> DEFINE in == x.in_key
           out == x.out_key
           nin == x.in_seq
           nout == x.out_seq
           mine == x.my_kex
           his == x.his_kex
           m == <<mine, his, "stream">>
           ours == SealedBy(Yes, m)
           theirs == SealedBy(No, m)
           c == Counted(in, nin)
           f == Under(in, 1, Sig(No, his, mine, "stream"))
           k == y.my_kex
           g == Under(theirs, 0, Kex(k))
           t == Of(Yes, "SecondaryKex", NoKex, NoKex, theirs, ours, NoKey, c, nout, NoRecords)
<1>1. x = Of(Yes, "Sig", mine, his, in, out, NoKey, nin, nout, NoRecords)
  BY ByFields DEF Ends, YFirst, Rests, Began, Signs, Waits, Counts, SameKeys, Keyed, KexOfEnd,
     SigOfPeer, AckOfPeer, NoKex
<1>2. /\ toX = <<f, g>> /\ toY = NoRecords /\ in = NoKey /\ out = NoKey /\ nin = 1
      /\ y.in_key = ours /\ y.out_key = theirs
  BY EndFields, Initiators DEF YFirst, Ends, Rests, Began, Signs, Waits, Counts, SameKeys,
     Keyed, KexOfEnd, SigOfPeer, AckOfPeer, NoKex
<1>3. /\ in \in Keys /\ out \in Keys /\ nin \in Nat /\ nout \in Nat /\ c \in Nat
      /\ mine \in Kexes /\ his \in Kexes /\ k \in Kexes /\ m \in Materials /\ m # NoKey
      /\ ours \in Keys /\ ours # NoKey /\ theirs \in Keys /\ theirs # NoKey
      /\ f \in Record /\ g \in Record /\ NoRecords \in Seq(Record)
  <2>1. in \in Keys /\ out \in Keys /\ nin \in Nat /\ nout \in Nat
    BY EndFields
  <2>2. mine \in Kexes /\ his \in Kexes /\ k \in Kexes
    BY EndFields
  <2>3. f \in Record /\ g \in Record
    BY <2>1, <2>2, <1>2, EndFields, Typed DEF Yes, No
  <2> HIDE DEF f, g
  <2>4. QED
    BY <2>1, <2>2, <2>3, <1>2, Typed, Counting, Few DEF Yes, No
<1>4. ReceiveDatagram(x, toX[1], kex) = Completed(t)
  <2>1. toX[1] = Under(in, 1, Sig(No, his, mine, "stream"))
    BY <1>2, <1>3, OneTail, TwoTail
  <2> HIDE DEF in, out, nin, nout, mine, his, k
  <2>2. ReceiveDatagram(x, Under(in, 1, Sig(No, his, mine, "stream")), kex) = Completed(t)
    BY <1>1, <1>2, InitiatorFirstReads
  <2>3. QED
    BY <2>1, <2>2
<1>5. /\ t.initiator = Yes /\ t.label = "stream" /\ t.state = "SecondaryKex"
      /\ t.my_kex = NoKex /\ t.his_kex = NoKex /\ t.in_key = theirs /\ t.out_key = ours
      /\ t.pending_key = NoKey /\ t.in_seq = c /\ t.out_seq = nout
      /\ t.outbound = NoRecords
  BY Fields
<1>6. Drained(t) = t
  BY Draining
<1>7. t \in Session
  <2> HIDE DEF in, out, nin, nout, mine, his, m, ours, theirs, c, f, k, g
  <2>1. QED
    BY <1>3, OfIsSession, Typed DEF Yes
<1> HIDE DEF t
<1>8. YBegan(t, y, <<g>>, NoRecords)
  BY <1>2, <1>5, <1>3 DEF YFirst, YBegan, Rests, Began, Signs, Waits, Counts, SameKeys, Keyed,
     KexOfEnd, SigOfPeer, AckOfPeer, NoKex
<1>9. Tail(toX) = <<g>> /\ toY \o t.outbound = NoRecords
  BY <1>2, <1>3, <1>5, OneTail, TwoTail, EmptyJoins, OneJoins
<1>10. Queues(x, t, toY)
  BY <1>2, <1>3, <1>5, OneTail, NoneYet DEF Queues
<1> HIDE DEF in, out, nin, nout, mine, his, m, ours, theirs, c, f, k, g
<1>11. Phase(Drained(t), y, Tail(toX), toY \o t.outbound)
  BY <1>6, <1>8, <1>9 DEF Phase
<1>12. QED
  BY <1>4, <1>5, <1>7, <1>10, <1>11, Outcomes DEF XGoesOn

(* In XBegan the responder reads the KEX, it answers: YSigns.              *)
LEMMA YReadsXBegan ==
    ASSUME MaxKex \in Nat, NEW x, NEW y, Ends(x, y), NEW toX, NEW toY,
           XBegan(x, y, toX, toY), NEW kex \in Kexes, kex # NoKex
    PROVE  YGoesOn(x, y, toX, toY, ReceiveDatagram(y, toY[1], kex))
<1> DEFINE in == y.in_key
           out == y.out_key
           nin == y.in_seq
           nout == y.out_seq
           k == x.my_kex
           f == Under(in, 0, Kex(k))
           b == Under(out, nout, Kex(kex))
           t == Of(No, "Sig", kex, k, in, out, NoKey, nin, nout, <<b>>)
           d == Of(No, "Sig", kex, k, in, out, NoKey, nin, nout, NoRecords)
<1>1. y = Of(No, "SecondaryKex", NoKex, NoKex, in, out, NoKey, nin, nout, NoRecords)
  BY ByFields DEF Ends, XBegan, Rests, Began, Signs, Waits, Counts, SameKeys, Keyed, KexOfEnd,
     SigOfPeer, AckOfPeer, NoKex
<1>2. /\ toY = <<f>> /\ toX = NoRecords /\ in # NoKey /\ out # NoKey
      /\ x.in_key = out /\ x.out_key = in
  BY DEF XBegan, Ends, Rests, Began, Signs, Waits, Counts, SameKeys, Keyed, KexOfEnd,
     SigOfPeer, AckOfPeer, NoKex
<1>3. /\ in \in Keys /\ out \in Keys /\ nin \in Nat /\ nout \in Nat
      /\ k \in Kexes /\ f \in Record /\ b \in Record /\ <<b>> \in Seq(Record)
         /\ NoRecords \in Seq(Record)
  <2>1. in \in Keys /\ out \in Keys /\ nin \in Nat /\ nout \in Nat
    BY EndFields
  <2>2. k \in Kexes
    BY EndFields
  <2>3. f \in Record /\ b \in Record
    BY <2>1, <2>2, <1>2, EndFields, Typed DEF Yes, No
  <2> HIDE DEF f, b
  <2>4. QED
    BY <2>1, <2>2, <2>3, <1>2, Typed, Counting, Few DEF Yes, No
<1>4. ReceiveDatagram(y, toY[1], kex) = Went(t)
  <2>1. toY[1] = Under(in, 0, Kex(k))
    BY <1>2, <1>3, OneTail, TwoTail
  <2> HIDE DEF in, out, nin, nout, k
  <2>2. ReceiveDatagram(y, Under(in, 0, Kex(k)), kex) = Went(t)
    BY <1>1, <1>2, ResponderRestingReads
  <2>3. QED
    BY <2>1, <2>2
<1>5. /\ d.initiator = No /\ d.label = "stream" /\ d.state = "Sig"
      /\ d.my_kex = kex /\ d.his_kex = k /\ d.in_key = in /\ d.out_key = out
      /\ d.pending_key = NoKey /\ d.in_seq = nin /\ d.out_seq = nout
      /\ t.initiator = No /\ t.out_key = out /\ t.outbound = <<b>>
  BY Fields
<1>6. Drained(t) = d
  BY Draining
<1>7. t \in Session
  <2> HIDE DEF in, out, nin, nout, k, f, b
  <2>1. QED
    BY <1>3, OfIsSession, Typed DEF No
<1>8. b = Under(out, 0, Kex(kex)) /\ b.key = out
  BY <1>2, UnderKey DEF Under
<1> HIDE DEF t, d, b
<1>9. YSigns(x, d, <<b>>, NoRecords)
  BY <1>2, <1>5, <1>8 DEF XBegan, YSigns, Rests, Began, Signs, Waits, Counts, SameKeys, Keyed,
     KexOfEnd, SigOfPeer, AckOfPeer, NoKex
<1>10. Tail(toY) = NoRecords /\ toX \o t.outbound = <<b>>
  BY <1>2, <1>3, <1>5, OneTail, TwoTail, EmptyJoins, OneJoins
<1>11. Queues(y, t, toX)
  BY <1>2, <1>3, <1>5, <1>8, OneTail, NoneYet DEF Queues
<1> HIDE DEF in, out, nin, nout, k, f
<1>12. Phase(x, Drained(t), toX \o t.outbound, Tail(toY))
  BY <1>6, <1>9, <1>10 DEF Phase
<1>13. QED
  BY <1>4, <1>5, <1>7, <1>11, <1>12, Outcomes DEF YGoesOn

(* In BothBegan the responder reads the KEX: YSigns.                       *)
LEMMA YReadsBothBegan ==
    ASSUME MaxKex \in Nat, NEW x, NEW y, Ends(x, y), NEW toX, NEW toY,
           BothBegan(x, y, toX, toY), NEW kex \in Kexes, kex # NoKex
    PROVE  YGoesOn(x, y, toX, toY, ReceiveDatagram(y, toY[1], kex))
<1> DEFINE in == y.in_key
           out == y.out_key
           nin == y.in_seq
           nout == y.out_seq
           mine == y.my_kex
           k == x.my_kex
           c == Counted(in, nin)
           f == Under(in, 0, Kex(k))
           g == Under(out, 0, Kex(mine))
           t == Of(No, "Sig", mine, k, in, out, NoKey, c, nout, NoRecords)
<1>1. y = Of(No, "Kex", mine, NoKex, in, out, NoKey, nin, nout, NoRecords)
  BY ByFields DEF Ends, BothBegan, Rests, Began, Signs, Waits, Counts, SameKeys, Keyed,
     KexOfEnd, SigOfPeer, AckOfPeer, NoKex
<1>2. /\ toY = <<f>> /\ toX = <<g>>
      /\ x.in_key = out /\ x.out_key = in /\ (in = NoKey <=> out = NoKey)
      /\ (in = NoKey => nin = 0 /\ nout = 1)
  BY DEF BothBegan, Ends, Rests, Began, Signs, Waits, Counts, SameKeys, Keyed, KexOfEnd,
     SigOfPeer, AckOfPeer, NoKex
<1>3. /\ in \in Keys /\ out \in Keys /\ nin \in Nat /\ nout \in Nat /\ c \in Nat
      /\ mine \in Kexes /\ k \in Kexes /\ f \in Record /\ g \in Record
      /\ <<g>> \in Seq(Record) /\ NoRecords \in Seq(Record)
  <2>1. in \in Keys /\ out \in Keys /\ nin \in Nat /\ nout \in Nat
    BY EndFields
  <2>2. mine \in Kexes /\ k \in Kexes
    BY EndFields
  <2>3. f \in Record /\ g \in Record
    BY <2>1, <2>2, <1>2, EndFields, Typed DEF Yes, No
  <2> HIDE DEF f, g
  <2>4. QED
    BY <2>1, <2>2, <2>3, <1>2, Typed, Counting, Few DEF Yes, No
<1>4. ReceiveDatagram(y, toY[1], kex) = Went(t)
  <2>1. toY[1] = Under(in, 0, Kex(k))
    BY <1>2, <1>3, OneTail, TwoTail
  <2> HIDE DEF in, out, nin, nout, mine, k
  <2>2. ReceiveDatagram(y, Under(in, 0, Kex(k)), kex) = Went(t)
    BY <1>1, <1>2, ResponderBegunReads
  <2>3. QED
    BY <2>1, <2>2
<1>5. /\ t.initiator = No /\ t.label = "stream" /\ t.state = "Sig"
      /\ t.my_kex = mine /\ t.his_kex = k /\ t.in_key = in /\ t.out_key = out
      /\ t.pending_key = NoKey /\ t.in_seq = c /\ t.out_seq = nout
      /\ t.outbound = NoRecords
  BY Fields
<1>6. Drained(t) = t
  BY Draining
<1>7. t \in Session
  <2> HIDE DEF in, out, nin, nout, mine, k, c, f, g
  <2>1. QED
    BY <1>3, OfIsSession, Typed DEF No
<1>8. in = NoKey => c = 1
  BY <1>2 DEF Counted
<1> HIDE DEF t
<1>9. YSigns(x, t, <<g>>, NoRecords)
  BY <1>2, <1>5, <1>8 DEF BothBegan, YSigns, Rests, Began, Signs, Waits, Counts, SameKeys,
     Keyed, KexOfEnd, SigOfPeer, AckOfPeer, NoKex
<1>10. Tail(toY) = NoRecords /\ toX \o t.outbound = <<g>>
  BY <1>2, <1>3, <1>5, OneTail, TwoTail, EmptyJoins, OneJoins
<1>11. Queues(y, t, toX)
  BY <1>2, <1>3, <1>5, OneTail, NoneYet DEF Queues
<1> HIDE DEF in, out, nin, nout, mine, k, c, f, g
<1>12. Phase(x, Drained(t), toX \o t.outbound, Tail(toY))
  BY <1>6, <1>9, <1>10 DEF Phase
<1>13. QED
  BY <1>4, <1>5, <1>7, <1>11, <1>12, Outcomes DEF YGoesOn

(* In XSigned the responder reads the KEX: BothSign.                       *)
LEMMA YReadsXSigned ==
    ASSUME MaxKex \in Nat, NEW x, NEW y, Ends(x, y), NEW toX, NEW toY,
           XSigned(x, y, toX, toY), NEW kex \in Kexes, kex # NoKex
    PROVE  YGoesOn(x, y, toX, toY, ReceiveDatagram(y, toY[1], kex))
<1> DEFINE in == y.in_key
           out == y.out_key
           nin == y.in_seq
           nout == y.out_seq
           mine == y.my_kex
           k == x.my_kex
           c == Counted(in, nin)
           f == Under(in, 0, Kex(k))
           g == Under(in, 1, Sig(Yes, k, mine, "stream"))
           t == Of(No, "Sig", mine, k, in, out, NoKey, c, nout, NoRecords)
<1>1. y = Of(No, "Kex", mine, NoKex, in, out, NoKey, nin, nout, NoRecords)
  BY ByFields DEF Ends, XSigned, Rests, Began, Signs, Waits, Counts, SameKeys, Keyed, KexOfEnd,
     SigOfPeer, AckOfPeer, NoKex
<1>2. /\ toY = <<f, g>> /\ toX = NoRecords /\ x.his_kex = mine
      /\ x.in_key = out /\ x.out_key = in /\ (in = NoKey <=> out = NoKey)
      /\ (in = NoKey => nin = 0 /\ nout = 1)
  BY EndFields DEF XSigned, Ends, Rests, Began, Signs, Waits, Counts, SameKeys, Keyed,
     KexOfEnd, SigOfPeer, AckOfPeer, NoKex
<1>3. /\ in \in Keys /\ out \in Keys /\ nin \in Nat /\ nout \in Nat /\ c \in Nat
      /\ mine \in Kexes /\ k \in Kexes /\ f \in Record /\ g \in Record
         /\ NoRecords \in Seq(Record)
  <2>1. in \in Keys /\ out \in Keys /\ nin \in Nat /\ nout \in Nat
    BY EndFields
  <2>2. mine \in Kexes /\ k \in Kexes
    BY EndFields
  <2>3. f \in Record /\ g \in Record
    BY <2>1, <2>2, <1>2, EndFields, Typed DEF Yes, No
  <2> HIDE DEF f, g
  <2>4. QED
    BY <2>1, <2>2, <2>3, <1>2, Typed, Counting, Few DEF Yes, No
<1>4. ReceiveDatagram(y, toY[1], kex) = Went(t)
  <2>1. toY[1] = Under(in, 0, Kex(k))
    BY <1>2, <1>3, OneTail, TwoTail
  <2> HIDE DEF in, out, nin, nout, mine, k
  <2>2. ReceiveDatagram(y, Under(in, 0, Kex(k)), kex) = Went(t)
    BY <1>1, <1>2, ResponderBegunReads
  <2>3. QED
    BY <2>1, <2>2
<1>5. /\ t.initiator = No /\ t.label = "stream" /\ t.state = "Sig"
      /\ t.my_kex = mine /\ t.his_kex = k /\ t.in_key = in /\ t.out_key = out
      /\ t.pending_key = NoKey /\ t.in_seq = c /\ t.out_seq = nout
      /\ t.outbound = NoRecords
  BY Fields
<1>6. Drained(t) = t
  BY Draining
<1>7. t \in Session
  <2> HIDE DEF in, out, nin, nout, mine, k, c, f, g
  <2>1. QED
    BY <1>3, OfIsSession, Typed DEF No
<1>8. in = NoKey => c = 1
  BY <1>2 DEF Counted
<1>9. SigOfPeer(t) = g
  BY <1>5, Responders DEF SigOfPeer
<1> HIDE DEF t
<1>10. BothSign(x, t, NoRecords, <<g>>)
  BY <1>2, <1>5, <1>8, <1>9 DEF XSigned, BothSign, Rests, Began, Signs, Waits, Counts,
     SameKeys, Keyed, KexOfEnd, AckOfPeer, NoKex
<1>11. Tail(toY) = <<g>> /\ toX \o t.outbound = NoRecords
  BY <1>2, <1>3, <1>5, OneTail, TwoTail, EmptyJoins, OneJoins
<1>12. Queues(y, t, toX)
  BY <1>2, <1>3, <1>5, OneTail, NoneYet DEF Queues
<1> HIDE DEF in, out, nin, nout, mine, k, c, f, g
<1>13. Phase(x, Drained(t), toX \o t.outbound, Tail(toY))
  BY <1>6, <1>10, <1>11 DEF Phase
<1>14. QED
  BY <1>4, <1>5, <1>7, <1>12, <1>13, Outcomes DEF YGoesOn

(* In BothSign the responder reads the first SIG, it signs and is done:    *)
(* YFirst.                                                                 *)
LEMMA YReadsBothSignFirst ==
    ASSUME MaxKex \in Nat, NEW x, NEW y, Ends(x, y), NEW toX, NEW toY,
           BothSign(x, y, toX, toY), y.out_key = NoKey, NEW kex \in Kexes, kex # NoKex
    PROVE  YGoesOn(x, y, toX, toY, ReceiveDatagram(y, toY[1], kex))
<1> DEFINE in == y.in_key
           out == y.out_key
           nin == y.in_seq
           nout == y.out_seq
           mine == y.my_kex
           his == y.his_kex
           m == <<his, mine, "stream">>
           c == Counted(in, nin)
           ours == SealedBy(No, m)
           theirs == SealedBy(Yes, m)
           f == Under(in, 1, Sig(Yes, his, mine, "stream"))
           b == Under(out, nout, Sig(No, mine, his, "stream"))
           t == Of(No, "SecondaryKex", NoKex, NoKex, theirs, ours, NoKey, c, Counted(out,
               nout), <<b>>)
           d == Of(No, "SecondaryKex", NoKex, NoKex, theirs, ours, NoKey, c, Counted(out,
               nout), NoRecords)
<1>1. y = Of(No, "Sig", mine, his, in, out, NoKey, nin, nout, NoRecords)
  BY ByFields DEF Ends, BothSign, Rests, Began, Signs, Waits, Counts, SameKeys, Keyed,
     KexOfEnd, SigOfPeer, AckOfPeer, NoKex
<1>2. /\ toY = <<f>> /\ toX = NoRecords /\ x.my_kex = his /\ x.his_kex = mine
         /\ x.in_key = out /\ x.out_key = in
      /\ (in = NoKey <=> out = NoKey) /\ (in = NoKey => nin = 1 /\ nout = 1)
      /\ out = NoKey
  BY EndFields, Responders DEF BothSign, Ends, Rests, Began, Signs, Waits, Counts, SameKeys,
     Keyed, KexOfEnd, SigOfPeer, AckOfPeer, NoKex
<1>3. /\ in \in Keys /\ out \in Keys /\ nin \in Nat /\ nout \in Nat /\ c \in Nat
         /\ Counted(out, nout) \in Nat
      /\ mine \in Kexes /\ his \in Kexes /\ m \in Materials /\ m # NoKey
      /\ ours \in Keys /\ ours # NoKey /\ theirs \in Keys /\ theirs # NoKey
      /\ f \in Record /\ b \in Record
      /\ <<b>> \in Seq(Record) /\ NoRecords \in Seq(Record)
  <2>1. in \in Keys /\ out \in Keys /\ nin \in Nat /\ nout \in Nat
    BY EndFields
  <2>2. mine \in Kexes /\ his \in Kexes
    BY EndFields
  <2>3. f \in Record /\ b \in Record
    BY <2>1, <2>2, <1>2, EndFields, Typed DEF Yes, No
  <2> HIDE DEF f, b
  <2>4. QED
    BY <2>1, <2>2, <2>3, <1>2, Typed, Counting, Few DEF Yes, No
<1>4. ReceiveDatagram(y, toY[1], kex) = Completed(t)
  <2>1. toY[1] = Under(in, 1, Sig(Yes, his, mine, "stream"))
    BY <1>2, <1>3, OneTail, TwoTail
  <2> HIDE DEF in, out, nin, nout, mine, his
  <2>2. ReceiveDatagram(y, Under(in, 1, Sig(Yes, his, mine, "stream")), kex) = Completed(t)
    BY <1>1, <1>2, ResponderFirstReads
  <2>3. QED
    BY <2>1, <2>2
<1>5. /\ d.initiator = No /\ d.label = "stream" /\ d.state = "SecondaryKex"
      /\ d.my_kex = NoKex /\ d.his_kex = NoKex /\ d.in_key = theirs /\ d.out_key = ours
      /\ d.pending_key = NoKey /\ d.in_seq = c /\ d.out_seq = Counted(out, nout)
      /\ t.initiator = No /\ t.out_key = ours /\ t.outbound = <<b>>
  BY Fields
<1>6. Drained(t) = d
  BY Draining
<1>7. t \in Session
  <2> HIDE DEF in, out, nin, nout, mine, his, m, c, ours, theirs, f, b
  <2>1. QED
    BY <1>3, OfIsSession, Typed DEF No
<1>8. b = Under(out, 1, Sig(No, mine, his, "stream")) /\ b.key = out
  BY <1>2, UnderKey DEF Under
<1>9. SigOfPeer(x) = b /\ Material(x) = m
  BY <1>2, <1>8, EndFields, Initiators DEF SigOfPeer, Ends
<1>10. OutKey(x, m) = theirs /\ InKey(x, m) = ours
  BY EndFields, Initiators DEF Ends
<1> HIDE DEF t, d, b
<1>11. YFirst(x, d, <<b>>, NoRecords)
  BY <1>2, <1>5, <1>8, <1>9, <1>10, <1>3 DEF BothSign, YFirst, Rests, Began, Signs, Waits,
     Counts, SameKeys, Keyed, KexOfEnd, AckOfPeer, NoKex
<1>12. Tail(toY) = NoRecords /\ toX \o t.outbound = <<b>>
  BY <1>2, <1>3, <1>5, OneTail, TwoTail, EmptyJoins, OneJoins
<1>13. Queues(y, t, toX)
  BY <1>2, <1>3, <1>5, <1>8, OneTail, NoneYet DEF Queues
<1> HIDE DEF in, out, nin, nout, mine, his, m, c, ours, theirs, f
<1>14. Phase(x, Drained(t), toX \o t.outbound, Tail(toY))
  BY <1>6, <1>11, <1>12 DEF Phase
<1>15. QED
  BY <1>4, <1>5, <1>7, <1>13, <1>14, Outcomes DEF YGoesOn

(* In BothSign the responder reads a later SIG, it signs and sends its     *)
(* ACK: YDone.                                                             *)
LEMMA YReadsBothSignLater ==
    ASSUME MaxKex \in Nat, NEW x, NEW y, Ends(x, y), NEW toX, NEW toY,
           BothSign(x, y, toX, toY), y.out_key # NoKey, NEW kex \in Kexes, kex # NoKex
    PROVE  YGoesOn(x, y, toX, toY, ReceiveDatagram(y, toY[1], kex))
<1> DEFINE in == y.in_key
           out == y.out_key
           nin == y.in_seq
           nout == y.out_seq
           mine == y.my_kex
           his == y.his_kex
           m == <<his, mine, "stream">>
           c == Counted(in, nin)
           ours == SealedBy(No, m)
           theirs == SealedBy(Yes, m)
           f == Under(in, 1, Sig(Yes, his, mine, "stream"))
           b == Under(out, nout, Sig(No, mine, his, "stream"))
           e == Under(out, nout, Ack)
           t == Of(No, "Ack", NoKex, NoKex, in, ours, m, c, nout, <<b, e>>)
           d == Of(No, "Ack", NoKex, NoKex, in, ours, m, c, nout, NoRecords)
<1>1. y = Of(No, "Sig", mine, his, in, out, NoKey, nin, nout, NoRecords)
  BY ByFields DEF Ends, BothSign, Rests, Began, Signs, Waits, Counts, SameKeys, Keyed,
     KexOfEnd, SigOfPeer, AckOfPeer, NoKex
<1>2. /\ toY = <<f>> /\ toX = NoRecords /\ x.my_kex = his /\ x.his_kex = mine
         /\ x.in_key = out /\ x.out_key = in
      /\ (in = NoKey <=> out = NoKey) /\ (in = NoKey => nin = 1 /\ nout = 1)
      /\ out # NoKey
  BY EndFields, Responders DEF BothSign, Ends, Rests, Began, Signs, Waits, Counts, SameKeys,
     Keyed, KexOfEnd, SigOfPeer, AckOfPeer, NoKex
<1>3. /\ in \in Keys /\ out \in Keys /\ nin \in Nat /\ nout \in Nat /\ c \in Nat
         /\ Counted(out, nout) \in Nat
      /\ mine \in Kexes /\ his \in Kexes /\ m \in Materials /\ m # NoKey
      /\ ours \in Keys /\ ours # NoKey /\ theirs \in Keys /\ theirs # NoKey
      /\ f \in Record /\ b \in Record /\ e \in Record
      /\ <<b, e>> \in Seq(Record) /\ NoRecords \in Seq(Record)
  <2>1. in \in Keys /\ out \in Keys /\ nin \in Nat /\ nout \in Nat
    BY EndFields
  <2>2. mine \in Kexes /\ his \in Kexes
    BY EndFields
  <2>3. f \in Record /\ b \in Record /\ e \in Record
    BY <2>1, <2>2, <1>2, EndFields, Typed DEF Yes, No
  <2> HIDE DEF f, b, e
  <2>4. QED
    BY <2>1, <2>2, <2>3, <1>2, Typed, Counting, Few DEF Yes, No
<1>4. ReceiveDatagram(y, toY[1], kex) = Went(t)
  <2>1. toY[1] = Under(in, 1, Sig(Yes, his, mine, "stream"))
    BY <1>2, <1>3, OneTail, TwoTail
  <2> HIDE DEF in, out, nin, nout, mine, his
  <2>2. ReceiveDatagram(y, Under(in, 1, Sig(Yes, his, mine, "stream")), kex) = Went(t)
    BY <1>1, <1>2, ResponderLaterReads
  <2>3. QED
    BY <2>1, <2>2
<1>5. /\ d.initiator = No /\ d.label = "stream" /\ d.state = "Ack"
      /\ d.my_kex = NoKex /\ d.his_kex = NoKex /\ d.in_key = in /\ d.out_key = ours
      /\ d.pending_key = m /\ d.in_seq = c /\ d.out_seq = nout
      /\ t.initiator = No /\ t.out_key = ours /\ t.outbound = <<b, e>>
  BY Fields
<1>6. Drained(t) = d
  BY Draining
<1>7. t \in Session
  <2> HIDE DEF in, out, nin, nout, mine, his, m, c, ours, theirs, f, b, e
  <2>1. QED
    BY <1>3, OfIsSession, Typed DEF No
<1>8. b = Under(out, 1, Sig(No, mine, his, "stream")) /\ b.key = out
  BY <1>2, UnderKey DEF Under
<1>9. SigOfPeer(x) = b /\ Material(x) = m
  BY <1>2, <1>8, EndFields, Initiators DEF SigOfPeer, Ends
<1>10. e = Under(out, 0, Ack) /\ e.key = out
  BY <1>2, UnderKey DEF Under
<1>11. OutKey(d, m) = ours
  BY <1>5, Responders
<1> HIDE DEF t, d, b, e
<1>12. YDone(x, d, <<b, e>>, NoRecords)
  BY <1>2, <1>5, <1>8, <1>9, <1>10, <1>11, <1>3 DEF BothSign, YDone, Rests, Began, Signs,
     Waits, Counts, SameKeys, Keyed, KexOfEnd, AckOfPeer, NoKex
<1>13. Tail(toY) = NoRecords /\ toX \o t.outbound = <<b, e>>
  BY <1>2, <1>3, <1>5, OneTail, TwoTail, EmptyJoins, OneJoins
<1>14. Queues(y, t, toX)
  BY <1>2, <1>3, <1>5, <1>8, <1>10, OneTail, NoneYet DEF Queues
<1> HIDE DEF in, out, nin, nout, mine, his, m, c, ours, theirs, f
<1>15. Phase(x, Drained(t), toX \o t.outbound, Tail(toY))
  BY <1>6, <1>12, <1>13 DEF Phase
<1>16. QED
  BY <1>4, <1>5, <1>7, <1>14, <1>15, Outcomes DEF YGoesOn

(* In BothDone the responder reads the ACK: XWaits.                        *)
LEMMA YReadsBothDone ==
    ASSUME MaxKex \in Nat, NEW x, NEW y, Ends(x, y), NEW toX, NEW toY,
           BothDone(x, y, toX, toY), NEW kex \in Kexes, kex # NoKex
    PROVE  YGoesOn(x, y, toX, toY, ReceiveDatagram(y, toY[1], kex))
<1> DEFINE in == y.in_key
           out == y.out_key
           nin == y.in_seq
           nout == y.out_seq
           m == y.pending_key
           theirs == SealedBy(Yes, m)
           f == Under(in, 0, Ack)
           g == Under(x.in_key, 0, Ack)
           t == Of(No, "SecondaryKex", NoKex, NoKex, theirs, out, NoKey, nin, nout, NoRecords)
<1>1. y = Of(No, "Ack", NoKex, NoKex, in, out, m, nin, nout, NoRecords)
  BY ByFields DEF Ends, BothDone, Waits, Rests, Began, Keyed, AckOfPeer, KexOfEnd
<1>2. /\ toY = <<f>> /\ toX = <<g>> /\ in # NoKey /\ out # NoKey /\ m # NoKey
      /\ m \in Materials /\ out = SealedBy(No, m) /\ InKey(y, m) = theirs
      /\ x.pending_key = m /\ x.out_key = theirs /\ InKey(x, m) = out /\ OutKey(x, m) = theirs
  BY EndFields, Initiators, Responders DEF BothDone, Ends, Waits, Rests, Began, Keyed,
     AckOfPeer, KexOfEnd
<1>3. /\ in \in Keys /\ out \in Keys /\ nin \in Nat /\ nout \in Nat
      /\ theirs \in Keys /\ theirs # NoKey
      /\ f \in Record /\ g \in Record /\ NoRecords \in Seq(Record) /\ <<g>> \in Seq(Record)
  <2>1. in \in Keys /\ out \in Keys /\ nin \in Nat /\ nout \in Nat
    BY EndFields
  <2>2. f \in Record /\ g \in Record
    BY <2>1, <1>2, EndFields, Typed DEF Yes, No
  <2> HIDE DEF f, g
  <2>3. QED
    BY <2>1, <2>2, <1>2, Typed, Counting, Few DEF Yes, No
<1>4. ReceiveDatagram(y, toY[1], kex) = Completed(t)
  <2>1. toY[1] = Under(in, 0, Ack)
    BY <1>2, <1>3, OneTail, TwoTail
  <2>2. InKey(Of(No, "Ack", NoKex, NoKex, in, out, m, nin, nout, NoRecords), m) = theirs
    BY <1>1, <1>2
  <2> HIDE DEF in, out, nin, nout, m, theirs
  <2>3. ReceiveDatagram(y, Under(in, 0, Ack), kex) = Completed(t)
    BY <1>1, <1>2, <2>2, WaitingReads
  <2>4. QED
    BY <2>1, <2>3
<1>5. /\ t.initiator = No /\ t.label = "stream" /\ t.state = "SecondaryKex"
      /\ t.my_kex = NoKex /\ t.his_kex = NoKex /\ t.in_key = theirs /\ t.out_key = out
      /\ t.pending_key = NoKey /\ t.in_seq = nin /\ t.out_seq = nout
      /\ t.outbound = NoRecords
  BY Fields
<1>6. Drained(t) = t
  BY Draining
<1>7. t \in Session
  <2> HIDE DEF in, out, nin, nout, m, theirs, f, g
  <2>1. QED
    BY <1>3, OfIsSession, Typed DEF No
<1> HIDE DEF t
<1>8. XWaits(x, t, <<g>>, NoRecords)
  BY <1>2, <1>5, <1>3 DEF BothDone, XWaits, Ends, Rests, Began, Signs, Waits, Counts, SameKeys,
     Keyed, KexOfEnd, SigOfPeer, AckOfPeer, NoKex
<1>9. Tail(toY) = NoRecords /\ toX \o t.outbound = <<g>>
  BY <1>2, <1>3, <1>5, OneTail, TwoTail, EmptyJoins, OneJoins
<1>10. Queues(y, t, toX)
  BY <1>2, <1>3, <1>5, OneTail, NoneYet DEF Queues
<1> HIDE DEF in, out, nin, nout, m, theirs, f, g
<1>11. Phase(x, Drained(t), toX \o t.outbound, Tail(toY))
  BY <1>6, <1>8, <1>9 DEF Phase
<1>12. QED
  BY <1>4, <1>5, <1>7, <1>10, <1>11, Outcomes DEF YGoesOn

(* In YWaits the responder reads the ACK: AtRest.                          *)
LEMMA YReadsYWaits ==
    ASSUME MaxKex \in Nat, NEW x, NEW y, Ends(x, y), NEW toX, NEW toY,
           YWaits(x, y, toX, toY), Rests(x), NEW kex \in Kexes, kex # NoKex
    PROVE  YGoesOn(x, y, toX, toY, ReceiveDatagram(y, toY[1], kex))
<1> DEFINE in == y.in_key
           out == y.out_key
           nin == y.in_seq
           nout == y.out_seq
           m == y.pending_key
           theirs == SealedBy(Yes, m)
           f == Under(in, 0, Ack)
           t == Of(No, "SecondaryKex", NoKex, NoKex, theirs, out, NoKey, nin, nout, NoRecords)
<1>1. y = Of(No, "Ack", NoKex, NoKex, in, out, m, nin, nout, NoRecords)
  BY ByFields DEF Ends, YWaits, Waits, Rests, Began, Keyed, AckOfPeer, KexOfEnd
<1>2. /\ toY = <<f>> /\ toX = NoRecords /\ in # NoKey /\ out # NoKey /\ m # NoKey
      /\ m \in Materials /\ out = SealedBy(No, m) /\ InKey(y, m) = theirs
      /\ x.in_key = out /\ x.out_key = theirs
  BY EndFields, Initiators, Responders DEF YWaits, Ends, Waits, Rests, Began, Keyed, AckOfPeer,
     KexOfEnd
<1>3. /\ in \in Keys /\ out \in Keys /\ nin \in Nat /\ nout \in Nat
      /\ theirs \in Keys /\ theirs # NoKey
      /\ f \in Record /\ NoRecords \in Seq(Record)
  <2>1. in \in Keys /\ out \in Keys /\ nin \in Nat /\ nout \in Nat
    BY EndFields
  <2>2. f \in Record
    BY <2>1, <1>2, EndFields, Typed DEF Yes, No
  <2> HIDE DEF f
  <2>3. QED
    BY <2>1, <2>2, <1>2, Typed, Counting, Few DEF Yes, No
<1>4. ReceiveDatagram(y, toY[1], kex) = Completed(t)
  <2>1. toY[1] = Under(in, 0, Ack)
    BY <1>2, <1>3, OneTail, TwoTail
  <2>2. InKey(Of(No, "Ack", NoKex, NoKex, in, out, m, nin, nout, NoRecords), m) = theirs
    BY <1>1, <1>2
  <2> HIDE DEF in, out, nin, nout, m, theirs
  <2>3. ReceiveDatagram(y, Under(in, 0, Ack), kex) = Completed(t)
    BY <1>1, <1>2, <2>2, WaitingReads
  <2>4. QED
    BY <2>1, <2>3
<1>5. /\ t.initiator = No /\ t.label = "stream" /\ t.state = "SecondaryKex"
      /\ t.my_kex = NoKex /\ t.his_kex = NoKex /\ t.in_key = theirs /\ t.out_key = out
      /\ t.pending_key = NoKey /\ t.in_seq = nin /\ t.out_seq = nout
      /\ t.outbound = NoRecords
  BY Fields
<1>6. Drained(t) = t
  BY Draining
<1>7. t \in Session
  <2> HIDE DEF in, out, nin, nout, m, theirs, f
  <2>1. QED
    BY <1>3, OfIsSession, Typed DEF No
<1> HIDE DEF t
<1>8. AtRest(x, t, NoRecords, NoRecords)
  BY <1>2, <1>5, <1>3 DEF YWaits, AtRest, Ends, Rests, Began, Signs, Waits, Counts, SameKeys,
     Keyed, KexOfEnd, SigOfPeer, AckOfPeer, NoKex
<1>9. Tail(toY) = NoRecords /\ toX \o t.outbound = NoRecords
  BY <1>2, <1>3, <1>5, OneTail, TwoTail, EmptyJoins, OneJoins
<1>10. Queues(y, t, toX)
  BY <1>2, <1>3, <1>5, OneTail, NoneYet DEF Queues
<1> HIDE DEF in, out, nin, nout, m, theirs, f
<1>11. Phase(x, Drained(t), toX \o t.outbound, Tail(toY))
  BY <1>6, <1>8, <1>9 DEF Phase
<1>12. QED
  BY <1>4, <1>5, <1>7, <1>10, <1>11, Outcomes DEF YGoesOn

(* In YWaits the responder reads the ACK, and the next exchange has begun: *)
(* XBegan.                                                                 *)
LEMMA YReadsYWaitsFurther ==
    ASSUME MaxKex \in Nat, NEW x, NEW y, Ends(x, y), NEW toX, NEW toY,
           YWaits(x, y, toX, toY), Began(x), NEW kex \in Kexes, kex # NoKex
    PROVE  YGoesOn(x, y, toX, toY, ReceiveDatagram(y, toY[1], kex))
<1> DEFINE in == y.in_key
           out == y.out_key
           nin == y.in_seq
           nout == y.out_seq
           m == y.pending_key
           theirs == SealedBy(Yes, m)
           f == Under(in, 0, Ack)
           k == x.my_kex
           g == Under(theirs, 0, Kex(k))
           t == Of(No, "SecondaryKex", NoKex, NoKex, theirs, out, NoKey, nin, nout, NoRecords)
<1>1. y = Of(No, "Ack", NoKex, NoKex, in, out, m, nin, nout, NoRecords)
  BY ByFields DEF Ends, YWaits, Waits, Rests, Began, Keyed, AckOfPeer, KexOfEnd
<1>2. /\ toY = <<f, g>> /\ toX = NoRecords /\ in # NoKey /\ out # NoKey /\ m # NoKey
      /\ m \in Materials /\ out = SealedBy(No, m) /\ InKey(y, m) = theirs
      /\ x.in_key = out /\ x.out_key = theirs
  BY EndFields, Initiators, Responders DEF YWaits, Ends, Waits, Rests, Began, Keyed, AckOfPeer,
     KexOfEnd
<1>3. /\ in \in Keys /\ out \in Keys /\ nin \in Nat /\ nout \in Nat
      /\ theirs \in Keys /\ theirs # NoKey /\ k \in Kexes
      /\ f \in Record /\ g \in Record /\ NoRecords \in Seq(Record)
  <2>1. in \in Keys /\ out \in Keys /\ nin \in Nat /\ nout \in Nat
    BY EndFields
  <2>2. k \in Kexes
    BY EndFields
  <2>3. f \in Record /\ g \in Record
    BY <2>1, <2>2, <1>2, EndFields, Typed DEF Yes, No
  <2> HIDE DEF f, g
  <2>4. QED
    BY <2>1, <2>2, <2>3, <1>2, Typed, Counting, Few DEF Yes, No
<1>4. ReceiveDatagram(y, toY[1], kex) = Completed(t)
  <2>1. toY[1] = Under(in, 0, Ack)
    BY <1>2, <1>3, OneTail, TwoTail
  <2>2. InKey(Of(No, "Ack", NoKex, NoKex, in, out, m, nin, nout, NoRecords), m) = theirs
    BY <1>1, <1>2
  <2> HIDE DEF in, out, nin, nout, m, theirs
  <2>3. ReceiveDatagram(y, Under(in, 0, Ack), kex) = Completed(t)
    BY <1>1, <1>2, <2>2, WaitingReads
  <2>4. QED
    BY <2>1, <2>3
<1>5. /\ t.initiator = No /\ t.label = "stream" /\ t.state = "SecondaryKex"
      /\ t.my_kex = NoKex /\ t.his_kex = NoKex /\ t.in_key = theirs /\ t.out_key = out
      /\ t.pending_key = NoKey /\ t.in_seq = nin /\ t.out_seq = nout
      /\ t.outbound = NoRecords
  BY Fields
<1>6. Drained(t) = t
  BY Draining
<1>7. t \in Session
  <2> HIDE DEF in, out, nin, nout, m, theirs, f, k, g
  <2>1. QED
    BY <1>3, OfIsSession, Typed DEF No
<1> HIDE DEF t
<1>8. XBegan(x, t, NoRecords, <<g>>)
  BY <1>2, <1>5, <1>3 DEF YWaits, XBegan, Ends, Rests, Began, Signs, Waits, Counts, SameKeys,
     Keyed, KexOfEnd, SigOfPeer, AckOfPeer, NoKex
<1>9. Tail(toY) = <<g>> /\ toX \o t.outbound = NoRecords
  BY <1>2, <1>3, <1>5, OneTail, TwoTail, EmptyJoins, OneJoins
<1>10. Queues(y, t, toX)
  BY <1>2, <1>3, <1>5, OneTail, NoneYet DEF Queues
<1> HIDE DEF in, out, nin, nout, m, theirs, f, k, g
<1>11. Phase(x, Drained(t), toX \o t.outbound, Tail(toY))
  BY <1>6, <1>8, <1>9 DEF Phase
<1>12. QED
  BY <1>4, <1>5, <1>7, <1>10, <1>11, Outcomes DEF YGoesOn

(* A new exchange that an end forces.                                      *)
LEMMA XForces ==
    ASSUME MaxKex \in Nat, NEW x, NEW y, Ends(x, y), NEW toX, NEW toY,
           Phase(x, y, toX, toY), CanForceKex(x), NEW kex \in Kexes, kex # NoKex
    PROVE  /\ ForceKex(x, kex) \in Session /\ ForceKex(x, kex).initiator = Yes
           /\ Phase(Drained(ForceKex(x, kex)), y, toX, toY \o ForceKex(x, kex).outbound)
           /\ Queues(x, ForceKex(x, kex), toY)
<1> DEFINE in == x.in_key
           out == x.out_key
           nin == x.in_seq
           nout == x.out_seq
           own == Under(out, nout, Kex(kex))
           t == Of(Yes, "Kex", kex, NoKex, in, out, NoKey, nin, nout, <<own>>)
           d == Of(Yes, "Kex", kex, NoKex, in, out, NoKey, nin, nout, NoRecords)
<1>1. x.state = "SecondaryKex" /\ in # NoKey /\ out # NoKey
  BY DEF CanForceKex, IsEstablished
<1>2. Rests(x)
  BY <1>1 DEF Phase, AtRest, Began, BothBegan, BothDone, BothSign, Rests, Signs, Waits, XBegan,
     XSigned, XWaits, YBegan, YDone, YFirst, YSigns, YWaits
<1>3. x = Of(Yes, "SecondaryKex", NoKex, NoKex, in, out, NoKey, nin, nout, NoRecords)
  BY <1>2, ByFields DEF Ends, Rests
<1>4. ForceKex(x, kex) = t
  <2>1. Append(NoRecords, own) = <<own>> /\ Counted(out, nout) = nout
    BY <1>1, One DEF Counted
  <2> HIDE DEF in, out, nin, nout, own
  <2>2. ForceKex(x, kex) = Of(Yes, "Kex", kex, NoKex, in, out, NoKey, nin, Counted(out, nout),
                             Append(NoRecords, own))
    BY <1>3, Forcing DEF own
  <2>3. QED
    BY <2>1, <2>2
<1>5. /\ in \in Keys /\ out \in Keys /\ nin \in Nat /\ nout \in Nat
      /\ own \in Record /\ <<own>> \in Seq(Record) /\ NoRecords \in Seq(Record)
  <2>1. in \in Keys /\ out \in Keys /\ nin \in Nat /\ nout \in Nat
    BY EndFields
  <2>2. own \in Record
    BY <2>1, Typed
  <2> HIDE DEF own
  <2>3. QED
    BY <2>1, <2>2, Typed, Few
<1>6. t \in Session
  <2> HIDE DEF in, out, nin, nout, own
  <2>1. QED
    BY <1>5, OfIsSession, Typed DEF Yes
<1>7. /\ d.initiator = Yes /\ d.label = "stream" /\ d.state = "Kex"
      /\ d.my_kex = kex /\ d.his_kex = NoKex /\ d.in_key = in /\ d.out_key = out
      /\ d.pending_key = NoKey
      /\ t.initiator = Yes /\ t.out_key = out /\ t.outbound = <<own>>
  BY Fields
<1>8. Drained(t) = d
  BY Draining
<1>9. own = Under(out, 0, Kex(kex)) /\ own.key = out
  BY <1>1, UnderKey DEF Under
<1> HIDE DEF t, d, own
<1>10. ASSUME AtRest(x, y, toX, toY)
       PROVE  Phase(d, y, toX, toY \o <<own>>) /\ Len(toY) < 2
  <2>1. toY = NoRecords
    BY <1>10 DEF AtRest
  <2>2. toY \o <<own>> = <<own>>
    BY <1>5, <2>1, EmptyJoins
  <2>3. XBegan(d, y, toX, toY \o <<own>>)
    BY <1>10, <1>1, <1>7, <1>9, <2>2 DEF AtRest, XBegan, Began, Rests, SameKeys, KexOfEnd, Keyed
  <2>4. Phase(d, y, toX, toY \o <<own>>) /\ Len(toY) < 2
    BY <2>3, <2>1, NoneYet DEF Phase
  <2>5. QED
    BY <2>4
<1>11. ASSUME YBegan(x, y, toX, toY)
       PROVE  Phase(d, y, toX, toY \o <<own>>) /\ Len(toY) < 2
  <2>1. toY = NoRecords
    BY <1>11 DEF YBegan
  <2>2. toY \o <<own>> = <<own>>
    BY <1>5, <2>1, EmptyJoins
  <2>3. BothBegan(d, y, toX, toY \o <<own>>)
    BY <1>11, <1>1, <1>7, <1>9, <2>2 DEF YBegan, BothBegan, Began, Rests, Counts, SameKeys,
       KexOfEnd, Keyed
  <2>4. Phase(d, y, toX, toY \o <<own>>) /\ Len(toY) < 2
    BY <2>3, <2>1, NoneYet DEF Phase
  <2>5. QED
    BY <2>4
<1>12. ASSUME YWaits(x, y, toX, toY)
       PROVE  Phase(d, y, toX, toY \o <<own>>) /\ Len(toY) < 2
  <2> DEFINE ack == Under(y.in_key, 0, Ack)
  <2>1. toY = <<ack>>
    BY <1>12, <1>2 DEF YWaits, AckOfPeer, Rests, Began
  <2>2. ack \in Record
    BY EndFields, Typed
  <2> HIDE DEF ack
  <2>3. toY \o <<own>> = <<ack, own>> /\ Len(toY) = 1
    BY <1>5, <2>1, <2>2, OneJoins, OneTail
  <2>4. YWaits(d, y, toX, toY \o <<own>>)
    BY <1>12, <1>1, <1>2, <1>7, <1>9, <2>1, <2>3 DEF YWaits, Began, Rests, KexOfEnd, Keyed,
       AckOfPeer, ack
  <2>5. Phase(d, y, toX, toY \o <<own>>) /\ Len(toY) < 2
    BY <2>4, <2>3, NoneYet DEF Phase
  <2>6. QED
    BY <2>5
<1>13. Phase(d, y, toX, toY \o <<own>>) /\ Len(toY) < 2
  BY <1>2, <1>10, <1>11, <1>12 DEF Phase, XBegan, YBegan, BothBegan, YSigns, XSigned, BothSign,
     YDone, BothDone, XWaits, YWaits, YFirst, Rests, Began, Signs, Waits
<1>14. Queues(x, t, toY)
  BY <1>5, <1>7, <1>9, <1>13 DEF Queues
<1> HIDE DEF in, out, nin, nout
<1>15. QED
  BY <1>4, <1>6, <1>7, <1>8, <1>13, <1>14

LEMMA YForces ==
    ASSUME MaxKex \in Nat, NEW x, NEW y, Ends(x, y), NEW toX, NEW toY,
           Phase(x, y, toX, toY), CanForceKex(y), NEW kex \in Kexes, kex # NoKex
    PROVE  /\ ForceKex(y, kex) \in Session /\ ForceKex(y, kex).initiator = No
           /\ Phase(x, Drained(ForceKex(y, kex)), toX \o ForceKex(y, kex).outbound, toY)
           /\ Queues(y, ForceKex(y, kex), toX)
<1> DEFINE in == y.in_key
           out == y.out_key
           nin == y.in_seq
           nout == y.out_seq
           own == Under(out, nout, Kex(kex))
           t == Of(No, "Kex", kex, NoKex, in, out, NoKey, nin, nout, <<own>>)
           d == Of(No, "Kex", kex, NoKex, in, out, NoKey, nin, nout, NoRecords)
<1>1. y.state = "SecondaryKex" /\ in # NoKey /\ out # NoKey
  BY DEF CanForceKex, IsEstablished
<1>2. Rests(y)
  BY <1>1 DEF Phase, AtRest, Began, BothBegan, BothDone, BothSign, Rests, Signs, Waits, XBegan,
     XSigned, XWaits, YBegan, YDone, YFirst, YSigns, YWaits
<1>3. y = Of(No, "SecondaryKex", NoKex, NoKex, in, out, NoKey, nin, nout, NoRecords)
  BY <1>2, ByFields DEF Ends, Rests
<1>4. ForceKex(y, kex) = t
  <2>1. Append(NoRecords, own) = <<own>> /\ Counted(out, nout) = nout
    BY <1>1, One DEF Counted
  <2> HIDE DEF in, out, nin, nout, own
  <2>2. ForceKex(y, kex) = Of(No, "Kex", kex, NoKex, in, out, NoKey, nin, Counted(out, nout),
                             Append(NoRecords, own))
    BY <1>3, Forcing DEF own
  <2>3. QED
    BY <2>1, <2>2
<1>5. /\ in \in Keys /\ out \in Keys /\ nin \in Nat /\ nout \in Nat
      /\ own \in Record /\ <<own>> \in Seq(Record) /\ NoRecords \in Seq(Record)
  <2>1. in \in Keys /\ out \in Keys /\ nin \in Nat /\ nout \in Nat
    BY EndFields
  <2>2. own \in Record
    BY <2>1, Typed
  <2> HIDE DEF own
  <2>3. QED
    BY <2>1, <2>2, Typed, Few
<1>6. t \in Session
  <2> HIDE DEF in, out, nin, nout, own
  <2>1. QED
    BY <1>5, OfIsSession, Typed DEF No
<1>7. /\ d.initiator = No /\ d.label = "stream" /\ d.state = "Kex"
      /\ d.my_kex = kex /\ d.his_kex = NoKex /\ d.in_key = in /\ d.out_key = out
      /\ d.pending_key = NoKey
      /\ t.initiator = No /\ t.out_key = out /\ t.outbound = <<own>>
  BY Fields
<1>8. Drained(t) = d
  BY Draining
<1>9. own = Under(out, 0, Kex(kex)) /\ own.key = out
  BY <1>1, UnderKey DEF Under
<1> HIDE DEF t, d, own
<1>10. ASSUME AtRest(x, y, toX, toY)
       PROVE  Phase(x, d, toX \o <<own>>, toY) /\ Len(toX) < 2
  <2>1. toX = NoRecords
    BY <1>10 DEF AtRest
  <2>2. toX \o <<own>> = <<own>>
    BY <1>5, <2>1, EmptyJoins
  <2>3. YBegan(x, d, toX \o <<own>>, toY)
    BY <1>10, <1>1, <1>7, <1>9, <2>2 DEF AtRest, YBegan, Began, Rests, SameKeys, KexOfEnd, Keyed
  <2>4. Phase(x, d, toX \o <<own>>, toY) /\ Len(toX) < 2
    BY <2>3, <2>1, NoneYet DEF Phase
  <2>5. QED
    BY <2>4
<1>11. ASSUME XBegan(x, y, toX, toY)
       PROVE  Phase(x, d, toX \o <<own>>, toY) /\ Len(toX) < 2
  <2>1. toX = NoRecords
    BY <1>11 DEF XBegan
  <2>2. toX \o <<own>> = <<own>>
    BY <1>5, <2>1, EmptyJoins
  <2>3. BothBegan(x, d, toX \o <<own>>, toY)
    BY <1>11, <1>1, <1>7, <1>9, <2>2 DEF XBegan, BothBegan, Began, Rests, Counts, SameKeys,
       KexOfEnd, Keyed
  <2>4. Phase(x, d, toX \o <<own>>, toY) /\ Len(toX) < 2
    BY <2>3, <2>1, NoneYet DEF Phase
  <2>5. QED
    BY <2>4
<1>12. ASSUME XWaits(x, y, toX, toY)
       PROVE  Phase(x, d, toX \o <<own>>, toY) /\ Len(toX) < 2
  <2> DEFINE ack == Under(x.in_key, 0, Ack)
  <2>1. toX = <<ack>>
    BY <1>12, <1>2 DEF XWaits, AckOfPeer, Rests, Began
  <2>2. ack \in Record
    BY EndFields, Typed
  <2> HIDE DEF ack
  <2>3. toX \o <<own>> = <<ack, own>> /\ Len(toX) = 1
    BY <1>5, <2>1, <2>2, OneJoins, OneTail
  <2>4. XWaits(x, d, toX \o <<own>>, toY)
    BY <1>12, <1>1, <1>2, <1>7, <1>9, <2>1, <2>3 DEF XWaits, Began, Rests, KexOfEnd, Keyed,
       AckOfPeer, ack
  <2>5. Phase(x, d, toX \o <<own>>, toY) /\ Len(toX) < 2
    BY <2>4, <2>3, NoneYet DEF Phase
  <2>6. QED
    BY <2>5
<1>13. ASSUME YFirst(x, y, toX, toY)
       PROVE  Phase(x, d, toX \o <<own>>, toY) /\ Len(toX) < 2
  <2> DEFINE sig == Under(x.in_key, 1, Sig(No, x.his_kex, x.my_kex, "stream"))
  <2>1. toX = <<sig>> /\ SigOfPeer(x) = sig
    BY <1>13, <1>2, EndFields, Initiators DEF YFirst, SigOfPeer, Rests, Began, Ends
  <2>2. sig \in Record
    BY EndFields, Typed DEF No
  <2> HIDE DEF sig
  <2>3. toX \o <<own>> = <<sig, own>> /\ Len(toX) = 1
    BY <1>5, <2>1, <2>2, OneJoins, OneTail
  <2>4. YFirst(x, d, toX \o <<own>>, toY)
    BY <1>13, <1>1, <1>2, <1>7, <1>9, <2>1, <2>3 DEF YFirst, Began, Rests, KexOfEnd, Keyed
  <2>5. Phase(x, d, toX \o <<own>>, toY) /\ Len(toX) < 2
    BY <2>4, <2>3, NoneYet DEF Phase
  <2>6. QED
    BY <2>5
<1>14. Phase(x, d, toX \o <<own>>, toY) /\ Len(toX) < 2
  BY <1>2, <1>10, <1>11, <1>12, <1>13 DEF Phase, XBegan, YBegan, BothBegan, YSigns, XSigned,
     BothSign, YDone, BothDone, XWaits, YWaits, YFirst, Rests, Began, Signs, Waits
<1>15. Queues(y, t, toX)
  BY <1>5, <1>7, <1>9, <1>14 DEF Queues
<1> HIDE DEF in, out, nin, nout
<1>16. QED
  BY <1>4, <1>6, <1>7, <1>8, <1>14, <1>15

-----------------------------------------------------------------------------
(* What the ends queue joins the wires.                                    *)
LEMMA CarriesQueued ==
    ASSUME NEW s, NEW t, NEW w \in Seq(Record), NEW hs \in Seq(Record),
           Carries(w, hs, s.out_key), Queues(s, t, hs)
    PROVE  /\ Carries(w \o t.outbound, hs \o t.outbound, t.out_key)
           /\ w \o t.outbound \in Seq(Record) /\ hs \o t.outbound \in Seq(Record)
<1>1. CASE /\ t.outbound = NoRecords
           /\ t.out_key = s.out_key \/ (s.out_key = NoKey /\ hs = NoRecords)
  <2>1. w \o t.outbound = w /\ hs \o t.outbound = hs
    BY <1>1, EmptyJoins
  <2>2. Carries(w, hs, t.out_key)
    <3>1. CASE t.out_key = s.out_key
      BY <3>1
    <3>2. CASE s.out_key = NoKey /\ hs = NoRecords
      <4>1. Plain(w, hs, s.out_key)
        BY <3>2, NoneYet DEF Carries, Plain, WithOne, WithTwo
      <4>2. \A n \in 1 .. Len(w) : FALSE
        BY <3>2, <4>1 DEF Plain, IsData
      <4>3. Plain(w, hs, t.out_key)
        BY <4>1, <4>2 DEF Plain
      <4>4. QED
        BY <4>3 DEF Carries
    <3>3. QED
      BY <1>1, <3>1, <3>2
  <2>3. QED
    BY <2>1, <2>2
<1>2. ASSUME NEW a \in Record, t.outbound = <<a>>, a.key = s.out_key, Len(hs) < 2
      PROVE  /\ Carries(w \o t.outbound, hs \o t.outbound, t.out_key)
             /\ w \o t.outbound \in Seq(Record) /\ hs \o t.outbound \in Seq(Record)
  <2>1. Carries(Append(w, a), Append(hs, a), t.out_key)
    BY <1>2, CarriesOneMoreHandshake
  <2>2. w \o <<a>> = Append(w, a) /\ hs \o <<a>> = Append(hs, a)
    BY AppendIsConcat
  <2>3. Append(w, a) \in Seq(Record) /\ Append(hs, a) \in Seq(Record)
    OBVIOUS
  <2>4. QED
    BY <1>2, <2>1, <2>2, <2>3
<1>3. ASSUME NEW a \in Record, NEW b \in Record, t.outbound = <<a, b>>, hs = NoRecords,
             a.key = s.out_key, b.key = s.out_key
      PROVE  /\ Carries(w \o t.outbound, hs \o t.outbound, t.out_key)
             /\ w \o t.outbound \in Seq(Record) /\ hs \o t.outbound \in Seq(Record)
  <2> DEFINE v == Append(w, a)
  <2>1. Append(hs, a) = <<a>> /\ Append(<<a>>, b) = <<a, b>> /\ Len(hs) < 2
    BY <1>3, One, Two, NoneYet
  <2>2. <<a>> \in Seq(Record) /\ <<a, b>> \in Seq(Record) /\ Len(<<a>>) < 2
    OBVIOUS
  <2>3. v \in Seq(Record) /\ Append(v, b) \in Seq(Record)
    OBVIOUS
  <2>4. Carries(v, <<a>>, b.key)
    BY <1>3, <2>1, CarriesOneMoreHandshake
  <2>5. w \o <<a, b>> = Append(v, b)
    <3>1. <<a, b>> = <<a>> \o <<b>>
      BY OneJoins
    <3>2. w \o <<a>> = v /\ v \o <<b>> = Append(v, b)
      BY <2>3, AppendIsConcat
    <3>3. w \o (<<a>> \o <<b>>) = (w \o <<a>>) \o <<b>>
      <4>1. <<a>> \in Seq(Record) /\ <<b>> \in Seq(Record)
        OBVIOUS
      <4>2. QED
        BY <4>1, ConcatAssociative
    <3>4. QED
      BY <3>1, <3>2, <3>3
  <2> HIDE DEF v
  <2>6. Carries(Append(v, b), Append(<<a>>, b), t.out_key)
    BY <2>2, <2>3, <2>4, CarriesOneMoreHandshake
  <2>7. hs \o <<a, b>> = <<a, b>>
    BY <1>3, <2>2, EmptyJoins
  <2>8. QED
    BY <1>3, <2>1, <2>2, <2>3, <2>5, <2>6, <2>7
<1>4. QED
  BY <1>1, <1>2, <1>3 DEF Queues

-----------------------------------------------------------------------------
(* The handshake record at the head of a wire is always the expected one.  *)
LEMMA XReads ==
    ASSUME MaxKex \in Nat, NEW x, NEW y, Ends(x, y), NEW toX, NEW toY,
           Phase(x, y, toX, toY), toX # NoRecords, NEW kex \in Kexes, kex # NoKex
    PROVE  XGoesOn(x, y, toX, toY, ReceiveDatagram(x, toX[1], kex))
<1>1. /\ ~AtRest(x, y, toX, toY)
      /\ ~XBegan(x, y, toX, toY)
      /\ ~XSigned(x, y, toX, toY)
      /\ ~BothSign(x, y, toX, toY)
      /\ ~YWaits(x, y, toX, toY)
  BY DEF AtRest, XBegan, XSigned, BothSign, YWaits
<1>2. CASE YBegan(x, y, toX, toY)
  BY <1>2, XReadsYBegan
<1>3. CASE BothBegan(x, y, toX, toY)
  BY <1>3, XReadsBothBegan
<1>4. CASE YSigns(x, y, toX, toY)
  BY <1>4, XReadsYSigns
<1>5. CASE YDone(x, y, toX, toY)
  BY <1>5, XReadsYDone
<1>6. CASE BothDone(x, y, toX, toY)
  BY <1>6, XReadsBothDone
<1>7. CASE XWaits(x, y, toX, toY)
  <2>1. Rests(y) \/ Began(y)
    BY <1>7 DEF XWaits
  <2>2. QED
    BY <1>7, <2>1, XReadsXWaits, XReadsXWaitsFurther
<1>8. CASE YFirst(x, y, toX, toY)
  <2>1. Rests(y) \/ Began(y)
    BY <1>8 DEF YFirst
  <2>2. QED
    BY <1>8, <2>1, XReadsYFirst, XReadsYFirstFurther
<1>9. QED
  BY <1>1, <1>2, <1>3, <1>4, <1>5, <1>6, <1>7, <1>8 DEF Phase

LEMMA YReads ==
    ASSUME MaxKex \in Nat, NEW x, NEW y, Ends(x, y), NEW toX, NEW toY,
           Phase(x, y, toX, toY), toY # NoRecords, NEW kex \in Kexes, kex # NoKex
    PROVE  YGoesOn(x, y, toX, toY, ReceiveDatagram(y, toY[1], kex))
<1>1. /\ ~AtRest(x, y, toX, toY)
      /\ ~YBegan(x, y, toX, toY)
      /\ ~YSigns(x, y, toX, toY)
      /\ ~YDone(x, y, toX, toY)
      /\ ~XWaits(x, y, toX, toY)
      /\ ~YFirst(x, y, toX, toY)
  BY DEF AtRest, YBegan, YSigns, YDone, XWaits, YFirst
<1>2. CASE XBegan(x, y, toX, toY)
  BY <1>2, YReadsXBegan
<1>3. CASE BothBegan(x, y, toX, toY)
  BY <1>3, YReadsBothBegan
<1>4. CASE XSigned(x, y, toX, toY)
  BY <1>4, YReadsXSigned
<1>5. CASE BothSign(x, y, toX, toY)
  BY <1>5, YReadsBothSignFirst, YReadsBothSignLater
<1>6. CASE BothDone(x, y, toX, toY)
  BY <1>6, YReadsBothDone
<1>7. CASE YWaits(x, y, toX, toY)
  <2>1. Rests(x) \/ Began(x)
    BY <1>7 DEF YWaits
  <2>2. QED
    BY <1>7, <2>1, YReadsYWaits, YReadsYWaitsFurther
<1>8. QED
  BY <1>1, <1>2, <1>3, <1>4, <1>5, <1>6, <1>7 DEF Phase

(* So is the key of an application record that comes before it, or after   *)
(* the last one.                                                           *)
LEMMA XOpens ==
    ASSUME MaxKex \in Nat, NEW x, NEW y, Ends(x, y), NEW toX, NEW toY, Phase(x, y, toX, toY)
    PROVE  /\ toX = NoRecords => y.out_key \in {NoKey, x.in_key}
           /\ toX # NoRecords => toX[1].key = x.in_key
<1>1. \A key, n, p : Under(key, n, p).key = key
  BY DEF Under
<1>2. \A a : <<a>> # NoRecords /\ <<a>>[1] = a
  BY DEF NoRecords
<1>3. \A a, b : <<a, b>> # NoRecords /\ <<a, b>>[1] = a
  BY DEF NoRecords
<1>4. /\ \A m : OutKey(x, m) = SealedBy(Yes, m) /\ InKey(x, m) = SealedBy(No, m)
      /\ \A m : OutKey(y, m) = SealedBy(No, m) /\ InKey(y, m) = SealedBy(Yes, m)
  BY EndFields, Initiators, Responders DEF Ends
<1>5. CASE AtRest(x, y, toX, toY)
  BY <1>1, <1>2, <1>3, <1>4, <1>5 DEF AtRest, Rests, Began, Signs, Waits, SameKeys, KexOfEnd,
     SigOfPeer, AckOfPeer
<1>6. CASE XBegan(x, y, toX, toY)
  BY <1>1, <1>2, <1>3, <1>4, <1>6 DEF XBegan, Rests, Began, Signs, Waits, SameKeys, KexOfEnd,
     SigOfPeer, AckOfPeer
<1>7. CASE YBegan(x, y, toX, toY)
  BY <1>1, <1>2, <1>3, <1>4, <1>7 DEF YBegan, Rests, Began, Signs, Waits, SameKeys, KexOfEnd,
     SigOfPeer, AckOfPeer
<1>8. CASE BothBegan(x, y, toX, toY)
  BY <1>1, <1>2, <1>3, <1>4, <1>8 DEF BothBegan, Rests, Began, Signs, Waits, SameKeys,
     KexOfEnd, SigOfPeer, AckOfPeer
<1>9. CASE YSigns(x, y, toX, toY)
  BY <1>1, <1>2, <1>3, <1>4, <1>9 DEF YSigns, Rests, Began, Signs, Waits, SameKeys, KexOfEnd,
     SigOfPeer, AckOfPeer
<1>10. CASE XSigned(x, y, toX, toY)
  BY <1>1, <1>2, <1>3, <1>4, <1>10 DEF XSigned, Rests, Began, Signs, Waits, SameKeys, KexOfEnd,
     SigOfPeer, AckOfPeer
<1>11. CASE BothSign(x, y, toX, toY)
  BY <1>1, <1>2, <1>3, <1>4, <1>11 DEF BothSign, Rests, Began, Signs, Waits, SameKeys,
     KexOfEnd, SigOfPeer, AckOfPeer
<1>12. CASE YDone(x, y, toX, toY)
  BY <1>1, <1>2, <1>3, <1>4, <1>12 DEF YDone, Rests, Began, Signs, Waits, SameKeys, KexOfEnd,
     SigOfPeer, AckOfPeer
<1>13. CASE BothDone(x, y, toX, toY)
  BY <1>1, <1>2, <1>3, <1>4, <1>13 DEF BothDone, Rests, Began, Signs, Waits, SameKeys,
     KexOfEnd, SigOfPeer, AckOfPeer
<1>14. CASE XWaits(x, y, toX, toY)
  BY <1>1, <1>2, <1>3, <1>4, <1>14 DEF XWaits, Rests, Began, Signs, Waits, SameKeys, KexOfEnd,
     SigOfPeer, AckOfPeer
<1>15. CASE YWaits(x, y, toX, toY)
  BY <1>1, <1>2, <1>3, <1>4, <1>15 DEF YWaits, Rests, Began, Signs, Waits, SameKeys, KexOfEnd,
     SigOfPeer, AckOfPeer
<1>16. CASE YFirst(x, y, toX, toY)
  BY <1>1, <1>2, <1>3, <1>4, <1>16 DEF YFirst, Rests, Began, Signs, Waits, SameKeys, KexOfEnd,
     SigOfPeer, AckOfPeer
<1>17. QED
  BY <1>5, <1>6, <1>7, <1>8, <1>9, <1>10, <1>11, <1>12, <1>13, <1>14, <1>15, <1>16 DEF Phase

LEMMA YOpens ==
    ASSUME MaxKex \in Nat, NEW x, NEW y, Ends(x, y), NEW toX, NEW toY, Phase(x, y, toX, toY)
    PROVE  /\ toY = NoRecords => x.out_key \in {NoKey, y.in_key}
           /\ toY # NoRecords => toY[1].key = y.in_key
<1>1. \A key, n, p : Under(key, n, p).key = key
  BY DEF Under
<1>2. \A a : <<a>> # NoRecords /\ <<a>>[1] = a
  BY DEF NoRecords
<1>3. \A a, b : <<a, b>> # NoRecords /\ <<a, b>>[1] = a
  BY DEF NoRecords
<1>4. /\ \A m : OutKey(x, m) = SealedBy(Yes, m) /\ InKey(x, m) = SealedBy(No, m)
      /\ \A m : OutKey(y, m) = SealedBy(No, m) /\ InKey(y, m) = SealedBy(Yes, m)
  BY EndFields, Initiators, Responders DEF Ends
<1>5. CASE AtRest(x, y, toX, toY)
  BY <1>1, <1>2, <1>3, <1>4, <1>5 DEF AtRest, Rests, Began, Signs, Waits, SameKeys, KexOfEnd,
     SigOfPeer, AckOfPeer
<1>6. CASE XBegan(x, y, toX, toY)
  BY <1>1, <1>2, <1>3, <1>4, <1>6 DEF XBegan, Rests, Began, Signs, Waits, SameKeys, KexOfEnd,
     SigOfPeer, AckOfPeer
<1>7. CASE YBegan(x, y, toX, toY)
  BY <1>1, <1>2, <1>3, <1>4, <1>7 DEF YBegan, Rests, Began, Signs, Waits, SameKeys, KexOfEnd,
     SigOfPeer, AckOfPeer
<1>8. CASE BothBegan(x, y, toX, toY)
  BY <1>1, <1>2, <1>3, <1>4, <1>8 DEF BothBegan, Rests, Began, Signs, Waits, SameKeys,
     KexOfEnd, SigOfPeer, AckOfPeer
<1>9. CASE YSigns(x, y, toX, toY)
  BY <1>1, <1>2, <1>3, <1>4, <1>9 DEF YSigns, Rests, Began, Signs, Waits, SameKeys, KexOfEnd,
     SigOfPeer, AckOfPeer
<1>10. CASE XSigned(x, y, toX, toY)
  BY <1>1, <1>2, <1>3, <1>4, <1>10 DEF XSigned, Rests, Began, Signs, Waits, SameKeys, KexOfEnd,
     SigOfPeer, AckOfPeer
<1>11. CASE BothSign(x, y, toX, toY)
  BY <1>1, <1>2, <1>3, <1>4, <1>11 DEF BothSign, Rests, Began, Signs, Waits, SameKeys,
     KexOfEnd, SigOfPeer, AckOfPeer
<1>12. CASE YDone(x, y, toX, toY)
  BY <1>1, <1>2, <1>3, <1>4, <1>12 DEF YDone, Rests, Began, Signs, Waits, SameKeys, KexOfEnd,
     SigOfPeer, AckOfPeer
<1>13. CASE BothDone(x, y, toX, toY)
  BY <1>1, <1>2, <1>3, <1>4, <1>13 DEF BothDone, Rests, Began, Signs, Waits, SameKeys,
     KexOfEnd, SigOfPeer, AckOfPeer
<1>14. CASE XWaits(x, y, toX, toY)
  BY <1>1, <1>2, <1>3, <1>4, <1>14 DEF XWaits, Rests, Began, Signs, Waits, SameKeys, KexOfEnd,
     SigOfPeer, AckOfPeer
<1>15. CASE YWaits(x, y, toX, toY)
  BY <1>1, <1>2, <1>3, <1>4, <1>15 DEF YWaits, Rests, Began, Signs, Waits, SameKeys, KexOfEnd,
     SigOfPeer, AckOfPeer
<1>16. CASE YFirst(x, y, toX, toY)
  BY <1>1, <1>2, <1>3, <1>4, <1>16 DEF YFirst, Rests, Began, Signs, Waits, SameKeys, KexOfEnd,
     SigOfPeer, AckOfPeer
<1>17. QED
  BY <1>5, <1>6, <1>7, <1>8, <1>9, <1>10, <1>11, <1>12, <1>13, <1>14, <1>15, <1>16 DEF Phase

-----------------------------------------------------------------------------
(* The invariant: the ends are in one of the phases, and the wires carry   *)
(* its handshake records among application records.                        *)
I == "initiator"
R == "responder"

Exchange(toI, toR) ==
    /\ Phase(session[I], session[R], toI, toR)
    /\ Carries(wire[I], toI, session[R].out_key)
    /\ Carries(wire[R], toR, session[I].out_key)

StreamInv ==
    /\ failed = {}
    /\ session \in [End -> Session] /\ wire \in [End -> Seq(Record)]
    /\ Ends(session[I], session[R])
    /\ \E toI, toR \in Seq(Record) : Exchange(toI, toR)

(* A new key is a number that is no absence.                               *)
LEMMA FreshKex ==
    ASSUME MaxKex \in Nat, NEW kex \in Fresh
    PROVE  kex \in Kexes /\ kex # NoKex
BY DEF Fresh, Kexes, NoKex

(* The ends keep their roles when a session is replaced.                   *)
LEMMA Replacing ==
    ASSUME StreamInv, NEW s \in Session, NEW v \in [End -> Seq(Record)], NEW e \in End,
           Becomes(e, s, v), s.outbound \in Seq(Record), Drained(s) \in Session
    PROVE  /\ e = I => session'[I] = Drained(s) /\ session'[R] = session[R]
                       /\ wire'[R] = v[R] \o s.outbound /\ wire'[I] = v[I]
           /\ e = R => session'[R] = Drained(s) /\ session'[I] = session[I]
                       /\ wire'[I] = v[I] \o s.outbound /\ wire'[R] = v[R]
           /\ session' \in [End -> Session] /\ wire' \in [End -> Seq(Record)]
<1>1. session \in [End -> Session]
  BY DEF StreamInv
<1>2. I \in End /\ R \in End /\ I # R /\ Other(I) = R /\ Other(R) = I /\ End = {I, R}
  BY DEF End, I, R, Other
<1> HIDE DEF I, R
<1>3. session' \in [End -> Session]
  BY <1>1 DEF Becomes
<1>4. /\ e = I => session'[I] = Drained(s) /\ session'[R] = session[R]
      /\ e = R => session'[R] = Drained(s) /\ session'[I] = session[I]
  BY <1>1, <1>2 DEF Becomes
<1>5. v[Other(e)] \o s.outbound \in Seq(Record)
  BY <1>2
<1>6. wire' \in [End -> Seq(Record)]
  BY <1>2, <1>5 DEF Becomes
<1>7. /\ e = I => wire'[R] = v[R] \o s.outbound /\ wire'[I] = v[I]
      /\ e = R => wire'[I] = v[I] \o s.outbound /\ wire'[R] = v[R]
  BY <1>2 DEF Becomes
<1>8. QED
  BY <1>3, <1>4, <1>6, <1>7

(* Draining keeps everything but the queue.                                *)
LEMMA DrainedIsSession ==
    ASSUME NEW s \in Session
    PROVE  /\ Drained(s) \in Session /\ Drained(s).initiator = s.initiator
           /\ Drained(s).outbound = NoRecords /\ Drained(s).out_key = s.out_key
           /\ s.outbound \in Seq(Record)
<1>1. NoRecords \in Seq(Record)
  BY EmptySeq DEF NoRecords
<1>2. QED
  BY <1>1 DEF Session, Drained, NoRecords

(* What the initiator does.                                                   *)
LEMMA InitiatorMoves ==
    ASSUME StreamInv, NEW s \in Session, s.initiator = Yes, NEW v \in [End -> Seq(Record)],
           Becomes(I, s, v), failed' = failed, NEW toI \in Seq(Record), NEW toR \in Seq(Record),
           Phase(Drained(s), session[R], toI, toR),
           Carries(v[I], toI, session[R].out_key),
           Carries(v[R] \o s.outbound, toR, s.out_key)
    PROVE  StreamInv'
<1>1. /\ Drained(s) \in Session /\ Drained(s).initiator = Yes
      /\ Drained(s).outbound = NoRecords /\ Drained(s).out_key = s.out_key
      /\ s.outbound \in Seq(Record)
  BY DrainedIsSession
<1>2. /\ session'[I] = Drained(s) /\ session'[R] = session[R]
      /\ wire'[R] = v[R] \o s.outbound /\ wire'[I] = v[I]
      /\ session' \in [End -> Session] /\ wire' \in [End -> Seq(Record)]
  BY <1>1, Replacing DEF End, I, R
<1>3. Exchange(toI, toR)'
  BY <1>1, <1>2 DEF Exchange
<1>4. Ends(session[I], session[R])'
  BY <1>1, <1>2 DEF StreamInv, Ends
<1>5. failed' = {}
  BY DEF StreamInv
<1>6. QED
  BY <1>2, <1>3, <1>4, <1>5 DEF StreamInv

LEMMA InitiatorReceives ==
    ASSUME MaxKex \in Nat, StreamInv, NEW kex \in Fresh, Receive(I, kex)
    PROVE  StreamInv'
<1> DEFINE x == session[I]
           y == session[R]
           w == wire[I]
           u == wire[R]
           r == ReceiveDatagram(x, Head(w), kex)
           v == [wire EXCEPT ![I] = Tail(@)]
<1>1. PICK toI \in Seq(Record), toR \in Seq(Record) :
          Phase(x, y, toI, toR) /\ Carries(wire[I], toI, y.out_key) /\ Carries(wire[R], toR,
              x.out_key)
  BY DEF StreamInv, Exchange
<1>2. /\ I \in End /\ R \in End /\ I # R
      /\ session \in [End -> Session] /\ wire \in [End -> Seq(Record)] /\ failed = {}
         /\ Ends(x, y)
  BY DEF StreamInv, End, I, R
<1>3. /\ w # <<>> /\ Becomes(I, r.s, v)
      /\ failed' = IF r.ok THEN failed ELSE failed \union {I}
  BY DEF Receive
<1>4. w \in Seq(Record) /\ u \in Seq(Record) /\ Tail(w) \in Seq(Record)
  BY <1>2, <1>3
<1>5. v \in [End -> Seq(Record)] /\ v[I] = Tail(w) /\ v[R] = u
  BY <1>2, <1>4
<1>6. kex \in Kexes /\ kex # NoKex
  BY FreshKex
<1>7. \/ /\ IsData(Head(w), IF toI = <<>> THEN y.out_key ELSE toI[1].key)
         /\ Carries(Tail(w), toI, y.out_key)
      \/ /\ toI # <<>> /\ Head(w) = toI[1]
         /\ Carries(Tail(w), Tail(toI), y.out_key)
  BY <1>1, <1>3, <1>4, CarriesOneLess
<1> HIDE DEF x, y, w, u, v
<1>8. CASE /\ IsData(Head(w), IF toI = <<>> THEN y.out_key ELSE toI[1].key)
           /\ Carries(Tail(w), toI, y.out_key)
  <2>1. IsData(Head(w), x.in_key)
    <3>1. /\ toI = <<>> => y.out_key \in {NoKey, x.in_key}
          /\ toI # <<>> => toI[1].key = x.in_key
      BY <1>1, <1>2, XOpens DEF NoRecords
    <3>2. ~IsData(Head(w), NoKey)
      BY DEF IsData
    <3>3. QED
      BY <1>8, <3>1, <3>2
  <2>2. r = Went(x)
    BY <2>1, ReadsData
  <2>3. r.ok /\ r.s = x
    BY <2>2, Outcomes
  <2>4. x \in Session /\ x.initiator = Yes /\ x.outbound = NoRecords
    BY <1>2 DEF Ends
  <2>5. Drained(x) = x
    BY <2>4 DEF Drained, Session, NoRecords
  <2>6. u \o x.outbound = u
    BY <1>4, <2>4, EmptyJoins
  <2> HIDE DEF r
  <2>7. Becomes(I, x, v) /\ failed' = failed
    BY <1>3, <2>3
  <2>8. Phase(Drained(x), y, toI, toR) /\ Carries(v[I], toI, y.out_key)
        /\ Carries(v[R] \o x.outbound, toR, x.out_key)
    BY <1>1, <1>5, <1>8, <2>5, <2>6 DEF w, u
  <2>9. QED
    BY <1>5, <2>4, <2>7, <2>8, InitiatorMoves DEF x, y
<1>9. CASE /\ toI # <<>> /\ Head(w) = toI[1]
           /\ Carries(Tail(w), Tail(toI), y.out_key)
  <2>1. XGoesOn(x, y, toI, toR, r)
    BY <1>1, <1>2, <1>6, <1>9, XReads DEF NoRecords
  <2> DEFINE s == r.s
  <2>2. /\ r.ok /\ s \in Session /\ s.initiator = Yes
        /\ Phase(Drained(s), y, Tail(toI), toR \o s.outbound)
        /\ Queues(x, s, toR)
    BY <2>1 DEF XGoesOn
  <2>3. /\ Carries(u \o s.outbound, toR \o s.outbound, s.out_key)
        /\ toR \o s.outbound \in Seq(Record)
    BY <1>1, <1>4, <2>2, CarriesQueued DEF u, w
  <2>4. Tail(toI) \in Seq(Record)
    BY <1>9
  <2>5. Becomes(I, s, v) /\ failed' = failed
    BY <1>3, <2>2
  <2>6. /\ Carries(v[I], Tail(toI), y.out_key)
        /\ Carries(v[R] \o s.outbound, toR \o s.outbound, s.out_key)
    BY <1>5, <1>9, <2>3
  <2> HIDE DEF s, r
  <2>7. QED
    BY <1>5, <2>2, <2>3, <2>4, <2>5, <2>6, InitiatorMoves DEF x, y
<1>10. QED
  BY <1>7, <1>8, <1>9

LEMMA InitiatorForces ==
    ASSUME MaxKex \in Nat, StreamInv, NEW kex \in Fresh, Forces(I, kex)
    PROVE  StreamInv'
<1> DEFINE x == session[I]
           y == session[R]
           s == ForceKex(x, kex)
<1>1. PICK toI \in Seq(Record), toR \in Seq(Record) :
          Phase(x, y, toI, toR) /\ Carries(wire[I], toI, y.out_key) /\ Carries(wire[R], toR,
              x.out_key)
  BY DEF StreamInv, Exchange
<1>2. /\ I \in End /\ R \in End /\ I # R
      /\ session \in [End -> Session] /\ wire \in [End -> Seq(Record)] /\ Ends(x, y)
  BY DEF StreamInv, End, I, R
<1>3. CanForceKex(x) /\ Becomes(I, s, wire) /\ failed' = failed
  BY DEF Forces
<1>4. kex \in Kexes /\ kex # NoKex
  BY FreshKex
<1> HIDE DEF x, y
<1>5. /\ s \in Session /\ s.initiator = Yes
      /\ Phase(Drained(s), y, toI, toR \o s.outbound)
      /\ Queues(x, s, toR)
  BY <1>1, <1>2, <1>3, <1>4, XForces
<1>6. wire[R] \in Seq(Record)
  BY <1>2
<1>7. /\ Carries(wire[R] \o s.outbound, toR \o s.outbound, s.out_key)
      /\ toR \o s.outbound \in Seq(Record)
  BY <1>1, <1>5, <1>6, CarriesQueued
<1> HIDE DEF s
<1>8. QED
  BY <1>1, <1>2, <1>3, <1>5, <1>7, InitiatorMoves DEF x, y

LEMMA InitiatorSends ==
    ASSUME MaxKex \in Nat, StreamInv, Send(I)
    PROVE  StreamInv'
<1> DEFINE x == session[I]
           y == session[R]
           data == Encode(x, AppData)
           s == [x EXCEPT !.outbound = <<data>>]
<1>1. PICK toI \in Seq(Record), toR \in Seq(Record) :
          Phase(x, y, toI, toR) /\ Carries(wire[I], toI, y.out_key) /\ Carries(wire[R], toR,
              x.out_key)
  BY DEF StreamInv, Exchange
<1>2. /\ I \in End /\ R \in End /\ I # R
      /\ session \in [End -> Session] /\ wire \in [End -> Seq(Record)] /\ Ends(x, y)
  BY DEF StreamInv, End, I, R
<1>3. IsEstablished(x) /\ Becomes(I, s, wire) /\ failed' = failed
  BY DEF Send
<1> HIDE DEF x, y
<1>4. IsData(data, x.out_key)
  BY <1>3 DEF IsEstablished, IsData, Encode
<1>5. data \in Record
  <2>1. x.out_key \in Keys /\ AppData \in Payload /\ data = [key |-> x.out_key, seq |-> 0,
        payload |-> AppData]
    BY <1>2, <1>4, EndFields, Typed DEF IsData
  <2> HIDE DEF data
  <2>2. QED
    BY <2>1 DEF Record
<1> HIDE DEF data
<1>6. x \in Session /\ x.initiator = Yes /\ x.outbound = NoRecords
  BY <1>2 DEF Ends
<1>7. s \in Session /\ s.initiator = Yes /\ s.outbound = <<data>> /\ s.out_key = x.out_key
  <2>1. <<data>> \in Seq(Record)
    BY <1>5
  <2>2. QED
    BY <1>6, <2>1 DEF Session
<1>8. Drained(s) = x
  BY <1>6 DEF Drained, Session, NoRecords
<1>9. /\ wire[R] \in Seq(Record) /\ wire[R] \o <<data>> = Append(wire[R], data)
  BY <1>2, <1>5, AppendIsConcat
<1>10. Carries(wire[R] \o <<data>>, toR, x.out_key)
  BY <1>1, <1>4, <1>5, <1>9, CarriesOneMore
<1> HIDE DEF s
<1>11. QED
  BY <1>1, <1>2, <1>3, <1>7, <1>8, <1>10, InitiatorMoves DEF x, y

(* What the responder does.                                                   *)
LEMMA ResponderMoves ==
    ASSUME StreamInv, NEW s \in Session, s.initiator = No, NEW v \in [End -> Seq(Record)],
           Becomes(R, s, v), failed' = failed, NEW toI \in Seq(Record), NEW toR \in Seq(Record),
           Phase(session[I], Drained(s), toI, toR),
           Carries(v[R], toR, session[I].out_key),
           Carries(v[I] \o s.outbound, toI, s.out_key)
    PROVE  StreamInv'
<1>1. /\ Drained(s) \in Session /\ Drained(s).initiator = No
      /\ Drained(s).outbound = NoRecords /\ Drained(s).out_key = s.out_key
      /\ s.outbound \in Seq(Record)
  BY DrainedIsSession
<1>2. /\ session'[R] = Drained(s) /\ session'[I] = session[I]
      /\ wire'[I] = v[I] \o s.outbound /\ wire'[R] = v[R]
      /\ session' \in [End -> Session] /\ wire' \in [End -> Seq(Record)]
  BY <1>1, Replacing DEF End, I, R
<1>3. Exchange(toI, toR)'
  BY <1>1, <1>2 DEF Exchange
<1>4. Ends(session[I], session[R])'
  BY <1>1, <1>2 DEF StreamInv, Ends
<1>5. failed' = {}
  BY DEF StreamInv
<1>6. QED
  BY <1>2, <1>3, <1>4, <1>5 DEF StreamInv

LEMMA ResponderReceives ==
    ASSUME MaxKex \in Nat, StreamInv, NEW kex \in Fresh, Receive(R, kex)
    PROVE  StreamInv'
<1> DEFINE x == session[I]
           y == session[R]
           w == wire[R]
           u == wire[I]
           r == ReceiveDatagram(y, Head(w), kex)
           v == [wire EXCEPT ![R] = Tail(@)]
<1>1. PICK toI \in Seq(Record), toR \in Seq(Record) :
          Phase(x, y, toI, toR) /\ Carries(wire[I], toI, y.out_key) /\ Carries(wire[R], toR,
              x.out_key)
  BY DEF StreamInv, Exchange
<1>2. /\ I \in End /\ R \in End /\ I # R
      /\ session \in [End -> Session] /\ wire \in [End -> Seq(Record)] /\ failed = {}
         /\ Ends(x, y)
  BY DEF StreamInv, End, I, R
<1>3. /\ w # <<>> /\ Becomes(R, r.s, v)
      /\ failed' = IF r.ok THEN failed ELSE failed \union {R}
  BY DEF Receive
<1>4. w \in Seq(Record) /\ u \in Seq(Record) /\ Tail(w) \in Seq(Record)
  BY <1>2, <1>3
<1>5. v \in [End -> Seq(Record)] /\ v[R] = Tail(w) /\ v[I] = u
  BY <1>2, <1>4
<1>6. kex \in Kexes /\ kex # NoKex
  BY FreshKex
<1>7. \/ /\ IsData(Head(w), IF toR = <<>> THEN x.out_key ELSE toR[1].key)
         /\ Carries(Tail(w), toR, x.out_key)
      \/ /\ toR # <<>> /\ Head(w) = toR[1]
         /\ Carries(Tail(w), Tail(toR), x.out_key)
  BY <1>1, <1>3, <1>4, CarriesOneLess
<1> HIDE DEF x, y, w, u, v
<1>8. CASE /\ IsData(Head(w), IF toR = <<>> THEN x.out_key ELSE toR[1].key)
           /\ Carries(Tail(w), toR, x.out_key)
  <2>1. IsData(Head(w), y.in_key)
    <3>1. /\ toR = <<>> => x.out_key \in {NoKey, y.in_key}
          /\ toR # <<>> => toR[1].key = y.in_key
      BY <1>1, <1>2, YOpens DEF NoRecords
    <3>2. ~IsData(Head(w), NoKey)
      BY DEF IsData
    <3>3. QED
      BY <1>8, <3>1, <3>2
  <2>2. r = Went(y)
    BY <2>1, ReadsData
  <2>3. r.ok /\ r.s = y
    BY <2>2, Outcomes
  <2>4. y \in Session /\ y.initiator = No /\ y.outbound = NoRecords
    BY <1>2 DEF Ends
  <2>5. Drained(y) = y
    BY <2>4 DEF Drained, Session, NoRecords
  <2>6. u \o y.outbound = u
    BY <1>4, <2>4, EmptyJoins
  <2> HIDE DEF r
  <2>7. Becomes(R, y, v) /\ failed' = failed
    BY <1>3, <2>3
  <2>8. Phase(x, Drained(y), toI, toR) /\ Carries(v[R], toR, x.out_key)
        /\ Carries(v[I] \o y.outbound, toI, y.out_key)
    BY <1>1, <1>5, <1>8, <2>5, <2>6 DEF w, u
  <2>9. QED
    BY <1>5, <2>4, <2>7, <2>8, ResponderMoves DEF x, y
<1>9. CASE /\ toR # <<>> /\ Head(w) = toR[1]
           /\ Carries(Tail(w), Tail(toR), x.out_key)
  <2>1. YGoesOn(x, y, toI, toR, r)
    BY <1>1, <1>2, <1>6, <1>9, YReads DEF NoRecords
  <2> DEFINE s == r.s
  <2>2. /\ r.ok /\ s \in Session /\ s.initiator = No
        /\ Phase(x, Drained(s), toI \o s.outbound, Tail(toR))
        /\ Queues(y, s, toI)
    BY <2>1 DEF YGoesOn
  <2>3. /\ Carries(u \o s.outbound, toI \o s.outbound, s.out_key)
        /\ toI \o s.outbound \in Seq(Record)
    BY <1>1, <1>4, <2>2, CarriesQueued DEF u, w
  <2>4. Tail(toR) \in Seq(Record)
    BY <1>9
  <2>5. Becomes(R, s, v) /\ failed' = failed
    BY <1>3, <2>2
  <2>6. /\ Carries(v[R], Tail(toR), x.out_key)
        /\ Carries(v[I] \o s.outbound, toI \o s.outbound, s.out_key)
    BY <1>5, <1>9, <2>3
  <2> HIDE DEF s, r
  <2>7. QED
    BY <1>5, <2>2, <2>3, <2>4, <2>5, <2>6, ResponderMoves DEF x, y
<1>10. QED
  BY <1>7, <1>8, <1>9

LEMMA ResponderForces ==
    ASSUME MaxKex \in Nat, StreamInv, NEW kex \in Fresh, Forces(R, kex)
    PROVE  StreamInv'
<1> DEFINE x == session[I]
           y == session[R]
           s == ForceKex(y, kex)
<1>1. PICK toI \in Seq(Record), toR \in Seq(Record) :
          Phase(x, y, toI, toR) /\ Carries(wire[I], toI, y.out_key) /\ Carries(wire[R], toR,
              x.out_key)
  BY DEF StreamInv, Exchange
<1>2. /\ I \in End /\ R \in End /\ I # R
      /\ session \in [End -> Session] /\ wire \in [End -> Seq(Record)] /\ Ends(x, y)
  BY DEF StreamInv, End, I, R
<1>3. CanForceKex(y) /\ Becomes(R, s, wire) /\ failed' = failed
  BY DEF Forces
<1>4. kex \in Kexes /\ kex # NoKex
  BY FreshKex
<1> HIDE DEF x, y
<1>5. /\ s \in Session /\ s.initiator = No
      /\ Phase(x, Drained(s), toI \o s.outbound, toR)
      /\ Queues(y, s, toI)
  BY <1>1, <1>2, <1>3, <1>4, YForces
<1>6. wire[I] \in Seq(Record)
  BY <1>2
<1>7. /\ Carries(wire[I] \o s.outbound, toI \o s.outbound, s.out_key)
      /\ toI \o s.outbound \in Seq(Record)
  BY <1>1, <1>5, <1>6, CarriesQueued
<1> HIDE DEF s
<1>8. QED
  BY <1>1, <1>2, <1>3, <1>5, <1>7, ResponderMoves DEF x, y

LEMMA ResponderSends ==
    ASSUME MaxKex \in Nat, StreamInv, Send(R)
    PROVE  StreamInv'
<1> DEFINE x == session[I]
           y == session[R]
           data == Encode(y, AppData)
           s == [y EXCEPT !.outbound = <<data>>]
<1>1. PICK toI \in Seq(Record), toR \in Seq(Record) :
          Phase(x, y, toI, toR) /\ Carries(wire[I], toI, y.out_key) /\ Carries(wire[R], toR,
              x.out_key)
  BY DEF StreamInv, Exchange
<1>2. /\ I \in End /\ R \in End /\ I # R
      /\ session \in [End -> Session] /\ wire \in [End -> Seq(Record)] /\ Ends(x, y)
  BY DEF StreamInv, End, I, R
<1>3. IsEstablished(y) /\ Becomes(R, s, wire) /\ failed' = failed
  BY DEF Send
<1> HIDE DEF x, y
<1>4. IsData(data, y.out_key)
  BY <1>3 DEF IsEstablished, IsData, Encode
<1>5. data \in Record
  <2>1. y.out_key \in Keys /\ AppData \in Payload /\ data = [key |-> y.out_key, seq |-> 0,
        payload |-> AppData]
    BY <1>2, <1>4, EndFields, Typed DEF IsData
  <2> HIDE DEF data
  <2>2. QED
    BY <2>1 DEF Record
<1> HIDE DEF data
<1>6. y \in Session /\ y.initiator = No /\ y.outbound = NoRecords
  BY <1>2 DEF Ends
<1>7. s \in Session /\ s.initiator = No /\ s.outbound = <<data>> /\ s.out_key = y.out_key
  <2>1. <<data>> \in Seq(Record)
    BY <1>5
  <2>2. QED
    BY <1>6, <2>1 DEF Session
<1>8. Drained(s) = y
  BY <1>6 DEF Drained, Session, NoRecords
<1>9. /\ wire[I] \in Seq(Record) /\ wire[I] \o <<data>> = Append(wire[I], data)
  BY <1>2, <1>5, AppendIsConcat
<1>10. Carries(wire[I] \o <<data>>, toI, y.out_key)
  BY <1>1, <1>4, <1>5, <1>9, CarriesOneMore
<1> HIDE DEF s
<1>11. QED
  BY <1>1, <1>2, <1>3, <1>7, <1>8, <1>10, ResponderMoves DEF x, y

-----------------------------------------------------------------------------
(* A session that was started.                                             *)
LEMMA Starting ==
    ASSUME MaxKex \in Nat, NEW i, NEW kex
    PROVE  Started(i, "stream", kex) =
           Of(i, "Kex", kex, NoKex, NoKey, NoKey, NoKey, 0, 1, <<Under(NoKey, 0, Kex(kex))>>)
<1> DEFINE first == Under(NoKey, 0, Kex(kex))
<1>1. Started(i, "stream", kex) =
      SendKex(Of(i, "Kex", NoKex, NoKex, NoKey, NoKey, NoKey, 0, 0, NoRecords), kex)
  BY DEF Started, Of, NoRecords
<1>2. SendKex(Of(i, "Kex", NoKex, NoKex, NoKey, NoKey, NoKey, 0, 0, NoRecords), kex) =
      Of(i, "Kex", kex, NoKex, NoKey, NoKey, NoKey, 0, Counted(NoKey, 0), Append(NoRecords,
          first))
  BY QueueingKex
<1>3. Counted(NoKey, 0) = 1 /\ Append(NoRecords, first) = <<first>>
  BY One DEF Counted
<1> HIDE DEF first
<1>4. QED
  BY <1>1, <1>2, <1>3 DEF first

(* A wire with a handshake record only.                                    *)
LEMMA CarriesFirst ==
    ASSUME NEW h \in Record, NEW last
    PROVE  Carries(<<h>>, <<h>>, last)
<1> DEFINE w == <<h>>
<1>1. Len(w) = 1 /\ w[1] = h
  OBVIOUS
<1> HIDE DEF w
<1>2. \A n \in 1 .. Len(w) : n = 1
  BY <1>1
<1>3. /\ 1 \in 1 .. Len(w) /\ w[1] = w[1]
      /\ \A n \in 1 .. Len(w) : /\ n < 1 => IsData(w[n], w[1].key)
                                /\ n > 1 => IsData(w[n], last)
  BY <1>1, <1>2
<1>4. WithOne(w, w, last)
  BY <1>1, <1>3 DEF WithOne
<1>5. QED
  BY <1>4 DEF Carries, w

(* The first exchange begins at both ends.                                 *)
LEMMA StreamStarts ==
    ASSUME MaxKex \in Nat, MaxKex >= 2, StreamInit
    PROVE  StreamInv
<1> DEFINE f == Under(NoKey, 0, Kex(1))
           g == Under(NoKey, 0, Kex(2))
           x == Of(Yes, "Kex", 1, NoKex, NoKey, NoKey, NoKey, 0, 1, NoRecords)
           y == Of(No, "Kex", 2, NoKex, NoKey, NoKey, NoKey, 0, 1, NoRecords)
           xs == Of(Yes, "Kex", 1, NoKex, NoKey, NoKey, NoKey, 0, 1, <<f>>)
           ys == Of(No, "Kex", 2, NoKex, NoKey, NoKey, NoKey, 0, 1, <<g>>)
           start == [e \in End |->
                        Started(e = "initiator", "stream", IF e = "initiator" THEN 1 ELSE 2)]
<1>1. Started(Yes, "stream", 1) = xs /\ Started(No, "stream", 2) = ys
  BY Starting
<1>2. Drained(xs) = x /\ Drained(ys) = y
  BY Draining
<1>3. xs.outbound = <<f>> /\ ys.outbound = <<g>>
  BY Fields
<1>4. 1 \in Kexes /\ 2 \in Kexes /\ 1 # NoKex /\ 2 # NoKex
  BY DEF Kexes, NoKex
<1>5. f \in Record /\ g \in Record /\ NoRecords \in Seq(Record)
  BY <1>4, Typed
<1>6. x \in Session /\ y \in Session
  <2>1. Yes \in BOOLEAN /\ No \in BOOLEAN
    BY DEF Yes, No
  <2>2. QED
    BY <1>4, <1>5, <2>1, OfIsSession, Typed
<1>7. /\ x.initiator = Yes /\ x.state = "Kex" /\ x.my_kex = 1 /\ x.his_kex = NoKex
      /\ x.in_key = NoKey /\ x.out_key = NoKey /\ x.pending_key = NoKey
      /\ x.in_seq = 0 /\ x.out_seq = 1 /\ x.outbound = NoRecords
  BY Fields
<1>8. /\ y.initiator = No /\ y.state = "Kex" /\ y.my_kex = 2 /\ y.his_kex = NoKex
      /\ y.in_key = NoKey /\ y.out_key = NoKey /\ y.pending_key = NoKey
      /\ y.in_seq = 0 /\ y.out_seq = 1 /\ y.outbound = NoRecords
  BY Fields
<1>9. I \in End /\ R \in End /\ Other(I) = R /\ Other(R) = I /\ End = {I, R} /\ I # R
  BY DEF End, I, R, Other
<1>10. start[I] = Started(Yes, "stream", 1) /\ start[R] = Started(No, "stream", 2)
  BY <1>9 DEF I, R, Yes, No
<1> HIDE DEF x, y, xs, ys, f, g
<1>11. /\ session = [e \in End |-> Drained(start[e])]
       /\ wire = [e \in End |-> start[Other(e)].outbound]
       /\ failed = {}
  BY DEF StreamInit
<1> HIDE DEF start, I, R
<1>12. /\ session[I] = x /\ session[R] = y /\ wire[I] = <<g>> /\ wire[R] = <<f>>
  BY <1>1, <1>2, <1>3, <1>9, <1>10, <1>11
<1>13. session \in [End -> Session] /\ wire \in [End -> Seq(Record)]
  <2>1. <<f>> \in Seq(Record) /\ <<g>> \in Seq(Record)
    BY <1>5
  <2>2. /\ \A e \in End : Drained(start[e]) \in Session
        /\ \A e \in End : start[Other(e)].outbound \in Seq(Record)
    BY <1>1, <1>2, <1>3, <1>6, <1>9, <1>10, <2>1
  <2>3. QED
    BY <1>11, <2>2
<1>14. Ends(session[I], session[R])
  BY <1>6, <1>7, <1>8, <1>12 DEF Ends
<1>15. BothBegan(x, y, <<g>>, <<f>>)
  BY <1>4, <1>7, <1>8 DEF BothBegan, Began, Counts, SameKeys, KexOfEnd, f, g
<1>16. Carries(<<g>>, <<g>>, y.out_key) /\ Carries(<<f>>, <<f>>, x.out_key)
  BY <1>5, CarriesFirst
<1>17. <<g>> \in Seq(Record) /\ <<f>> \in Seq(Record)
  BY <1>5
<1>18. Exchange(<<g>>, <<f>>)
  BY <1>12, <1>15, <1>16 DEF Exchange, Phase
<1>19. QED
  BY <1>11, <1>13, <1>14, <1>17, <1>18 DEF StreamInv

(* Every step leads from a phase to a phase.                               *)
LEMMA StreamGoesOn ==
    ASSUME MaxKex \in Nat, StreamInv, [StreamNext]_streamVars
    PROVE  StreamInv'
<1>1. CASE StreamNext
  <2>1. PICK e \in End : Send(e) \/ \E kex \in Fresh : Receive(e, kex) \/ Forces(e, kex)
    BY <1>1 DEF StreamNext
  <2>2. e = I \/ e = R
    BY DEF End, I, R
  <2>3. CASE Send(e)
    BY <2>2, <2>3, InitiatorSends, ResponderSends
  <2>4. CASE \E kex \in Fresh : Receive(e, kex) \/ Forces(e, kex)
    <3>1. PICK kex \in Fresh : Receive(e, kex) \/ Forces(e, kex)
      BY <2>4
    <3>2. CASE Receive(e, kex)
      BY <2>2, <3>2, InitiatorReceives, ResponderReceives
    <3>3. CASE Forces(e, kex)
      BY <2>2, <3>3, InitiatorForces, ResponderForces
    <3>4. QED
      BY <3>1, <3>2, <3>3
  <2>5. QED
    BY <2>1, <2>3, <2>4
<1>2. CASE UNCHANGED streamVars
  BY <1>2 DEF streamVars, StreamInv, Exchange
<1>3. QED
  BY <1>1, <1>2

(* The two sessions and what is between them are always in one of the      *)
(* phases of an exchange.                                                  *)
THEOREM StreamInvariant == StreamSpec => []StreamInv
<1>1. StreamInit => StreamInv
  BY StreamAssumption, StreamStarts
<1>2. StreamInv /\ [StreamNext]_streamVars => StreamInv'
  BY StreamAssumption, StreamGoesOn
<1>3. QED
  BY <1>1, <1>2, PTL DEF StreamSpec

(* Whoever changes keys, and while both do, no record is ever refused.     *)
THEOREM StreamRefusesNothing == StreamSpec => []NothingRefused
<1>1. StreamSpec => []StreamInv
  BY StreamInvariant
<1>2. StreamInv => NothingRefused
  BY DEF StreamInv, NothingRefused
<1>3. QED
  BY <1>1, <1>2, PTL

(* A key waits to be taken into use exactly until the ACK, and keys come   *)
(* and go in pairs.                                                        *)
THEOREM StreamTypes == StreamSpec => []StreamTypeOK
<1>1. StreamSpec => []StreamInv
  BY StreamInvariant
<1>2. ASSUME StreamInv PROVE StreamTypeOK
  <2> DEFINE x == session[I]
             y == session[R]
             Fits(s) == /\ s.state \in {"Kex", "SecondaryKex", "Sig", "Ack"}
                        /\ s.my_kex \in 0 .. MaxKex /\ s.his_kex \in 0 .. MaxKex
                        /\ s.state = "Ack" <=> s.pending_key # NoKey
                        /\ s.in_key = NoKey <=> s.out_key = NoKey
  <2>1. PICK toI \in Seq(Record), toR \in Seq(Record) : Phase(x, y, toI, toR)
    BY <1>2 DEF StreamInv, Exchange
  <2>2. Ends(x, y)
    BY <1>2 DEF StreamInv
  <2> HIDE DEF x, y
  <2>3. /\ x.my_kex \in 0 .. MaxKex /\ x.his_kex \in 0 .. MaxKex
        /\ y.my_kex \in 0 .. MaxKex /\ y.his_kex \in 0 .. MaxKex
        /\ x.state \in {"Kex", "SecondaryKex", "Sig", "Ack"}
        /\ y.state \in {"Kex", "SecondaryKex", "Sig", "Ack"}
    BY <2>2 DEF Ends, Session, Kexes
  <2>4. (x.state = "Ack" <=> x.pending_key # NoKey) /\ (y.state = "Ack" <=> y.pending_key # NoKey)
    BY <2>1 DEF Phase, AtRest, XBegan, YBegan, BothBegan, YSigns, XSigned, BothSign, YDone,
       BothDone, XWaits, YWaits, YFirst, Rests, Began, Signs, Waits
  <2>5. (x.in_key = NoKey <=> x.out_key = NoKey) /\ (y.in_key = NoKey <=> y.out_key = NoKey)
    <3>1. ASSUME YFirst(x, y, toI, toR)
          PROVE  (x.in_key = NoKey <=> x.out_key = NoKey)
              /\ (y.in_key = NoKey <=> y.out_key = NoKey)
      <4>1. y.in_key # NoKey /\ y.out_key # NoKey
        <5>1. x.my_kex \in Kexes /\ x.his_kex \in Kexes /\ x.label = "stream" /\ x.initiator = Yes
          BY <2>2, StreamAssumption, EndFields DEF Ends
        <5>2. /\ Material(x) = <<x.my_kex, x.his_kex, "stream">>
              /\ \A m : OutKey(x, m) = SealedBy(Yes, m) /\ InKey(x, m) = SealedBy(No, m)
          BY <5>1, Initiators
        <5>3. Material(x) \in Materials
          BY <5>1, <5>2, StreamAssumption, Typed DEF Yes
        <5>4. SealedBy(Yes, Material(x)) # NoKey /\ SealedBy(No, Material(x)) # NoKey
          BY <5>3, StreamAssumption, Typed DEF Yes, No
        <5>5. QED
          BY <3>1, <5>2, <5>4 DEF YFirst
      <4>2. QED
        BY <3>1, <4>1 DEF YFirst
    <3>2. QED
      BY <2>1, <3>1 DEF Phase, AtRest, XBegan, YBegan, BothBegan, YSigns, XSigned, BothSign,
         YDone,
         BothDone, XWaits, YWaits, Rests, Waits, SameKeys, Keyed
  <2>6. Fits(x) /\ Fits(y)
    BY <2>3, <2>4, <2>5
  <2>7. QED
    BY <2>6 DEF StreamTypeOK, End, I, R, x, y
<1>3. QED
  BY <1>1, <1>2, PTL

(* When nothing is on its way both ends are done, with the same keys.      *)
THEOREM StreamSettles == StreamSpec => []Settled
<1>1. StreamSpec => []StreamInv
  BY StreamInvariant
<1>2. ASSUME StreamInv PROVE Settled
  <2> DEFINE x == session[I]
             y == session[R]
  <2> SUFFICES ASSUME wire[I] = <<>>, wire[R] = <<>>
               PROVE  /\ x.state = "SecondaryKex" /\ y.state = "SecondaryKex"
                      /\ x.out_key = y.in_key /\ y.out_key = x.in_key
    BY DEF Settled, End, Other, I, R
  <2>1. PICK toI \in Seq(Record), toR \in Seq(Record) :
            Phase(x, y, toI, toR) /\ Carries(<<>>, toI, y.out_key) /\ Carries(<<>>, toR,
                x.out_key)
    BY <1>2 DEF StreamInv, Exchange
  <2>2. Len(toI) = 0 /\ Len(toR) = 0
    BY <2>1 DEF Carries, Plain, WithOne, WithTwo
  <2>3. toI = NoRecords /\ toR = NoRecords
    BY <2>2, EmptySeq DEF NoRecords
  <2> HIDE DEF x, y
  <2>4. \A a, b : <<a>> # NoRecords /\ <<a, b>> # NoRecords
    BY DEF NoRecords
  <2>5. AtRest(x, y, toI, toR)
    BY <2>1, <2>3, <2>4 DEF Phase, XBegan, YBegan, BothBegan, YSigns, XSigned, BothSign, YDone,
       BothDone, XWaits, YWaits, YFirst
  <2>6. QED
    BY <2>5 DEF AtRest, Rests, SameKeys
<1>3. QED
  BY <1>1, <1>2, PTL
=============================================================================
