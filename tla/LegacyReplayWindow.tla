------------------------- MODULE LegacyReplayWindow -------------------------
(***************************************************************************)
(* The replay window of the legacy protocol: LegacyReplayWindow::accept as *)
(* LegacyUdpCodec::decode uses it (tinc-runtime/src/transport.rs).  It     *)
(* differs from that of SPTPS: it keeps the highest number instead of the  *)
(* next, a jump far ahead forgets what was missing, and the whole window   *)
(* starts again when the numbers pass MAX_LEGACY_SEQNO.                    *)
(***************************************************************************)
EXTENDS Integers, FiniteSets

CONSTANTS
    WindowBytes,    \* the window's length in bytes; 0 turns the check off
    BitsPerByte,    \* 8 in the code
    MaxSeqno,       \* MAX_LEGACY_SEQNO, 2^30 in the code
    SeqnoMod          \* 2^32 in the code

ASSUME LegacyWindowAssumption ==
    /\ WindowBytes \in Nat /\ BitsPerByte \in Nat \ {0}
    /\ WindowBytes * BitsPerByte \in Nat
    /\ MaxSeqno \in Nat /\ SeqnoMod \in Nat
    /\ MaxSeqno + WindowBytes * BitsPerByte < SeqnoMod

VARIABLES
    received_seqno, \* the highest number accepted
    received,       \* how many were accepted
    far_future,     \* consecutive datagrams refused for being far ahead
    late,           \* the slots of the bitmap whose bit is set
    accepted        \* history: the numbers accepted since the last reset

windowVars == <<received_seqno, received, far_future, late, accepted>>

Seqno == 0 .. SeqnoMod - 1
Window == WindowBytes * BitsPerByte
Slot(s) == s % Window

(* saturating_add; received_seqno never exceeds MaxSeqno, so that neither  *)
(* this nor wrapping_add ever reaches the end of the numbers               *)
FutureCutoff == IF received_seqno + Window < SeqnoMod THEN received_seqno + Window ELSE SeqnoMod - 1

Unexpected(s) == Window # 0 /\ s # (received_seqno + 1) % SeqnoMod
FarFuture(s) == Unexpected(s) /\ s >= FutureCutoff
Old(s) == Unexpected(s) /\ s < FutureCutoff /\ s <= received_seqno
OutsideWindow(s) == received_seqno >= Window /\ s <= received_seqno - Window

TooFar(s) == FarFuture(s) /\ far_future + 1 <= WindowBytes \div 4

Replay(s) == Old(s) /\ (OutsideWindow(s) \/ Slot(s) \notin late)

(* Mutant: the bit of a late number stays set when it arrives.             *)
LateAfterKeeps(s) ==
    IF FarFuture(s) THEN {}
    ELSE IF Old(s) THEN late
    ELSE late \union {Slot(m) : m \in received_seqno + 1 .. s - 1}
LateAfter(s) ==
    (IF FarFuture(s) THEN {}
     ELSE IF Old(s) THEN late
     ELSE late \union {Slot(m) : m \in received_seqno + 1 .. s - 1}) \ {Slot(s)}

-----------------------------------------------------------------------------
Init ==
    received_seqno = 0 /\ received = 0 /\ far_future = 0 /\ late = {} /\ accepted = {}

RefuseFarFuture(s) ==
    /\ TooFar(s)
    /\ far_future' = far_future + 1
    /\ UNCHANGED <<received_seqno, received, late, accepted>>

RefuseReplay(s) == Replay(s) /\ UNCHANGED windowVars

(* accept, and the reset of decode when the number is past the limit       *)
Accept(s) ==
    /\ ~TooFar(s) /\ ~Replay(s)
    /\ LET highest == IF s > received_seqno THEN s ELSE received_seqno
       IN  IF highest > MaxSeqno
           THEN received_seqno' = 0 /\ received' = 0 /\ far_future' = 0 /\ late' = {} /\ accepted' = {}
           ELSE /\ received_seqno' = highest
                /\ received' = IF received + 1 < SeqnoMod THEN received + 1 ELSE received
                /\ far_future' = IF Window = 0 THEN far_future ELSE 0
                /\ late' = IF Window = 0 THEN late ELSE LateAfter(s)
                /\ accepted' = accepted \union {s}

(* A new key: reset_incoming_key_state.                                    *)
NewKey ==
    received_seqno' = 0 /\ received' = 0 /\ far_future' = 0 /\ late' = {} /\ accepted' = {}

Next == NewKey \/ \E s \in Seqno : RefuseFarFuture(s) \/ RefuseReplay(s) \/ Accept(s)

WindowSpec == Init /\ [][Next]_windowVars

-----------------------------------------------------------------------------
(* The bits of the window are set only for numbers that are missing.       *)
BitsAreMissingNumbers ==
    \A s \in accepted : s <= received_seqno /\ (OutsideWindow(s) \/ Slot(s) \notin late)

(* accept lets each number through at most once per key and per cycle of   *)
(* the numbers: the window does what EachOnce says.                        *)
Once == INSTANCE EachOnce WITH taken <- accepted, count <- received, Number <- Seqno
OnceOnly == Once!Spec
=============================================================================
