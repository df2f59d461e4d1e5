-------------------------- MODULE SptpsReplayWindow --------------------------
(***************************************************************************)
(* The sliding window with which a receiver of SPTPS datagrams refuses a   *)
(* sequence number it has already accepted (SptpsReplayWindow in           *)
(* tinc-runtime/src/sptps.rs).                                             *)
(*                                                                         *)
(* The datagrams reach the window authenticated, but the network may have  *)
(* lost, delayed, reordered or duplicated them, so every step hands the    *)
(* window an arbitrary sequence number.                                    *)
(***************************************************************************)
EXTENDS Integers, FiniteSets

CONSTANTS
    WindowBytes,    \* the window's length in bytes; 0 turns the check off
    BitsPerByte,    \* 8 in the code, smaller in the model-checked instances
    SeqMod          \* 2^32 in the code: sequence numbers wrap at SeqMod

(***************************************************************************)
(* The window is shorter than the sequence number space: ReplayWindow is a *)
(* number of bytes far below 2^29.                                         *)
(***************************************************************************)
ASSUME WindowAssumption ==
    /\ WindowBytes \in Nat
    /\ BitsPerByte \in Nat \ {0}
    /\ SeqMod \in Nat \ {0}
    /\ WindowBytes * BitsPerByte \in Nat
    /\ WindowBytes * BitsPerByte < SeqMod

VARIABLES
    expected_seqno, \* one more than the highest number accepted, wrapping
    received,       \* the datagrams accepted since expected_seqno was 0
    far_future,     \* consecutive datagrams refused for being far ahead
    late,           \* the slots of the bitmap whose bit is set
    accepted        \* history: the numbers accepted in this cycle of SeqMod

vars == <<expected_seqno, received, far_future, late, accepted>>

Seqno == 0 .. SeqMod - 1
Window == WindowBytes * BitsPerByte
FarFutureLimit == WindowBytes \div 4

(* Byte (s / 8) % WindowBytes, bit s % 8: the bits of the array in order.  *)
Slot(s) == s % Window

(* saturating_add: the cutoff never exceeds the largest sequence number.   *)
FutureCutoff ==
    IF expected_seqno + Window < SeqMod THEN expected_seqno + Window
                                        ELSE SeqMod - 1

-----------------------------------------------------------------------------
(* How a number other than the expected one is judged.                     *)
Unexpected(s) == Window # 0 /\ s # expected_seqno
FarFuture(s) == Unexpected(s) /\ s >= FutureCutoff
Old(s) == Unexpected(s) /\ s < FutureCutoff /\ s < expected_seqno

OutsideWindow(s) == expected_seqno >= Window /\ s < expected_seqno - Window
Replay(s) == Old(s) /\ (OutsideWindow(s) \/ Slot(s) \notin late)
TooFar(s) == FarFuture(s) /\ far_future < FarFutureLimit

(* What `verify` answers, and whether `accept` succeeds.                   *)
Accepts(s) == ~Replay(s) /\ ~TooFar(s)

(* Mutant: a jump far ahead forgets to set the bits of what it skipped.    *)
LateAfterNoFill(s) ==
    IF Window = 0 THEN late
    ELSE IF FarFuture(s) THEN late \ {Slot(s)}
    ELSE (late \union {Slot(m) : m \in expected_seqno .. s - 1}) \ {Slot(s)}

(* Mutant: the accepted number's own bit is left set.                      *)
LateAfterNoClear(s) ==
    IF Window = 0 THEN late
    ELSE IF FarFuture(s) THEN 0 .. Window - 1
    ELSE late \union {Slot(m) : m \in expected_seqno .. s - 1}

(* The bitmap after `accept` has marked the numbers skipped by s (or, far  *)
(* in the future, every slot) and cleared the slot of s itself.            *)
LateAfter(s) ==
    LET marked == IF FarFuture(s)
                    THEN 0 .. Window - 1
                    ELSE late \union {Slot(m) : m \in expected_seqno .. s - 1}
    IN  IF Window = 0 THEN late ELSE marked \ {Slot(s)}

ExpectedAfter(s) ==
    IF s < expected_seqno THEN expected_seqno
    ELSE IF s + 1 = SeqMod THEN 0 ELSE s + 1

-----------------------------------------------------------------------------
Init ==
    /\ expected_seqno = 0
    /\ received = 0
    /\ far_future = 0
    /\ late = {}
    /\ accepted = {}

(* Err(FarFuture): only the count of such datagrams changes.               *)
RefuseFarFuture(s) ==
    /\ TooFar(s)
    /\ far_future' = far_future + 1
    /\ UNCHANGED <<expected_seqno, received, late, accepted>>

(* Err(Replay): nothing changes.                                           *)
RefuseReplay(s) ==
    /\ Replay(s)
    /\ UNCHANGED vars

(* Ok: the history starts again when the expected number wraps to 0.       *)
Accept(s) ==
    /\ Accepts(s)
    /\ late' = LateAfter(s)
    /\ far_future' = IF Window = 0 THEN far_future ELSE 0
    /\ expected_seqno' = ExpectedAfter(s)
    /\ received' = IF expected_seqno' = 0 THEN 0
                   ELSE IF received + 1 < SeqMod THEN received + 1
                   ELSE SeqMod - 1
    /\ accepted' = IF expected_seqno' = 0 THEN {} ELSE accepted \union {s}

Next == \E s \in Seqno : RefuseFarFuture(s) \/ RefuseReplay(s) \/ Accept(s)

Spec == Init /\ [][Next]_vars

-----------------------------------------------------------------------------
(* The fields keep their ranges.  The count of far-future datagrams never  *)
(* passes the limit at which the window gives in and moves.                *)
TypeOK ==
    /\ expected_seqno \in Seqno
    /\ received \in Seqno
    /\ far_future \in 0 .. FarFutureLimit
    /\ late \subseteq 0 .. Window - 1
    /\ accepted \subseteq Seqno

(* The numbers the window still remembers.                                 *)
Remembered == {s \in Seqno : s < expected_seqno /\ ~OutsideWindow(s)}

(* The bitmap is exact: of the remembered numbers, those whose bit is set  *)
(* are the ones not accepted yet, although slots are reused, skipped over  *)
(* and filled wholesale, and although the bitmap is not cleared when the   *)
(* sequence numbers wrap.                                                  *)
WindowExact ==
    Window # 0 =>
        /\ accepted \subseteq 0 .. expected_seqno - 1
        /\ \A s \in Remembered : Slot(s) \in late <=> s \notin accepted

(* No replay: a sequence number accepted in this cycle is refused from     *)
(* then on, whatever arrived in between.                                   *)
NoReplay == Window # 0 => \A s \in accepted : ~Accepts(s)

(* No loss: a number that was overtaken by fewer than a window of later    *)
(* ones, and has not been accepted, still is accepted.                     *)
LateStillAccepted ==
    Window # 0 => \A s \in Remembered \ accepted : Accepts(s)

(* The statistics count every accepted number of this cycle exactly once.  *)
ReceivedCountsAccepted ==
    Window # 0 => received = Cardinality(accepted)
=============================================================================
