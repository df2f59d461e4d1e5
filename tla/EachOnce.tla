------------------------------ MODULE EachOnce ------------------------------
(***************************************************************************)
(* What a replay window promises: of the datagrams under one key it lets   *)
(* each number through at most once.  It may forget everything only when   *)
(* the numbers start again.                                                *)
(***************************************************************************)
EXTENDS Integers

CONSTANT Number

VARIABLES
    taken,      \* the numbers let through since the numbers started
    count       \* how many datagrams that were

onceVars == <<taken, count>>

Init == taken = {} /\ count = 0

Take(s) == s \notin taken /\ taken' = taken \union {s} /\ count' = count + 1
StartAgain == taken' = {} /\ count' = 0

Next == StartAgain \/ \E s \in Number : Take(s)

Spec == Init /\ [][Next]_onceVars
=============================================================================
