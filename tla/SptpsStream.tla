----------------------------- MODULE SptpsStream -----------------------------
(***************************************************************************)
(* Two SPTPS sessions at the ends of a reliable stream.  They perform the  *)
(* first handshake, send each other application records, and either end,   *)
(* or both at the same time, may force a new key exchange at any moment.   *)
(***************************************************************************)
EXTENDS SptpsHandshake, FiniteSets

CONSTANTS
    MaxKex,     \* how many ephemeral keys may be in use at the same time
    MaxQueued   \* how many records an end has at most on their way

(* Both ends start with an ephemeral key of their own.                     *)
ASSUME StreamAssumption == MaxKex \in Nat /\ MaxKex >= 2

End == {"initiator", "responder"}
Other(e) == IF e = "initiator" THEN "responder" ELSE "initiator"

VARIABLES
    session,    \* session[e]: the session of end e
    wire,       \* wire[e]: the records on their way to e
    failed      \* the ends at which a record was refused

streamVars == <<session, wire, failed>>

(* The ephemeral keys of which a trace is left anywhere.                   *)
Used ==
    UNION {{session[e].my_kex, session[e].his_kex} \union
               KexIn(session[e].in_key) \union KexIn(session[e].out_key) \union
               KexIn(session[e].pending_key) : e \in End}
    \union
    UNION {UNION {KexIn(wire[e][i].key) \union KexOf(wire[e][i].payload)
               : i \in DOMAIN wire[e]} : e \in End}

(* A new one: the least that is not in use.                                *)
Fresh == {k \in 1 .. MaxKex : k \notin Used /\ 1 .. k - 1 \subseteq Used}

-----------------------------------------------------------------------------
StreamInit ==
    LET start == [e \in End |->
            Started(e = "initiator", "stream", IF e = "initiator" THEN 1 ELSE 2)]
    IN  /\ session = [e \in End |-> Drained(start[e])]
        /\ wire = [e \in End |-> start[Other(e)].outbound]
        /\ failed = {}

(* The session of e becomes s, and what it queued is sent.                 *)
Becomes(e, s, wires) ==
    /\ session' = [session EXCEPT ![e] = Drained(s)]
    /\ wire' = [wires EXCEPT ![Other(e)] = @ \o s.outbound]

Receive(e, kex) ==
    /\ wire[e] # <<>>
    /\ LET result == ReceiveDatagram(session[e], Head(wire[e]), kex)
       IN  /\ Becomes(e, result.s, [wire EXCEPT ![e] = Tail(@)])
           /\ failed' = IF result.ok THEN failed ELSE failed \union {e}

Forces(e, kex) ==
    /\ CanForceKex(session[e])
    /\ Becomes(e, ForceKex(session[e], kex), wire)
    /\ UNCHANGED failed

(* An application record.                                                  *)
Send(e) ==
    /\ IsEstablished(session[e])
    /\ Len(wire[Other(e)]) < MaxQueued
    /\ Becomes(e, [session[e] EXCEPT !.outbound = <<Encode(session[e], AppData)>>], wire)
    /\ UNCHANGED failed

StreamNext ==
    \E e \in End :
        \/ Send(e)
        \/ \E kex \in Fresh : Receive(e, kex) \/ Forces(e, kex)

StreamSpec == StreamInit /\ [][StreamNext]_streamVars

(* The stream delivers.  Nobody has to send, or to change the keys.        *)
FairStreamSpec ==
    StreamSpec /\ \A e \in End : WF_streamVars(\E kex \in Fresh : Receive(e, kex))

-----------------------------------------------------------------------------
(* The fields of a session fit its state: a key waits to be taken into use *)
(* exactly until the ACK, and keys come and go in pairs.                   *)
StreamTypeOK ==
    \A e \in End :
        LET s == session[e]
        IN  /\ s.state \in {"Kex", "SecondaryKex", "Sig", "Ack"}
            /\ s.my_kex \in 0 .. MaxKex /\ s.his_kex \in 0 .. MaxKex
            /\ s.state = "Ack" <=> s.pending_key # NoKey
            /\ s.in_key = NoKey <=> s.out_key = NoKey

(* No record is ever refused: whoever changes keys, and while both do, the *)
(* end that reads holds the key that the record was sealed with, and the   *)
(* handshake record is the one that its state expects.                     *)
NothingRefused == failed = {}

(* With nothing on its way, both ends are done, and what one seals the     *)
(* other opens.                                                            *)
Settled ==
    (wire["initiator"] = <<>> /\ wire["responder"] = <<>>) =>
        \A e \in End :
            /\ session[e].state = "SecondaryKex"
            /\ session[e].out_key = session[Other(e)].in_key
=============================================================================
