----------------------------- MODULE LegacyKeys -----------------------------
(***************************************************************************)
(* How two daemons of the legacy protocol agree on the key of the          *)
(* datagrams that one of them, the sender, sends to the other, the         *)
(* receiver (tincd/src/state.rs, tincd/src/transport.rs).  The receiver    *)
(* makes a key at once valid for what it gets and tells it with ANS_KEY;   *)
(* the sender asks with REQ_KEY when it has none, and KEY_CHANGED tells    *)
(* everybody that the keys of a daemon are no longer good.                 *)
(*                                                                         *)
(* A key is "current", the one that the receiver uses, or "old": making a  *)
(* new key turns every copy of the last one old.  Requests travel over one *)
(* of two routes in order, and the route may change.                       *)
(***************************************************************************)
EXTENDS Integers, Sequences

CONSTANTS
    MaxSwitches,    \* how often the route changes
    MaxEarly,        \* how often a timer fires while requests are on their way
    MaxBreaks,      \* how often they become unreachable to each other
    MaxQueue        \* requests on a route at once

VARIABLES
    direct,         \* whether the two have a connection of their own
    outKey,         \* sender: the key of outgoing datagrams, "none" at first
    validKey,       \* sender: valid_key
    asked,          \* sender: legacy_last_req_key is recent
    validKeyIn,     \* receiver: valid_key_in
    toSender,       \* toSender[r]: requests on route r to the sender
    toReceiver,     \* how many REQ_KEY are on their way (they are alike)
    route,          \* the receiver's route to the sender
    switches, breaks, early

keyVars == <<direct, outKey, validKey, asked, validKeyIn, toSender, toReceiver, route, switches, breaks, early>>

Routes == {1, 2}
KeyChanged == "changed"

(* A timer fires when nothing is on its way, or early.                     *)
Due == \/ toReceiver = 0 /\ toSender = [r \in Routes |-> <<>>] /\ UNCHANGED early
       \/ early < MaxEarly /\ early' = early + 1

Stale(key) == IF key = "current" THEN "old" ELSE key
Age(queues) == [r \in Routes |-> [i \in DOMAIN queues[r] |-> Stale(queues[r][i])]]

-----------------------------------------------------------------------------
(* The receiver.                                                           *)

(* generate_legacy_answer_key_message, and sending the answer              *)
Answer(queues) == [Age(queues) EXCEPT ![route] = Append(@, "current")]

SendAnswer(queues) ==
    /\ Len(queues[route]) < MaxQueue
    /\ toSender' = Answer(queues)
    /\ outKey' = Stale(outKey)

(* handle_legacy_request_key_message                                       *)
ReceiveReqKey ==
    /\ toReceiver > 0
    /\ toReceiver' = toReceiver - 1
    /\ SendAnswer(toSender)
    /\ validKeyIn' = TRUE
    /\ UNCHANGED <<direct, validKey, asked, route, switches, breaks, early>>

(* enqueue_legacy_key_actions and try_tx_legacy_like_tinc, when the        *)
(* receiver itself sends a packet the other way                            *)
ReceiverSends ==
    /\ ~validKeyIn
    /\ SendAnswer(toSender)
    /\ validKeyIn' = TRUE
    /\ UNCHANGED <<direct, validKey, asked, toReceiver, route, switches, breaks, early>>

(* regenerate_symmetric_keys: KEY_CHANGED floods on both routes (the       *)
(* second copy is forgotten as seen), a neighbour is told the new key at   *)
(* once, and the next packet to anybody makes yet another                  *)
RegenerateKeys ==
    /\ Due
    /\ \A r \in Routes : Len(toSender[r]) < MaxQueue - 1
    /\ \E r \in IF direct THEN {route} ELSE Routes :
          LET flooded == [toSender EXCEPT ![r] = Append(@, KeyChanged)]
          IN  IF direct THEN SendAnswer(flooded)
              ELSE toSender' = flooded /\ UNCHANGED outKey
    /\ validKeyIn' = FALSE
    /\ UNCHANGED <<direct, validKey, asked, toReceiver, route, switches, breaks>>

-----------------------------------------------------------------------------
(* The sender.                                                             *)

(* A packet for a peer without a valid key asks for one; the packet goes   *)
(* over TCP meanwhile.                                                     *)
SenderSends ==
    /\ ~validKey /\ ~asked
    /\ toReceiver < MaxQueue
    /\ asked' = TRUE
    /\ toReceiver' = toReceiver + 1
    /\ UNCHANGED <<direct, outKey, validKey, validKeyIn, toSender, route, switches, breaks, early>>

(* LEGACY_REQ_KEY_INTERVAL has passed.                                     *)
AskAgain ==
    /\ asked /\ ~validKey /\ Due
    /\ asked' = FALSE
    /\ UNCHANGED <<direct, outKey, validKey, validKeyIn, toSender, toReceiver, route, switches, breaks>>

(* Mutants: an answer that was not asked for is ignored; KEY_CHANGED is.   *)
TakesOnlyAsked(message) ==
    IF message = KeyChanged THEN validKey' = FALSE /\ asked' = FALSE /\ UNCHANGED outKey
    ELSE IF validKey THEN UNCHANGED <<validKey, asked, outKey>>
    ELSE validKey' = TRUE /\ outKey' = message /\ UNCHANGED asked
TakesNoChange(message) ==
    IF message = KeyChanged THEN UNCHANGED <<validKey, asked, outKey>>
    ELSE validKey' = TRUE /\ outKey' = message /\ UNCHANGED asked

(* apply_legacy_answer_key_message, apply_key_changed                      *)
Takes(message) ==
    IF message = KeyChanged THEN validKey' = FALSE /\ asked' = FALSE /\ UNCHANGED outKey
    ELSE validKey' = TRUE /\ outKey' = message /\ UNCHANGED asked

ReceiveFrom(r) ==
    /\ toSender[r] # <<>>
    /\ Takes(Head(toSender[r]))
    /\ toSender' = [toSender EXCEPT ![r] = Tail(@)]
    /\ UNCHANGED <<direct, validKeyIn, toReceiver, route, switches, breaks, early>>

-----------------------------------------------------------------------------
SwitchRoute ==
    /\ ~direct /\ switches < MaxSwitches
    /\ switches' = switches + 1
    /\ route' = 3 - route
    /\ UNCHANGED <<direct, outKey, validKey, asked, validKeyIn, toSender, toReceiver, breaks, early>>

(* clear_unreachable_runtime_peer_state_like_tinc at both, and what was on *)
(* the way is lost                                                         *)
Break ==
    /\ breaks < MaxBreaks
    /\ breaks' = breaks + 1
    /\ outKey' = "none" /\ validKey' = FALSE /\ asked' = FALSE
    /\ validKeyIn' = FALSE
    /\ toSender' = [r \in Routes |-> <<>>] /\ toReceiver' = 0
    /\ UNCHANGED <<direct, route, switches, early>>

KeyInit ==
    /\ direct \in BOOLEAN
    /\ outKey = "none" /\ validKey = FALSE /\ asked = FALSE
    /\ validKeyIn = FALSE
    /\ toSender = [r \in Routes |-> <<>>] /\ toReceiver = 0
    /\ route = 1 /\ switches = 0 /\ breaks = 0 /\ early = 0

KeyNext ==
    \/ ReceiveReqKey \/ ReceiverSends \/ RegenerateKeys
    \/ SenderSends \/ AskAgain \/ \E r \in Routes : ReceiveFrom(r)
    \/ SwitchRoute \/ Break

(* Requests arrive, both daemons have packets to send, and keys expire.    *)
Fairness ==
    /\ WF_keyVars(ReceiveReqKey) /\ WF_keyVars(SenderSends) /\ WF_keyVars(AskAgain)
    /\ \A r \in Routes : WF_keyVars(ReceiveFrom(r))
    /\ SF_keyVars(RegenerateKeys)

-----------------------------------------------------------------------------
(* As long as the route stays the same, a sender that holds an old key for *)
(* good is about to get the key that the receiver uses: no wrong key is    *)
(* used for ever (generate_legacy_answer_key_message,                      *)
(* apply_legacy_answer_key_message).                                       *)
OldKeysAreReplaced ==
    switches = 0 /\ validKey /\ outKey = "old" =>
        \E r \in Routes : \E i \in DOMAIN toSender[r] : toSender[r][i] = "current"

(* Whatever is lost and whichever route requests take, again and again the *)
(* sender has the key that the receiver uses, so that datagrams pass.      *)
KeyFits == validKey /\ outKey = "current"
=============================================================================
