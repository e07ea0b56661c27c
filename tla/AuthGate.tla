------------------------------ MODULE AuthGate ------------------------------
(***************************************************************************)
(* What the agent promises about one PIN authorization, without threads,   *)
(* channels, locks or polling: a request is opened once, is offered at     *)
(* most one PIN, and is decided exactly once.  It is decided for the PIN   *)
(* that was offered to it and for no other, or it is denied.  An offer may *)
(* arrive too late: a denied request can still be offered a PIN, which is  *)
(* then dropped.                                                           *)
(*                                                                         *)
(* AuthBroker implements this specification.                               *)
(***************************************************************************)
CONSTANTS Ids, Pins, NoPin

VARIABLES status,   \* "unused", "open", "denied", or the PIN it was granted
          offer     \* the PIN offered to the request, or NoPin

gateVars == <<status, offer>>

GateInit == /\ status = [i \in Ids |-> "unused"]
            /\ offer = [i \in Ids |-> NoPin]

Open(i) == /\ status[i] = "unused"
           /\ status' = [status EXCEPT ![i] = "open"]
           /\ UNCHANGED offer

Offer(i, p) == /\ status[i] \in {"open", "denied"}
               /\ offer[i] = NoPin
               /\ offer' = [offer EXCEPT ![i] = p]
               /\ UNCHANGED status

Grant(i) == /\ status[i] = "open"
            /\ offer[i] # NoPin
            /\ status' = [status EXCEPT ![i] = offer[i]]
            /\ UNCHANGED offer

Deny(i) == /\ status[i] = "open"
           /\ status' = [status EXCEPT ![i] = "denied"]
           /\ UNCHANGED offer

GateNext == \E i \in Ids : \/ Open(i)
                           \/ \E p \in Pins : Offer(i, p)
                           \/ Grant(i)
                           \/ Deny(i)

GateSpec == GateInit /\ [][GateNext]_gateVars
=============================================================================
