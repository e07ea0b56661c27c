-------------------------- MODULE AuthBrokerProofs --------------------------
(***************************************************************************)
(* Proofs about AuthBroker, for every number of clients, sessions, keys,   *)
(* PINs and requests: BrokerInv is inductive, the safety properties follow *)
(* from it, and every step of the broker is a step of AuthGate.            *)
(***************************************************************************)
EXTENDS AuthBroker, TLAPS

-----------------------------------------------------------------------------
(* What is needed of the constants.                                        *)

\* The markers of an empty channel and an empty entry are no PIN and no key.
LEMMA NullsOutside == NoPin \notin Pins /\ NoKey \notin Keys
  BY BrokerAssumption

\* No outcome of request_pin is taken for a PIN.
LEMMA PinsDistinct ==
    /\ "open" \notin Pins /\ "timed out" \notin Pins
    /\ "cancelled" \notin Pins /\ "disconnected" \notin Pins
  BY BrokerAssumption

\* The number of requests of a behaviour is a natural number.
LEMMA BoundIsNat == MaxRequests \in Nat
  BY BrokerAssumption

-----------------------------------------------------------------------------
(* Type correctness, one lemma per action.  try_recv reads the channel of   *)
(* the worker's request, so its lemma needs that the request exists.        *)

\* RequestCancellation::new changes one flag.
LEMMA NewCancellationType ==
    ASSUME BrokerTypeOK, NEW w \in Clients, NewCancellation(w)
    PROVE  BrokerTypeOK'
  BY NullsOutside, BoundIsNat DEF BrokerTypeOK, NewCancellation, Ids, NoId,
     Phases, Replies, Denials, workerVars, controlVars, auxVars

\* RequestCancellation::cancel changes one flag.
LEMMA CancelType ==
    ASSUME BrokerTypeOK, NEW w \in Clients, Cancel(w)
    PROVE  BrokerTypeOK'
  BY NullsOutside, BoundIsNat DEF BrokerTypeOK, Cancel, Ids, NoId, Phases,
     Replies, Denials, workerVars, controlVars, auxVars

\* The deadline of request_pin changes one flag.
LEMMA ExpireType ==
    ASSUME BrokerTypeOK, NEW w \in Clients, Expire(w)
    PROVE  BrokerTypeOK'
  BY NullsOutside, BoundIsNat DEF BrokerTypeOK, Expire, Ids, NoId, Phases,
     Replies, Denials, workerVars, controlVars, auxVars

\* The end of the graphical authorizer changes its state alone.
LEMMA AuthorizerExitsType ==
    ASSUME BrokerTypeOK, NEW w \in Clients, AuthorizerExits(w)
    PROVE  BrokerTypeOK'
  BY NullsOutside, BoundIsNat DEF BrokerTypeOK, AuthorizerExits, Ids, NoId,
     Phases, Replies, Denials, workerVars, controlVars, auxVars

\* NEXT_REQUEST_ID stays one past the identifiers given out.
LEMMA RequestPinType ==
    ASSUME BrokerTypeOK, NEW w \in Clients, NEW k \in Keys, RequestPin(w, k)
    PROVE  BrokerTypeOK'
<1>1. nextRequest' \in 1 .. (MaxRequests + 1)
  BY BoundIsNat DEF RequestPin, BrokerTypeOK, Ids
<1>2. authorizer' \in [Clients -> {"none", "running", "exited"}]
  BY DEF RequestPin, BrokerTypeOK, start_graphical_authorizer
<1> QED
  BY <1>1, <1>2 DEF BrokerTypeOK, RequestPin, Phases, controlVars

\* What try_recv receives is a PIN.
LEMMA TryRecvType ==
    ASSUME BrokerTypeOK, RequestsDistinct, NEW w \in Clients, TryRecv(w)
    PROVE  BrokerTypeOK'
<1>1. rid[w] \in Ids
  BY DEF RequestsDistinct, TryRecv
<1>2. CASE channel[rid[w]] # NoPin
  <2>1. channel[rid[w]] \in Pins
    BY <1>1, <1>2 DEF BrokerTypeOK
  <2> QED
    BY ZenonT(60), <1>1, <1>2, <2>1 DEF BrokerTypeOK, TryRecv, Phases, workerVars,
       controlVars
<1>3. CASE channel[rid[w]] = NoPin
  BY <1>1, <1>3 DEF BrokerTypeOK, TryRecv, Phases, Denials, workerVars,
     controlVars
<1> QED
  BY <1>2, <1>3

\* The tests of the polling loop keep every type.
LEMMA PollDeadlineType ==
    ASSUME BrokerTypeOK, NEW w \in Clients, PollDeadline(w)
    PROVE  BrokerTypeOK'
  BY NullsOutside, BoundIsNat DEF BrokerTypeOK, PollDeadline, Ids, NoId,
     Phases, Replies, Denials, workerVars, controlVars, auxVars

\* Removing the entry keeps every type.
LEMMA CleanupType ==
    ASSUME BrokerTypeOK, NEW w \in Clients, Cleanup(w)
    PROVE  BrokerTypeOK'
  BY NullsOutside, BoundIsNat DEF BrokerTypeOK, Cleanup, Ids, NoId, Phases,
     Replies, Denials, workerVars, controlVars, auxVars

\* Dropping the receiver keeps every type.
LEMMA StopAuthorizerType ==
    ASSUME BrokerTypeOK, NEW w \in Clients, StopAuthorizer(w)
    PROVE  BrokerTypeOK'
  BY NullsOutside, BoundIsNat DEF BrokerTypeOK, StopAuthorizer, Ids, NoId,
     Phases, Replies, Denials, workerVars, controlVars, auxVars

\* Returning from request_pin keeps every type.
LEMMA ReturnPinType ==
    ASSUME BrokerTypeOK, NEW w \in Clients, ReturnPin(w)
    PROVE  BrokerTypeOK'
  BY NullsOutside, BoundIsNat DEF BrokerTypeOK, ReturnPin, Ids, NoId, Phases,
     Replies, Denials, workerVars, controlVars, auxVars

\* A LIST snapshot has the type of the table.
LEMMA ListType ==
    ASSUME BrokerTypeOK, NEW c \in Controls, List(c)
    PROVE  BrokerTypeOK'
  BY NullsOutside, BoundIsNat DEF BrokerTypeOK, List, Ids, NoId, Phases,
     Replies, Denials, workerVars, controlVars, auxVars

\* The prompt names an identifier and carries a PIN.
LEMMA PromptType ==
    ASSUME BrokerTypeOK, NEW c \in Controls, NEW i \in Ids, NEW p \in Pins,
       Prompt(c, i, p)
    PROVE  BrokerTypeOK'
  BY NullsOutside, BoundIsNat DEF BrokerTypeOK, Prompt, Ids, NoId, Phases,
     Replies, Denials, workerVars, controlVars, auxVars

\* AUTHORIZE's removal keeps every type.
LEMMA AuthorizeRemoveType ==
    ASSUME BrokerTypeOK, NEW c \in Controls, AuthorizeRemove(c)
    PROVE  BrokerTypeOK'
  BY ZenonT(60), NullsOutside, BoundIsNat DEF BrokerTypeOK, AuthorizeRemove, Ids, NoId,
     Phases, Replies, Denials, workerVars, controlVars, auxVars

\* AUTHORIZE's send keeps every type.
LEMMA AuthorizeSendType ==
    ASSUME BrokerTypeOK, NEW c \in Controls, AuthorizeSend(c)
    PROVE  BrokerTypeOK'
  BY NullsOutside, BoundIsNat DEF BrokerTypeOK, AuthorizeSend, Ids, NoId,
     Phases, Replies, Denials, workerVars, controlVars, auxVars

\* The end of a control session keeps every type.
LEMMA EndSessionType ==
    ASSUME BrokerTypeOK, NEW c \in Controls, EndSession(c)
    PROVE  BrokerTypeOK'
  BY NullsOutside, BoundIsNat DEF BrokerTypeOK, EndSession, Ids, NoId, Phases,
     Replies, Denials, workerVars, controlVars, auxVars

-----------------------------------------------------------------------------
(* The inductive invariant, one lemma per action.  Step <1>u (or <2>u) says *)
(* what the action leaves alone, <1>e what it does, element by element; the *)
(* parts of the invariant follow one by one.                                *)

\* A fresh cancellation flag disturbs nothing else.
LEMMA NewCancellationInv ==
    ASSUME BrokerInv, NEW w \in Clients, NewCancellation(w)
    PROVE  BrokerInv'
<1>t. BrokerTypeOK'
  BY NewCancellationType DEF BrokerInv
<1>u. UNCHANGED <<nextRequest, authorizations, channel, phase, rid, keyName,
   result, expired, authorizer, ctl, listing, target, typed, offered, verdict>>
  BY DEF NewCancellation, workerVars, controlVars, auxVars
<1>RD. RequestsDistinct'
  BY <1>u DEF BrokerInv, RequestsDistinct
<1>FU. FutureUnused'
  BY <1>u DEF BrokerInv, FutureUnused
<1>EO. EntryOwned'
  BY <1>u DEF BrokerInv, EntryOwned
<1>BO. BufferedOffered'
  BY <1>u DEF BrokerInv, BufferedOffered
<1>HU. HolderUnique'
  BY <1>u DEF BrokerInv, HolderUnique
<1>LT. ListingTrue'
  BY <1>u DEF BrokerInv, ListingTrue
<1>DE. DecidedOnExit'
  BY <1>u DEF BrokerInv, DecidedOnExit
<1>WR. WaiterReachable'
  BY <1>u DEF BrokerInv, WaiterReachable, SenderAlive
<1>GO. GrantOffered'
  BY <1>u DEF BrokerInv, GrantOffered
<1>ND. NeverDisconnected'
  BY <1>u DEF BrokerInv, NeverDisconnected
<1>AP. AcceptedPinNotLost'
  BY <1>u DEF BrokerInv, AcceptedPinNotLost
<1>AR. AuthorizerReaped'
  BY <1>u DEF BrokerInv, AuthorizerReaped
<1> QED
  BY <1>t, <1>RD, <1>FU, <1>EO, <1>BO, <1>HU, <1>LT, <1>DE, <1>WR, <1>GO,
     <1>ND, <1>AP, <1>AR DEF BrokerInv

\* Nor does raising it: the worker notices at its next poll.
LEMMA CancelInv ==
    ASSUME BrokerInv, NEW w \in Clients, Cancel(w)
    PROVE  BrokerInv'
<1>t. BrokerTypeOK'
  BY CancelType DEF BrokerInv
<1>u. UNCHANGED <<nextRequest, authorizations, channel, phase, rid, keyName,
   result, expired, authorizer, ctl, listing, target, typed, offered, verdict>>
  BY DEF Cancel, workerVars, controlVars, auxVars
<1>RD. RequestsDistinct'
  BY <1>u DEF BrokerInv, RequestsDistinct
<1>FU. FutureUnused'
  BY <1>u DEF BrokerInv, FutureUnused
<1>EO. EntryOwned'
  BY <1>u DEF BrokerInv, EntryOwned
<1>BO. BufferedOffered'
  BY <1>u DEF BrokerInv, BufferedOffered
<1>HU. HolderUnique'
  BY <1>u DEF BrokerInv, HolderUnique
<1>LT. ListingTrue'
  BY <1>u DEF BrokerInv, ListingTrue
<1>DE. DecidedOnExit'
  BY <1>u DEF BrokerInv, DecidedOnExit
<1>WR. WaiterReachable'
  BY <1>u DEF BrokerInv, WaiterReachable, SenderAlive
<1>GO. GrantOffered'
  BY <1>u DEF BrokerInv, GrantOffered
<1>ND. NeverDisconnected'
  BY <1>u DEF BrokerInv, NeverDisconnected
<1>AP. AcceptedPinNotLost'
  BY <1>u DEF BrokerInv, AcceptedPinNotLost
<1>AR. AuthorizerReaped'
  BY <1>u DEF BrokerInv, AuthorizerReaped
<1> QED
  BY <1>t, <1>RD, <1>FU, <1>EO, <1>BO, <1>HU, <1>LT, <1>DE, <1>WR, <1>GO,
     <1>ND, <1>AP, <1>AR DEF BrokerInv

\* Nor does the deadline.
LEMMA ExpireInv ==
    ASSUME BrokerInv, NEW w \in Clients, Expire(w)
    PROVE  BrokerInv'
<1>t. BrokerTypeOK'
  BY ExpireType DEF BrokerInv
<1>u. UNCHANGED <<nextRequest, authorizations, channel, phase, rid, keyName,
   result, cancelled, authorizer, ctl, listing, target, typed, offered,
      verdict>>
  BY DEF Expire, workerVars, controlVars, auxVars
<1>RD. RequestsDistinct'
  BY <1>u DEF BrokerInv, RequestsDistinct
<1>FU. FutureUnused'
  BY <1>u DEF BrokerInv, FutureUnused
<1>EO. EntryOwned'
  BY <1>u DEF BrokerInv, EntryOwned
<1>BO. BufferedOffered'
  BY <1>u DEF BrokerInv, BufferedOffered
<1>HU. HolderUnique'
  BY <1>u DEF BrokerInv, HolderUnique
<1>LT. ListingTrue'
  BY <1>u DEF BrokerInv, ListingTrue
<1>DE. DecidedOnExit'
  BY <1>u DEF BrokerInv, DecidedOnExit
<1>WR. WaiterReachable'
  BY <1>u DEF BrokerInv, WaiterReachable, SenderAlive
<1>GO. GrantOffered'
  BY <1>u DEF BrokerInv, GrantOffered
<1>ND. NeverDisconnected'
  BY <1>u DEF BrokerInv, NeverDisconnected
<1>AP. AcceptedPinNotLost'
  BY <1>u DEF BrokerInv, AcceptedPinNotLost
<1>AR. AuthorizerReaped'
  BY <1>u DEF BrokerInv, AuthorizerReaped
<1> QED
  BY <1>t, <1>RD, <1>FU, <1>EO, <1>BO, <1>HU, <1>LT, <1>DE, <1>WR, <1>GO,
     <1>ND, <1>AP, <1>AR DEF BrokerInv

\* A child that ended belongs to the same call as before.
LEMMA AuthorizerExitsInv ==
    ASSUME BrokerInv, NEW w \in Clients, AuthorizerExits(w)
    PROVE  BrokerInv'
<1>t. BrokerTypeOK'
  BY AuthorizerExitsType DEF BrokerInv
<1>u. UNCHANGED <<nextRequest, authorizations, channel, phase, rid, keyName,
   result, cancelled, expired, ctl, listing, target, typed, offered, verdict>>
  BY DEF AuthorizerExits, workerVars, controlVars, auxVars
<1>RD. RequestsDistinct'
  BY <1>u DEF BrokerInv, RequestsDistinct
<1>FU. FutureUnused'
  BY <1>u DEF BrokerInv, FutureUnused
<1>EO. EntryOwned'
  BY <1>u DEF BrokerInv, EntryOwned
<1>BO. BufferedOffered'
  BY <1>u DEF BrokerInv, BufferedOffered
<1>HU. HolderUnique'
  BY <1>u DEF BrokerInv, HolderUnique
<1>LT. ListingTrue'
  BY <1>u DEF BrokerInv, ListingTrue
<1>DE. DecidedOnExit'
  BY <1>u DEF BrokerInv, DecidedOnExit
<1>WR. WaiterReachable'
  BY <1>u DEF BrokerInv, WaiterReachable, SenderAlive
<1>GO. GrantOffered'
  BY <1>u DEF BrokerInv, GrantOffered
<1>ND. NeverDisconnected'
  BY <1>u DEF BrokerInv, NeverDisconnected
<1>AP. AcceptedPinNotLost'
  BY <1>u DEF BrokerInv, AcceptedPinNotLost
<1>e. /\ authorizer[w] = "running"
      /\ \A v \in Clients : authorizer'[v] = IF v = w THEN "exited" ELSE authorizer[v]
  BY NullsOutside DEF BrokerInv, BrokerTypeOK, AuthorizerExits, Ids
<1>1. AuthorizerReaped'
  BY <1>u, <1>e DEF BrokerInv, AuthorizerReaped, Live
<1> QED
  BY <1>t, <1>RD, <1>FU, <1>EO, <1>BO, <1>HU, <1>LT, <1>DE, <1>WR, <1>GO,
     <1>ND, <1>AP, <1>1 DEF BrokerInv

\* The new entry, its channel and its verdict are those of an identifier nothing
\* referred to before.
LEMMA RequestPinInv ==
    ASSUME BrokerInv, NEW w \in Clients, NEW k \in Keys, RequestPin(w, k)
    PROVE  BrokerInv'
<1>t. BrokerTypeOK'
  BY RequestPinType DEF BrokerInv
<1>u. UNCHANGED <<channel, result, cancelled, expired, ctl, listing, target,
   typed, offered>>
  BY DEF RequestPin, workerVars, controlVars, auxVars
<1>e. /\ phase[w] = "idle"
      /\ nextRequest \in Ids
      /\ nextRequest' = nextRequest + 1
      /\ \A v \in Clients : v # w => authorizer'[v] = authorizer[v]
      /\ \A v \in Clients : rid'[v] = IF v = w THEN nextRequest ELSE rid[v]
      /\ \A v \in Clients : keyName'[v] = IF v = w THEN k ELSE keyName[v]
      /\ \A j \in Ids : authorizations'[j] = IF j = nextRequest THEN k ELSE authorizations[j]
      /\ \A v \in Clients : phase'[v] = IF v = w THEN "wait" ELSE phase[v]
      /\ \A j \in Ids : verdict'[j] = IF j = nextRequest THEN "open" ELSE verdict[j]
  BY NullsOutside DEF BrokerInv, BrokerTypeOK, RequestPin, Ids
<1>1. RequestsDistinct'
  BY <1>u, <1>e DEF BrokerInv, RequestsDistinct, Ids
<1>2. FutureUnused'
  BY <1>u, <1>e DEF BrokerInv, FutureUnused, Ids
<1>3. EntryOwned'
  BY <1>u, <1>e, NullsOutside DEF BrokerInv, EntryOwned, FutureUnused, Ids
<1>4. BufferedOffered'
  <2>1. channel[nextRequest] = NoPin
    BY <1>e DEF BrokerInv, FutureUnused, BrokerTypeOK, Ids
  <2> QED
    BY <1>u, <1>e, <2>1 DEF BrokerInv, BufferedOffered, Live
<1>5. HolderUnique'
  BY <1>u, <1>e DEF BrokerInv, HolderUnique, FutureUnused, ListingTrue, Ids
<1>6. ListingTrue'
  BY <1>u, <1>e DEF BrokerInv, ListingTrue, FutureUnused, RequestsDistinct, Ids
<1>7. WaiterReachable'
  BY <1>u, <1>e, NullsOutside DEF BrokerInv, WaiterReachable, FutureUnused,
     RequestsDistinct, SenderAlive, Ids
<1>8. GrantOffered'
  BY <1>u, <1>e, PinsDistinct DEF BrokerInv, GrantOffered, FutureUnused, Ids
<1>9. NeverDisconnected'
  BY <1>u, <1>e DEF BrokerInv, NeverDisconnected, Ids
<1>10. AcceptedPinNotLost'
  <2> SUFFICES ASSUME NEW d \in Controls, ctl'[d] = "authorized"
                   PROVE  \/ verdict'[target'[d]] \in
                                {typed'[d], "timed out", "cancelled"}
                          \/ channel'[target'[d]] = typed'[d]
    BY DEF AcceptedPinNotLost
  <2>1. target[d] \in Ids /\ target[d] # nextRequest /\ ctl[d] = "authorized"
    BY <1>u, <1>e, SMTT(30) DEF BrokerInv, ListingTrue, FutureUnused, BrokerTypeOK, Ids
  <2> QED
    BY <1>u, <1>e, <2>1 DEF BrokerInv, AcceptedPinNotLost
<1>11. AuthorizerReaped'
  BY <1>u, <1>e DEF BrokerInv, AuthorizerReaped, Live, Ids
<1>12. DecidedOnExit'
  <2>1. phase'[w] = "wait" /\ verdict'[rid'[w]] = "open"
    BY <1>e
  <2>2. ASSUME NEW v \in Clients, v # w, phase[v] # "idle"
        PROVE  phase'[v] = phase[v] /\ verdict'[rid'[v]] = verdict[rid[v]]
    <3>1. rid[v] \in Ids /\ rid[v] # nextRequest
      BY <2>2 DEF BrokerInv, RequestsDistinct, BrokerTypeOK, Ids
    <3> QED
      BY <1>e, <2>2, <3>1
  <2>3. \A v \in Clients : v # w => phase'[v] = phase[v]
    BY <1>e
  <2> QED
    BY <2>1, <2>2, <2>3 DEF BrokerInv, DecidedOnExit
<1> QED
  BY <1>t, <1>1, <1>2, <1>3, <1>4, <1>5, <1>6, <1>7, <1>8, <1>9, <1>10, <1>11,
     <1>12 DEF BrokerInv

\* A received PIN is the offered one; an empty channel still has a sender, so
\* the third outcome of try_recv does not occur.
LEMMA TryRecvInv ==
    ASSUME BrokerInv, NEW w \in Clients, TryRecv(w)
    PROVE  BrokerInv'
<1>t. BrokerTypeOK'
  BY TryRecvType DEF BrokerInv
<1>u. UNCHANGED <<nextRequest, authorizations, rid, keyName, cancelled,
   expired, authorizer, ctl, listing, target, typed, offered>>
  BY DEF TryRecv, workerVars, controlVars, auxVars
<1>i. rid[w] \in Ids /\ rid[w] < nextRequest
  BY DEF BrokerInv, RequestsDistinct, TryRecv
<1>1. CASE channel[rid[w]] # NoPin
  <2>e. /\ phase[w] = "wait"
        /\ channel[rid[w]] \in Pins
        /\ \A j \in Ids : channel'[j] = IF j = rid[w] THEN NoPin ELSE channel[j]
        /\ \A j \in Ids : verdict'[j] = IF j = rid[w] THEN channel[rid[w]] ELSE verdict[j]
        /\ \A v \in Clients : phase'[v] = IF v = w THEN "cleanup" ELSE phase[v]
    BY ZenonT(60), <1>1, <1>i, NullsOutside DEF BrokerInv, BrokerTypeOK, TryRecv,
       WaiterReachable, SenderAlive, Ids
  <2>1. RequestsDistinct'
    BY <1>1, <1>i, <1>u, <2>e DEF BrokerInv, RequestsDistinct
  <2>2. FutureUnused'
    BY <1>1, <1>i, <1>u, <2>e DEF BrokerInv, FutureUnused, RequestsDistinct, Ids
  <2>3. EntryOwned'
    BY <1>1, <1>i, <1>u, <2>e DEF BrokerInv, EntryOwned
  <2>4. BufferedOffered'
    BY <1>1, <1>i, <1>u, <2>e DEF BrokerInv, BufferedOffered, Live
  <2>5. HolderUnique'
    BY <1>1, <1>i, <1>u, <2>e DEF BrokerInv, HolderUnique, ListingTrue
  <2>6. ListingTrue'
    BY <1>1, <1>i, <1>u, <2>e DEF BrokerInv, ListingTrue, RequestsDistinct
  <2>7. WaiterReachable'
    BY <1>1, <1>i, <1>u, <2>e DEF BrokerInv, WaiterReachable,
       RequestsDistinct, SenderAlive
  <2>8. GrantOffered'
    BY <1>1, <1>i, <1>u, <2>e DEF BrokerInv, GrantOffered, BufferedOffered, Live
  <2>9. NeverDisconnected'
    BY ZenonT(60), <1>1, <1>i, <1>u, <2>e, PinsDistinct DEF BrokerInv, NeverDisconnected,
       WaiterReachable
  <2>10. AcceptedPinNotLost'
    <3> SUFFICES ASSUME NEW d \in Controls, ctl'[d] = "authorized"
                     PROVE  \/ verdict'[target'[d]] \in
                                  {typed'[d], "timed out", "cancelled"}
                            \/ channel'[target'[d]] = typed'[d]
      BY DEF AcceptedPinNotLost
    <3>1. target[d] \in Ids /\ typed[d] \in Pins /\ ctl[d] = "authorized"
      BY <1>u DEF BrokerInv, ListingTrue
    <3>2. CASE target[d] = rid[w]
      <4>1. verdict[target[d]] = "open"
        BY <2>e, <3>2 DEF BrokerInv, DecidedOnExit
      <4>2. channel[target[d]] = typed[d]
        BY <3>1, <4>1, PinsDistinct DEF BrokerInv, AcceptedPinNotLost
      <4> QED
        BY <1>u, <2>e, <1>i, <3>2, <4>2
    <3>3. CASE target[d] # rid[w]
      BY <1>u, <2>e, <3>1, <3>3 DEF BrokerInv, AcceptedPinNotLost
    <3> QED
      BY <3>2, <3>3
  <2>11. AuthorizerReaped'
    BY <1>1, <1>i, <1>u, <2>e DEF BrokerInv, AuthorizerReaped, Live
  <2>12. DecidedOnExit'
    BY ZenonT(60), <1>1, <1>i, <1>u, <2>e DEF BrokerInv, DecidedOnExit, RequestsDistinct
  <2> QED
    BY <1>t, <2>1, <2>2, <2>3, <2>4, <2>5, <2>6, <2>7, <2>8, <2>9, <2>10,
       <2>11, <2>12 DEF BrokerInv
<1>2. CASE channel[rid[w]] = NoPin
  <2>e. /\ phase[w] = "wait"
        /\ UNCHANGED <<channel, verdict>>
        /\ \A v \in Clients : phase'[v] = IF v = w THEN "polled" ELSE phase[v]
    BY <1>2, <1>i, NullsOutside DEF BrokerInv, BrokerTypeOK, TryRecv,
       WaiterReachable, SenderAlive, Ids
  <2>1. RequestsDistinct'
    BY <1>2, <1>i, <1>u, <2>e DEF BrokerInv, RequestsDistinct
  <2>2. FutureUnused'
    BY <1>2, <1>i, <1>u, <2>e DEF BrokerInv, FutureUnused, RequestsDistinct, Ids
  <2>3. EntryOwned'
    BY <1>2, <1>i, <1>u, <2>e DEF BrokerInv, EntryOwned
  <2>4. BufferedOffered'
    BY <1>2, <1>i, <1>u, <2>e DEF BrokerInv, BufferedOffered, Live
  <2>5. HolderUnique'
    BY <1>2, <1>i, <1>u, <2>e DEF BrokerInv, HolderUnique, ListingTrue
  <2>6. ListingTrue'
    BY <1>2, <1>i, <1>u, <2>e DEF BrokerInv, ListingTrue, RequestsDistinct
  <2>7. WaiterReachable'
    BY <1>2, <1>i, <1>u, <2>e DEF BrokerInv, WaiterReachable,
       RequestsDistinct, SenderAlive
  <2>8. GrantOffered'
    BY <1>2, <1>i, <1>u, <2>e DEF BrokerInv, GrantOffered, BufferedOffered, Live
  <2>9. NeverDisconnected'
    BY <1>2, <1>i, <1>u, <2>e, PinsDistinct DEF BrokerInv, NeverDisconnected,
       WaiterReachable
  <2>10. AcceptedPinNotLost'
    BY <1>2, <1>i, <1>u, <2>e, PinsDistinct DEF BrokerInv, AcceptedPinNotLost,
       DecidedOnExit, ListingTrue, RequestsDistinct
  <2>11. AuthorizerReaped'
    BY <1>2, <1>i, <1>u, <2>e DEF BrokerInv, AuthorizerReaped, Live
  <2>12. DecidedOnExit'
    BY <1>2, <1>i, <1>u, <2>e DEF BrokerInv, DecidedOnExit, RequestsDistinct
  <2> QED
    BY <1>t, <2>1, <2>2, <2>3, <2>4, <2>5, <2>6, <2>7, <2>8, <2>9, <2>10,
       <2>11, <2>12 DEF BrokerInv
<1> QED
  BY <1>1, <1>2

\* Giving up decides an undecided request.
LEMMA PollDeadlineInv ==
    ASSUME BrokerInv, NEW w \in Clients, PollDeadline(w)
    PROVE  BrokerInv'
<1>t. BrokerTypeOK'
  BY PollDeadlineType DEF BrokerInv
<1>u. UNCHANGED <<nextRequest, authorizations, channel, rid, keyName, result,
   cancelled, expired, ctl, listing, target, typed, offered>>
  BY DEF PollDeadline, workerVars, controlVars, auxVars
<1>i. rid[w] \in Ids /\ rid[w] < nextRequest
  BY DEF BrokerInv, RequestsDistinct, PollDeadline
<1>j. \A j \in Ids : j >= nextRequest => j # rid[w]
  BY <1>i, BoundIsNat DEF BrokerInv, BrokerTypeOK, Ids
<1>a. \A v \in Clients : v # w => authorizer'[v] = authorizer[v]
  BY DEF BrokerInv, BrokerTypeOK, PollDeadline
<1>1. CASE expired[w]
  <2>x. /\ phase' = [phase EXCEPT ![w] = "cleanup"]
        /\ verdict' = [verdict EXCEPT ![rid[w]] = "timed out"]
    BY <1>1 DEF PollDeadline
  <2>e. /\ phase[w] = "polled"
        /\ \A v \in Clients : phase'[v] = IF v = w THEN "cleanup" ELSE phase[v]
        /\ \A j \in Ids : verdict'[j] = IF j = rid[w] THEN "timed out" ELSE verdict[j]
    BY <1>1, <1>i, <2>x DEF BrokerInv, BrokerTypeOK, PollDeadline
  <2>1. RequestsDistinct'
    BY ZenonT(60), <1>1, <1>i, <1>u, <2>e DEF BrokerInv, RequestsDistinct
  <2>2. FutureUnused'
    <3>1. \A j \in Ids : j >= nextRequest => verdict'[j] = verdict[j]
      BY <1>j, <2>e
    <3> QED
      BY <1>u, <3>1 DEF BrokerInv, FutureUnused
  <2>3. EntryOwned'
    <3>1. \A v \in Clients : phase[v] \in {"wait", "polled", "cleanup"}
             => phase'[v] \in {"wait", "polled", "cleanup"}
      BY <2>e
    <3> QED
      BY <1>u, <3>1 DEF BrokerInv, EntryOwned
  <2>4. BufferedOffered'
    <3>1. \A j \in Ids : verdict[j] \notin Pins => verdict'[j] \notin Pins
      BY <2>e, PinsDistinct
    <3>2. \A v \in Clients : phase[v] \in Live => phase'[v] \in Live
      BY <2>e DEF Live
    <3> QED
      BY <1>u, <3>1, <3>2 DEF BrokerInv, BufferedOffered
  <2>5. HolderUnique'
    BY ZenonT(60), <1>1, <1>i, <1>u, <2>e, PinsDistinct DEF BrokerInv, HolderUnique,
       ListingTrue
  <2>6. ListingTrue'
    BY ZenonT(60), <1>1, <1>i, <1>u, <2>e DEF BrokerInv, ListingTrue, RequestsDistinct
  <2>7. WaiterReachable'
    BY <1>1, <1>i, <1>u, <2>e DEF BrokerInv, WaiterReachable,
       RequestsDistinct, SenderAlive
  <2>8. GrantOffered'
    BY <1>1, <1>i, <1>u, <2>e, PinsDistinct DEF BrokerInv, GrantOffered,
       RequestsDistinct
  <2>9. NeverDisconnected'
    BY <1>1, <1>i, <1>u, <2>e DEF BrokerInv, NeverDisconnected, RequestsDistinct
  <2>10. AcceptedPinNotLost'
    BY <1>1, <1>i, <1>u, <2>e DEF BrokerInv, AcceptedPinNotLost,
       DecidedOnExit, ListingTrue, RequestsDistinct
  <2>11. AuthorizerReaped'
    BY <1>1, <1>i, <1>u, <1>a, <2>e DEF BrokerInv, AuthorizerReaped, Live
  <2>12. DecidedOnExit'
    BY ZenonT(60), <1>1, <1>i, <1>u, <2>e DEF BrokerInv, DecidedOnExit, RequestsDistinct
  <2> QED
    BY <1>t, <2>1, <2>2, <2>3, <2>4, <2>5, <2>6, <2>7, <2>8, <2>9, <2>10,
       <2>11, <2>12 DEF BrokerInv
<1>2. CASE ~expired[w] /\ cancelled[w]
  <2>x. /\ phase' = [phase EXCEPT ![w] = "cleanup"]
        /\ verdict' = [verdict EXCEPT ![rid[w]] = "cancelled"]
    BY <1>2 DEF PollDeadline
  <2>e. /\ phase[w] = "polled"
        /\ \A v \in Clients : phase'[v] = IF v = w THEN "cleanup" ELSE phase[v]
        /\ \A j \in Ids : verdict'[j] = IF j = rid[w] THEN "cancelled" ELSE verdict[j]
    BY <1>2, <1>i, <2>x DEF BrokerInv, BrokerTypeOK, PollDeadline
  <2>1. RequestsDistinct'
    BY <1>2, <1>i, <1>u, <2>e DEF BrokerInv, RequestsDistinct
  <2>2. FutureUnused'
    <3>1. \A j \in Ids : j >= nextRequest => verdict'[j] = verdict[j]
      BY <1>j, <2>e
    <3> QED
      BY <1>u, <3>1 DEF BrokerInv, FutureUnused
  <2>3. EntryOwned'
    BY <1>2, <1>i, <1>u, <2>e DEF BrokerInv, EntryOwned
  <2>4. BufferedOffered'
    <3>1. \A j \in Ids : verdict[j] \notin Pins => verdict'[j] \notin Pins
      BY <2>e, PinsDistinct
    <3>2. \A v \in Clients : phase[v] \in Live => phase'[v] \in Live
      BY <2>e DEF Live
    <3> QED
      BY <1>u, <3>1, <3>2 DEF BrokerInv, BufferedOffered
  <2>5. HolderUnique'
    BY ZenonT(60), <1>2, <1>i, <1>u, <2>e, PinsDistinct DEF BrokerInv, HolderUnique,
       ListingTrue
  <2>6. ListingTrue'
    BY <1>2, <1>i, <1>u, <2>e DEF BrokerInv, ListingTrue, RequestsDistinct
  <2>7. WaiterReachable'
    BY <1>2, <1>i, <1>u, <2>e DEF BrokerInv, WaiterReachable,
       RequestsDistinct, SenderAlive
  <2>8. GrantOffered'
    BY <1>2, <1>i, <1>u, <2>e, PinsDistinct DEF BrokerInv, GrantOffered,
       RequestsDistinct
  <2>9. NeverDisconnected'
    BY <1>2, <1>i, <1>u, <2>e DEF BrokerInv, NeverDisconnected, RequestsDistinct
  <2>10. AcceptedPinNotLost'
    BY <1>2, <1>i, <1>u, <2>e DEF BrokerInv, AcceptedPinNotLost,
       DecidedOnExit, ListingTrue, RequestsDistinct
  <2>11. AuthorizerReaped'
    BY <1>2, <1>i, <1>u, <1>a, <2>e DEF BrokerInv, AuthorizerReaped, Live
  <2>12. DecidedOnExit'
    BY ZenonT(60), <1>2, <1>i, <1>u, <2>e DEF BrokerInv, DecidedOnExit, RequestsDistinct
  <2> QED
    BY <1>t, <2>1, <2>2, <2>3, <2>4, <2>5, <2>6, <2>7, <2>8, <2>9, <2>10,
       <2>11, <2>12 DEF BrokerInv
<1>3. CASE ~expired[w] /\ ~cancelled[w]
  <2>e. /\ phase[w] = "polled"
        /\ verdict' = verdict
        /\ \A v \in Clients : phase'[v] = IF v = w THEN "wait" ELSE phase[v]
    BY <1>3, <1>i DEF BrokerInv, BrokerTypeOK, PollDeadline
  <2>1. RequestsDistinct'
    BY <1>3, <1>i, <1>u, <2>e DEF BrokerInv, RequestsDistinct
  <2>2. FutureUnused'
    BY <1>3, <1>i, <1>u, <2>e DEF BrokerInv, FutureUnused, RequestsDistinct, Ids
  <2>3. EntryOwned'
    BY <1>3, <1>i, <1>u, <2>e DEF BrokerInv, EntryOwned
  <2>4. BufferedOffered'
    BY <1>3, <1>i, <1>u, <2>e, PinsDistinct DEF BrokerInv, BufferedOffered, Live
  <2>5. HolderUnique'
    BY <1>3, <1>i, <1>u, <2>e, PinsDistinct DEF BrokerInv, HolderUnique,
       ListingTrue
  <2>6. ListingTrue'
    BY <1>3, <1>i, <1>u, <2>e DEF BrokerInv, ListingTrue, RequestsDistinct
  <2>7. WaiterReachable'
    BY <1>3, <1>i, <1>u, <2>e DEF BrokerInv, WaiterReachable,
       RequestsDistinct, SenderAlive
  <2>8. GrantOffered'
    BY <1>3, <1>i, <1>u, <2>e, PinsDistinct DEF BrokerInv, GrantOffered,
       RequestsDistinct
  <2>9. NeverDisconnected'
    BY <1>3, <1>i, <1>u, <2>e DEF BrokerInv, NeverDisconnected, RequestsDistinct
  <2>10. AcceptedPinNotLost'
    BY <1>3, <1>i, <1>u, <2>e DEF BrokerInv, AcceptedPinNotLost,
       DecidedOnExit, ListingTrue, RequestsDistinct
  <2>11. AuthorizerReaped'
    BY <1>3, <1>i, <1>u, <1>a, <2>e DEF BrokerInv, AuthorizerReaped, Live
  <2>12. DecidedOnExit'
    BY <1>3, <1>i, <1>u, <2>e DEF BrokerInv, DecidedOnExit, RequestsDistinct
  <2> QED
    BY <1>t, <2>1, <2>2, <2>3, <2>4, <2>5, <2>6, <2>7, <2>8, <2>9, <2>10,
       <2>11, <2>12 DEF BrokerInv
<1> QED
  BY <1>1, <1>2, <1>3

\* The removed entry is the one of this worker.
LEMMA CleanupInv ==
    ASSUME BrokerInv, NEW w \in Clients, Cleanup(w)
    PROVE  BrokerInv'
<1>t. BrokerTypeOK'
  BY CleanupType DEF BrokerInv
<1>u. UNCHANGED <<nextRequest, channel, rid, keyName, result, cancelled,
   expired, authorizer, ctl, listing, target, typed, offered, verdict>>
  BY DEF Cleanup, workerVars, controlVars, auxVars
<1>GO. GrantOffered'
  BY <1>u DEF BrokerInv, GrantOffered
<1>ND. NeverDisconnected'
  BY <1>u DEF BrokerInv, NeverDisconnected
<1>AP. AcceptedPinNotLost'
  BY <1>u DEF BrokerInv, AcceptedPinNotLost
<1>i. rid[w] \in Ids /\ rid[w] < nextRequest
  BY DEF BrokerInv, RequestsDistinct, Cleanup
<1>e. /\ phase[w] = "cleanup"
      /\ \A j \in Ids : authorizations'[j] = IF j = rid[w] THEN NoKey ELSE authorizations[j]
      /\ \A v \in Clients : phase'[v] = IF v = w THEN "reap" ELSE phase[v]
  BY <1>i, NullsOutside DEF BrokerInv, BrokerTypeOK, Cleanup, Ids
<1>1. RequestsDistinct'
  BY <1>i, <1>u, <1>e DEF BrokerInv, RequestsDistinct
<1>2. FutureUnused'
  BY <1>i, <1>u, <1>e DEF BrokerInv, FutureUnused, Ids
<1>3. EntryOwned'
  BY <1>i, <1>u, <1>e DEF BrokerInv, EntryOwned, RequestsDistinct
<1>4. BufferedOffered'
  BY <1>i, <1>u, <1>e DEF BrokerInv, BufferedOffered, Live
<1>5. HolderUnique'
  BY <1>i, <1>u, <1>e DEF BrokerInv, HolderUnique, ListingTrue
<1>6. ListingTrue'
  BY <1>i, <1>u, <1>e DEF BrokerInv, ListingTrue, RequestsDistinct
<1>7. WaiterReachable'
  BY <1>i, <1>u, <1>e DEF BrokerInv, WaiterReachable, RequestsDistinct,
     SenderAlive
<1>8. AuthorizerReaped'
  BY <1>i, <1>u, <1>e DEF BrokerInv, AuthorizerReaped, Live
<1>9. DecidedOnExit'
  BY <1>i, <1>u, <1>e DEF BrokerInv, DecidedOnExit, RequestsDistinct
<1> QED
  BY <1>t, <1>GO, <1>ND, <1>AP, <1>1, <1>2, <1>3, <1>4, <1>5, <1>6, <1>7,
     <1>8, <1>9 DEF BrokerInv

\* A PIN dropped with its channel belonged to a request that gave up.
LEMMA StopAuthorizerInv ==
    ASSUME BrokerInv, NEW w \in Clients, StopAuthorizer(w)
    PROVE  BrokerInv'
<1>t. BrokerTypeOK'
  BY StopAuthorizerType DEF BrokerInv
<1>u. UNCHANGED <<nextRequest, authorizations, rid, keyName, result,
   cancelled, expired, ctl, listing, target, typed, offered, verdict>>
  BY DEF StopAuthorizer, workerVars, controlVars, auxVars
<1>GO. GrantOffered'
  BY <1>u DEF BrokerInv, GrantOffered
<1>ND. NeverDisconnected'
  BY <1>u DEF BrokerInv, NeverDisconnected
<1>i. rid[w] \in Ids /\ rid[w] < nextRequest
  BY DEF BrokerInv, RequestsDistinct, StopAuthorizer
<1>e. /\ phase[w] = "reap"
      /\ \A v \in Clients : authorizer'[v] = IF v = w THEN "none" ELSE authorizer[v]
      /\ \A j \in Ids : channel'[j] = IF j = rid[w] THEN NoPin ELSE channel[j]
      /\ \A v \in Clients : phase'[v] = IF v = w THEN "done" ELSE phase[v]
  BY <1>i, NullsOutside DEF BrokerInv, BrokerTypeOK, StopAuthorizer, Ids
<1>1. RequestsDistinct'
  BY <1>i, <1>u, <1>e DEF BrokerInv, RequestsDistinct
<1>2. FutureUnused'
  BY <1>i, <1>u, <1>e DEF BrokerInv, FutureUnused, Ids
<1>3. EntryOwned'
  BY <1>i, <1>u, <1>e DEF BrokerInv, EntryOwned
<1>4. BufferedOffered'
  BY <1>i, <1>u, <1>e DEF BrokerInv, BufferedOffered, Live
<1>5. HolderUnique'
  BY <1>i, <1>u, <1>e DEF BrokerInv, HolderUnique, ListingTrue
<1>6. ListingTrue'
  BY <1>i, <1>u, <1>e DEF BrokerInv, ListingTrue, RequestsDistinct
<1>7. WaiterReachable'
  BY <1>i, <1>u, <1>e DEF BrokerInv, WaiterReachable, RequestsDistinct,
     SenderAlive
<1>8. AcceptedPinNotLost'
  <2> SUFFICES ASSUME NEW d \in Controls, ctl'[d] = "authorized"
                   PROVE  \/ verdict'[target'[d]] \in
                                {typed'[d], "timed out", "cancelled"}
                          \/ channel'[target'[d]] = typed'[d]
    BY DEF AcceptedPinNotLost
  <2>1. target[d] \in Ids /\ typed[d] \in Pins /\ ctl[d] = "authorized"
    BY <1>u DEF BrokerInv, ListingTrue
  <2>2. CASE target[d] = rid[w] /\ channel[rid[w]] = typed[d]
    <3>1. verdict[rid[w]] \notin Pins
      BY <1>i, <2>1, <2>2, NullsOutside DEF BrokerInv, BufferedOffered
    <3>2. verdict[rid[w]] \in {"timed out", "cancelled"}
      BY <1>e, <3>1 DEF BrokerInv, DecidedOnExit
    <3> QED
      BY <1>u, <2>2, <3>2
  <2>3. CASE ~(target[d] = rid[w] /\ channel[rid[w]] = typed[d])
    BY <1>u, <1>e, <2>1, <2>3 DEF BrokerInv, AcceptedPinNotLost
  <2> QED
    BY <2>2, <2>3
<1>9. AuthorizerReaped'
  BY <1>i, <1>u, <1>e DEF BrokerInv, AuthorizerReaped, Live
<1>10. DecidedOnExit'
  BY <1>i, <1>u, <1>e DEF BrokerInv, DecidedOnExit, RequestsDistinct
<1> QED
  BY <1>t, <1>GO, <1>ND, <1>1, <1>2, <1>3, <1>4, <1>5, <1>6, <1>7, <1>8, <1>9,
     <1>10 DEF BrokerInv

\* The identifier of a finished call is forgotten by its worker only.
LEMMA ReturnPinInv ==
    ASSUME BrokerInv, NEW w \in Clients, ReturnPin(w)
    PROVE  BrokerInv'
<1>t. BrokerTypeOK'
  BY ReturnPinType DEF BrokerInv
<1>u. UNCHANGED <<nextRequest, authorizations, channel, cancelled, authorizer,
   ctl, listing, target, typed, offered, verdict>>
  BY DEF ReturnPin, workerVars, controlVars, auxVars
<1>FU. FutureUnused'
  BY <1>u DEF BrokerInv, FutureUnused
<1>HU. HolderUnique'
  BY <1>u DEF BrokerInv, HolderUnique
<1>GO. GrantOffered'
  BY <1>u DEF BrokerInv, GrantOffered
<1>ND. NeverDisconnected'
  BY <1>u DEF BrokerInv, NeverDisconnected
<1>AP. AcceptedPinNotLost'
  BY <1>u DEF BrokerInv, AcceptedPinNotLost
<1>i. rid[w] \in Ids /\ rid[w] < nextRequest
  BY DEF BrokerInv, RequestsDistinct, ReturnPin
<1>e. /\ phase[w] = "done"
      /\ \A v \in Clients : phase'[v] = IF v = w THEN "idle" ELSE phase[v]
      /\ \A v \in Clients : rid'[v] = IF v = w THEN NoId ELSE rid[v]
      /\ \A v \in Clients : keyName'[v] = IF v = w THEN NoKey ELSE keyName[v]
  BY <1>i, NullsOutside DEF BrokerInv, BrokerTypeOK, ReturnPin, Ids
<1>1. RequestsDistinct'
  BY <1>i, <1>u, <1>e DEF BrokerInv, RequestsDistinct, NoId
<1>2. EntryOwned'
  BY <1>i, <1>u, <1>e DEF BrokerInv, EntryOwned, NoId
<1>3. BufferedOffered'
  BY <1>i, <1>u, <1>e DEF BrokerInv, BufferedOffered, Live, NoId
<1>4. ListingTrue'
  BY <1>i, <1>u, <1>e DEF BrokerInv, ListingTrue, RequestsDistinct, NoId
<1>5. WaiterReachable'
  BY <1>i, <1>u, <1>e DEF BrokerInv, WaiterReachable, RequestsDistinct,
     SenderAlive, NoId
<1>6. AuthorizerReaped'
  BY <1>i, <1>u, <1>e DEF BrokerInv, AuthorizerReaped, Live, NoId
<1>7. DecidedOnExit'
  BY <1>i, <1>u, <1>e DEF BrokerInv, DecidedOnExit, RequestsDistinct, NoId
<1> QED
  BY <1>t, <1>FU, <1>HU, <1>GO, <1>ND, <1>AP, <1>1, <1>2, <1>3, <1>4, <1>5,
     <1>6, <1>7 DEF BrokerInv

\* A snapshot of the table is true of every live request.
LEMMA ListInv ==
    ASSUME BrokerInv, NEW c \in Controls, List(c)
    PROVE  BrokerInv'
<1>t. BrokerTypeOK'
  BY ListType DEF BrokerInv
<1>u. UNCHANGED <<nextRequest, authorizations, channel, phase, rid, keyName,
   result, cancelled, expired, authorizer, target, typed, offered, verdict>>
  BY DEF List, workerVars, controlVars, auxVars
<1>RD. RequestsDistinct'
  BY <1>u DEF BrokerInv, RequestsDistinct
<1>EO. EntryOwned'
  BY <1>u DEF BrokerInv, EntryOwned
<1>BO. BufferedOffered'
  BY <1>u DEF BrokerInv, BufferedOffered
<1>DE. DecidedOnExit'
  BY <1>u DEF BrokerInv, DecidedOnExit
<1>GO. GrantOffered'
  BY <1>u DEF BrokerInv, GrantOffered
<1>ND. NeverDisconnected'
  BY <1>u DEF BrokerInv, NeverDisconnected
<1>AR. AuthorizerReaped'
  BY <1>u DEF BrokerInv, AuthorizerReaped
<1>e. /\ ctl[c] = "idle"
      /\ \A d \in Controls : ctl'[d] = IF d = c THEN "listed" ELSE ctl[d]
      /\ \A d \in Controls : listing'[d] = IF d = c THEN authorizations ELSE listing[d]
  BY NullsOutside DEF BrokerInv, BrokerTypeOK, List, Ids
<1>1. FutureUnused'
  BY <1>u, <1>e DEF BrokerInv, FutureUnused, Ids
<1>2. HolderUnique'
  BY <1>u, <1>e DEF BrokerInv, HolderUnique, ListingTrue
<1>3. ListingTrue'
  BY <1>u, <1>e DEF BrokerInv, ListingTrue, EntryOwned, RequestsDistinct
<1>4. WaiterReachable'
  BY <1>u, <1>e DEF BrokerInv, WaiterReachable, RequestsDistinct, SenderAlive
<1>5. AcceptedPinNotLost'
  BY <1>u, <1>e DEF BrokerInv, AcceptedPinNotLost, ListingTrue
<1> QED
  BY <1>t, <1>RD, <1>EO, <1>BO, <1>DE, <1>GO, <1>ND, <1>AR, <1>1, <1>2, <1>3,
     <1>4, <1>5 DEF BrokerInv

\* The user chooses among the requests listed.
LEMMA PromptInv ==
    ASSUME BrokerInv, NEW c \in Controls, NEW i \in Ids, NEW p \in Pins,
       Prompt(c, i, p)
    PROVE  BrokerInv'
<1>t. BrokerTypeOK'
  BY PromptType DEF BrokerInv
<1>u. UNCHANGED <<nextRequest, authorizations, channel, phase, rid, keyName,
   result, cancelled, expired, authorizer, listing, offered, verdict>>
  BY DEF Prompt, workerVars, controlVars, auxVars
<1>RD. RequestsDistinct'
  BY <1>u DEF BrokerInv, RequestsDistinct
<1>EO. EntryOwned'
  BY <1>u DEF BrokerInv, EntryOwned
<1>BO. BufferedOffered'
  BY <1>u DEF BrokerInv, BufferedOffered
<1>DE. DecidedOnExit'
  BY <1>u DEF BrokerInv, DecidedOnExit
<1>GO. GrantOffered'
  BY <1>u DEF BrokerInv, GrantOffered
<1>ND. NeverDisconnected'
  BY <1>u DEF BrokerInv, NeverDisconnected
<1>AR. AuthorizerReaped'
  BY <1>u DEF BrokerInv, AuthorizerReaped
<1>e. /\ ctl[c] = "listed"
      /\ listing[c][i] # NoKey
      /\ \A d \in Controls : ctl'[d] = IF d = c THEN "prompted" ELSE ctl[d]
      /\ \A d \in Controls : target'[d] = IF d = c THEN i ELSE target[d]
      /\ \A d \in Controls : typed'[d] = IF d = c THEN p ELSE typed[d]
  BY NullsOutside DEF BrokerInv, BrokerTypeOK, Prompt, Ids
<1>1. FutureUnused'
  BY <1>u, <1>e DEF BrokerInv, FutureUnused, Ids
<1>2. HolderUnique'
  BY <1>u, <1>e DEF BrokerInv, HolderUnique, ListingTrue
<1>3. ListingTrue'
  BY <1>u, <1>e DEF BrokerInv, ListingTrue, RequestsDistinct
<1>4. WaiterReachable'
  BY <1>u, <1>e DEF BrokerInv, WaiterReachable, RequestsDistinct, SenderAlive
<1>5. AcceptedPinNotLost'
  BY <1>u, <1>e DEF BrokerInv, AcceptedPinNotLost, ListingTrue
<1> QED
  BY <1>t, <1>RD, <1>EO, <1>BO, <1>DE, <1>GO, <1>ND, <1>AR, <1>1, <1>2, <1>3,
     <1>4, <1>5 DEF BrokerInv

\* Whoever removes the entry gets the only sender.
LEMMA AuthorizeRemoveInv ==
    ASSUME BrokerInv, NEW c \in Controls, AuthorizeRemove(c)
    PROVE  BrokerInv'
<1>t. BrokerTypeOK'
  BY AuthorizeRemoveType DEF BrokerInv
<1>u. UNCHANGED <<nextRequest, channel, phase, rid, keyName, result,
   cancelled, expired, authorizer, listing, target, typed, verdict>>
  BY DEF AuthorizeRemove, workerVars, controlVars, auxVars
<1>RD. RequestsDistinct'
  BY <1>u DEF BrokerInv, RequestsDistinct
<1>DE. DecidedOnExit'
  BY <1>u DEF BrokerInv, DecidedOnExit
<1>ND. NeverDisconnected'
  BY <1>u DEF BrokerInv, NeverDisconnected
<1>AR. AuthorizerReaped'
  BY <1>u DEF BrokerInv, AuthorizerReaped
<1>j. target[c] \in Ids
  BY DEF BrokerInv, ListingTrue, AuthorizeRemove
<1>i. target[c] \in Ids /\ target[c] < nextRequest
  BY <1>j, BoundIsNat DEF BrokerInv, FutureUnused, BrokerTypeOK, Ids
<1>1. CASE authorizations[target[c]] # NoKey
  <2>e. /\ ctl[c] = "prompted"
        /\ typed[c] \in Pins
        /\ \A j \in Ids : authorizations'[j] = IF j = target[c] THEN NoKey ELSE authorizations[j]
        /\ \A j \in Ids : offered'[j] = IF j = target[c] THEN typed[c] ELSE offered[j]
        /\ \A d \in Controls : ctl'[d] = IF d = c THEN "holding" ELSE ctl[d]
    BY ZenonT(60), <1>1, <1>i, NullsOutside DEF BrokerInv, BrokerTypeOK, AuthorizeRemove,
       ListingTrue, Ids
  <2>1. FutureUnused'
    BY <1>1, <1>i, <1>u, <2>e DEF BrokerInv, FutureUnused, Ids
  <2>2. EntryOwned'
    BY <1>1, <1>i, <1>u, <2>e DEF BrokerInv, EntryOwned
  <2>3. BufferedOffered'
    BY <1>1, <1>i, <1>u, <2>e, NullsOutside DEF BrokerInv, BufferedOffered,
       EntryOwned, Live
  <2>4. HolderUnique'
    BY <1>1, <1>i, <1>u, <2>e, NullsOutside DEF BrokerInv, HolderUnique,
       BufferedOffered, EntryOwned, GrantOffered, ListingTrue, Live
  <2>5. ListingTrue'
    BY <1>1, <1>i, <1>u, <2>e DEF BrokerInv, ListingTrue, RequestsDistinct
  <2>6. WaiterReachable'
    BY <1>1, <1>i, <1>u, <2>e DEF BrokerInv, WaiterReachable,
       RequestsDistinct, SenderAlive
  <2>7. GrantOffered'
    BY <1>1, <1>i, <1>u, <2>e, NullsOutside DEF BrokerInv, GrantOffered,
       EntryOwned
  <2>8. AcceptedPinNotLost'
    BY <1>1, <1>i, <1>u, <2>e DEF BrokerInv, AcceptedPinNotLost, ListingTrue
  <2> QED
    BY <1>t, <1>RD, <1>DE, <1>ND, <1>AR, <2>1, <2>2, <2>3, <2>4, <2>5, <2>6,
       <2>7, <2>8 DEF BrokerInv
<1>2. CASE authorizations[target[c]] = NoKey
  <2>e. /\ ctl[c] = "prompted"
        /\ UNCHANGED <<authorizations, offered>>
        /\ \A d \in Controls : ctl'[d] = IF d = c THEN "not pending" ELSE ctl[d]
    BY <1>2, <1>i, NullsOutside DEF BrokerInv, BrokerTypeOK, AuthorizeRemove,
       ListingTrue, Ids
  <2>1. FutureUnused'
    BY <1>2, <1>i, <1>u, <2>e DEF BrokerInv, FutureUnused, Ids
  <2>2. EntryOwned'
    BY ZenonT(60), <1>2, <1>i, <1>u, <2>e DEF BrokerInv, EntryOwned
  <2>3. BufferedOffered'
    BY <1>2, <1>i, <1>u, <2>e, NullsOutside DEF BrokerInv, BufferedOffered,
       EntryOwned, Live
  <2>4. HolderUnique'
    <3>1. \A d \in Controls : ctl'[d] = "holding" => ctl[d] = "holding"
      BY <2>e
    <3> QED
      BY <1>u, <2>e, <3>1 DEF BrokerInv, HolderUnique
  <2>5. ListingTrue'
    BY <1>2, <1>i, <1>u, <2>e DEF BrokerInv, ListingTrue, RequestsDistinct
  <2>6. WaiterReachable'
    BY ZenonT(60), <1>2, <1>i, <1>u, <2>e DEF BrokerInv, WaiterReachable,
       RequestsDistinct, SenderAlive
  <2>7. GrantOffered'
    BY <1>2, <1>i, <1>u, <2>e, NullsOutside DEF BrokerInv, GrantOffered,
       EntryOwned
  <2>8. AcceptedPinNotLost'
    BY <1>2, <1>i, <1>u, <2>e DEF BrokerInv, AcceptedPinNotLost, ListingTrue
  <2> QED
    BY <1>t, <1>RD, <1>DE, <1>ND, <1>AR, <2>1, <2>2, <2>3, <2>4, <2>5, <2>6,
       <2>7, <2>8 DEF BrokerInv
<1> QED
  BY <1>1, <1>2

\* The buffer is empty, or the receiver is gone and nobody waits.
LEMMA AuthorizeSendInv ==
    ASSUME BrokerInv, NEW c \in Controls, AuthorizeSend(c)
    PROVE  BrokerInv'
<1>t. BrokerTypeOK'
  BY AuthorizeSendType DEF BrokerInv
<1>u. UNCHANGED <<nextRequest, authorizations, phase, rid, keyName, result,
   cancelled, expired, authorizer, listing, target, typed, offered, verdict>>
  BY DEF AuthorizeSend, workerVars, controlVars, auxVars
<1>RD. RequestsDistinct'
  BY <1>u DEF BrokerInv, RequestsDistinct
<1>EO. EntryOwned'
  BY <1>u DEF BrokerInv, EntryOwned
<1>DE. DecidedOnExit'
  BY <1>u DEF BrokerInv, DecidedOnExit
<1>GO. GrantOffered'
  BY <1>u DEF BrokerInv, GrantOffered
<1>ND. NeverDisconnected'
  BY <1>u DEF BrokerInv, NeverDisconnected
<1>AR. AuthorizerReaped'
  BY <1>u DEF BrokerInv, AuthorizerReaped
<1>j. target[c] \in Ids
  BY DEF BrokerInv, ListingTrue, AuthorizeSend
<1>i. target[c] \in Ids /\ target[c] < nextRequest
  BY <1>j, BoundIsNat DEF BrokerInv, FutureUnused, BrokerTypeOK, Ids
<1>1. CASE ReceiverAlive(target[c])
  <2>e. /\ ctl[c] = "holding"
        /\ \A j \in Ids : channel'[j] = IF j = target[c] THEN typed[c] ELSE channel[j]
        /\ \A d \in Controls : ctl'[d] = IF d = c THEN "authorized" ELSE ctl[d]
    BY <1>1, <1>i, NullsOutside DEF BrokerInv, BrokerTypeOK, AuthorizeSend, Ids
  <2>1. FutureUnused'
    BY <1>1, <1>i, <1>u, <2>e DEF BrokerInv, FutureUnused, ReceiverAlive, Ids
  <2>2. BufferedOffered'
    BY <1>1, <1>i, <1>u, <2>e DEF BrokerInv, BufferedOffered, HolderUnique,
       Live, ReceiverAlive
  <2>3. HolderUnique'
    BY <1>1, <1>i, <1>u, <2>e DEF BrokerInv, HolderUnique, ListingTrue,
       ReceiverAlive
  <2>4. ListingTrue'
    BY <1>1, <1>i, <1>u, <2>e DEF BrokerInv, ListingTrue, RequestsDistinct,
       ReceiverAlive
  <2>5. WaiterReachable'
    <3> SUFFICES ASSUME NEW v \in Clients, phase'[v] \in {"wait", "polled"}
                     PROVE  SenderAlive(rid[v])' \/ channel'[rid'[v]] # NoPin
      BY DEF WaiterReachable, SenderAlive
    <3>1. phase[v] \in {"wait", "polled"} /\ rid[v] \in Ids /\ rid'[v] = rid[v]
      BY <1>u DEF BrokerInv, RequestsDistinct
    <3>2. \/ authorizations[rid[v]] # NoKey
            \/ channel[rid[v]] # NoPin
            \/ \E d \in Controls : ctl[d] = "holding" /\ target[d] = rid[v]
      BY <3>1 DEF BrokerInv, WaiterReachable, SenderAlive
    <3>3. typed[c] # NoPin
      BY <2>e, NullsOutside DEF BrokerInv, ListingTrue
    <3>4. CASE rid[v] = target[c]
      BY <2>e, <1>i, <3>1, <3>3, <3>4
    <3>5. CASE rid[v] # target[c]
      BY <1>u, <2>e, <3>1, <3>2, <3>5 DEF SenderAlive
    <3> QED
      BY <3>4, <3>5
  <2>6. AcceptedPinNotLost'
    <3> SUFFICES ASSUME NEW d \in Controls, ctl'[d] = "authorized"
                     PROVE  \/ verdict'[target'[d]] \in
                                  {typed'[d], "timed out", "cancelled"}
                            \/ channel'[target'[d]] = typed'[d]
      BY DEF AcceptedPinNotLost
    <3>1. CASE d = c
      BY <1>u, <2>e, <1>i, <3>1
    <3>2. CASE d # c
      <4>1. ctl[d] = "authorized" /\ target[d] \in Ids /\ typed[d] \in Pins
        BY <1>u, <2>e, <3>2 DEF BrokerInv, ListingTrue
      <4>2. CASE target[d] = target[c]
        <5>1. channel[target[d]] = NoPin
          BY <2>e, <4>2 DEF BrokerInv, HolderUnique
        <5> QED
          BY <1>u, <4>1, <5>1, NullsOutside DEF BrokerInv, AcceptedPinNotLost
      <4>3. CASE target[d] # target[c]
        BY <1>u, <2>e, <4>1, <4>3 DEF BrokerInv, AcceptedPinNotLost
      <4> QED
        BY <4>2, <4>3
    <3> QED
      BY <3>1, <3>2
  <2> QED
    BY <1>t, <1>RD, <1>EO, <1>DE, <1>GO, <1>ND, <1>AR, <2>1, <2>2, <2>3, <2>4,
       <2>5, <2>6 DEF BrokerInv
<1>2. CASE ~ReceiverAlive(target[c])
  <2>e. /\ ctl[c] = "holding"
        /\ channel' = channel
        /\ \A d \in Controls : ctl'[d] = IF d = c THEN "inactive" ELSE ctl[d]
    BY <1>2, <1>i, NullsOutside DEF BrokerInv, BrokerTypeOK, AuthorizeSend, Ids
  <2>1. FutureUnused'
    BY <1>2, <1>i, <1>u, <2>e DEF BrokerInv, FutureUnused, ReceiverAlive, Ids
  <2>2. BufferedOffered'
    BY <1>2, <1>i, <1>u, <2>e DEF BrokerInv, BufferedOffered, HolderUnique,
       Live, ReceiverAlive
  <2>3. HolderUnique'
    BY <1>2, <1>i, <1>u, <2>e DEF BrokerInv, HolderUnique, ListingTrue,
       ReceiverAlive
  <2>4. ListingTrue'
    BY <1>2, <1>i, <1>u, <2>e DEF BrokerInv, ListingTrue, RequestsDistinct,
       ReceiverAlive
  <2>5. WaiterReachable'
    <3> SUFFICES ASSUME NEW v \in Clients, phase'[v] \in {"wait", "polled"}
                     PROVE  SenderAlive(rid[v])' \/ channel'[rid'[v]] # NoPin
      BY DEF WaiterReachable, SenderAlive
    <3>1. phase[v] \in {"wait", "polled"} /\ rid[v] \in Ids /\ rid'[v] = rid[v]
      BY <1>u DEF BrokerInv, RequestsDistinct
    <3>2. \/ authorizations[rid[v]] # NoKey
            \/ channel[rid[v]] # NoPin
            \/ \E d \in Controls : ctl[d] = "holding" /\ target[d] = rid[v]
      BY <3>1 DEF BrokerInv, WaiterReachable, SenderAlive
    <3>3. rid[v] # target[c]
      BY <1>2, <3>1 DEF ReceiverAlive, Live
    <3> QED
      BY <1>u, <2>e, <3>1, <3>2, <3>3 DEF SenderAlive
  <2>6. AcceptedPinNotLost'
    BY <1>2, <1>i, <1>u, <2>e, NullsOutside DEF BrokerInv, AcceptedPinNotLost,
       HolderUnique, ListingTrue, ReceiverAlive
  <2> QED
    BY <1>t, <1>RD, <1>EO, <1>DE, <1>GO, <1>ND, <1>AR, <2>1, <2>2, <2>3, <2>4,
       <2>5, <2>6 DEF BrokerInv
<1> QED
  BY <1>1, <1>2

\* A session that ends holds no sender.
LEMMA EndSessionInv ==
    ASSUME BrokerInv, NEW c \in Controls, EndSession(c)
    PROVE  BrokerInv'
<1>t. BrokerTypeOK'
  BY EndSessionType DEF BrokerInv
<1>u. UNCHANGED <<nextRequest, authorizations, channel, phase, rid, keyName,
   result, cancelled, expired, authorizer, offered, verdict>>
  BY DEF EndSession, workerVars, controlVars, auxVars
<1>RD. RequestsDistinct'
  BY <1>u DEF BrokerInv, RequestsDistinct
<1>EO. EntryOwned'
  BY <1>u DEF BrokerInv, EntryOwned
<1>BO. BufferedOffered'
  BY <1>u DEF BrokerInv, BufferedOffered
<1>DE. DecidedOnExit'
  BY <1>u DEF BrokerInv, DecidedOnExit
<1>GO. GrantOffered'
  BY <1>u DEF BrokerInv, GrantOffered
<1>ND. NeverDisconnected'
  BY <1>u DEF BrokerInv, NeverDisconnected
<1>AR. AuthorizerReaped'
  BY <1>u DEF BrokerInv, AuthorizerReaped
<1>e. /\ ctl[c] # "holding"
      /\ \A d \in Controls : ctl'[d] = IF d = c THEN "idle" ELSE ctl[d]
      /\ \A d \in Controls : listing'[d] = IF d = c THEN [j \in Ids |-> NoKey] ELSE listing[d]
      /\ \A d \in Controls : target'[d] = IF d = c THEN NoId ELSE target[d]
      /\ \A d \in Controls : typed'[d] = IF d = c THEN NoPin ELSE typed[d]
  BY NullsOutside DEF BrokerInv, BrokerTypeOK, EndSession, Replies, Ids
<1>1. FutureUnused'
  <2>1. \A d \in Controls, j \in Ids : \/ listing'[d][j] = listing[d][j]
                                           \/ listing'[d][j] = NoKey
    BY <1>e
  <2>2. \A d \in Controls : target'[d] = target[d] \/ target'[d] = 0
    BY <1>e DEF NoId
  <2> QED
    BY <1>u, <2>1, <2>2 DEF BrokerInv, FutureUnused, Ids
<1>2. HolderUnique'
  BY <1>u, <1>e DEF BrokerInv, HolderUnique, ListingTrue, NoId
<1>3. ListingTrue'
  BY <1>u, <1>e DEF BrokerInv, ListingTrue, RequestsDistinct, NoId
<1>4. WaiterReachable'
  BY <1>u, <1>e DEF BrokerInv, WaiterReachable, RequestsDistinct, SenderAlive,
     NoId
<1>5. AcceptedPinNotLost'
  BY <1>u, <1>e DEF BrokerInv, AcceptedPinNotLost, ListingTrue, NoId
<1> QED
  BY <1>t, <1>RD, <1>EO, <1>BO, <1>DE, <1>GO, <1>ND, <1>AR, <1>1, <1>2, <1>3,
     <1>4, <1>5 DEF BrokerInv

-----------------------------------------------------------------------------

\* Every step of the broker preserves the invariant.
LEMMA BrokerStepInv == BrokerInv /\ [BrokerNext]_brokerVars => BrokerInv'
<1> SUFFICES ASSUME BrokerInv, [BrokerNext]_brokerVars
             PROVE  BrokerInv'
  OBVIOUS
<1>1. CASE UNCHANGED brokerVars
  <2>u. UNCHANGED <<nextRequest, authorizations, channel, phase, rid, keyName,
           result, cancelled, expired, authorizer, ctl, listing, target, typed,
           offered, verdict>>
    BY <1>1 DEF brokerVars, workerVars, controlVars, auxVars
  <2>1. BrokerTypeOK'
    BY <2>u DEF BrokerInv, BrokerTypeOK
  <2>2. RequestsDistinct'
    BY <2>u DEF BrokerInv, RequestsDistinct
  <2>3. FutureUnused'
    BY <2>u DEF BrokerInv, FutureUnused
  <2>4. EntryOwned'
    BY <2>u DEF BrokerInv, EntryOwned
  <2>5. BufferedOffered'
    BY <2>u DEF BrokerInv, BufferedOffered
  <2>6. HolderUnique'
    BY <2>u DEF BrokerInv, HolderUnique
  <2>7. ListingTrue'
    BY <2>u DEF BrokerInv, ListingTrue
  <2>8. DecidedOnExit'
    BY <2>u DEF BrokerInv, DecidedOnExit
  <2>9. WaiterReachable'
    BY <2>u DEF BrokerInv, WaiterReachable, SenderAlive
  <2>10. GrantOffered'
    BY <2>u DEF BrokerInv, GrantOffered
  <2>11. NeverDisconnected'
    BY <2>u DEF BrokerInv, NeverDisconnected
  <2>12. AcceptedPinNotLost'
    BY <2>u DEF BrokerInv, AcceptedPinNotLost
  <2>13. AuthorizerReaped'
    BY <2>u DEF BrokerInv, AuthorizerReaped
  <2> QED
    BY <2>1, <2>2, <2>3, <2>4, <2>5, <2>6, <2>7, <2>8, <2>9, <2>10, <2>11,
       <2>12, <2>13 DEF BrokerInv
<1>2. ASSUME NEW w \in Clients,
             \/ NewCancellation(w)
             \/ Cancel(w)
             \/ \E k \in Keys : RequestPin(w, k)
             \/ Expire(w)
             \/ AuthorizerExits(w)
             \/ WorkerStep(w)
             \/ ReturnPin(w)
      PROVE  BrokerInv'
  BY <1>2, NewCancellationInv, CancelInv, RequestPinInv, ExpireInv,
     AuthorizerExitsInv, TryRecvInv, PollDeadlineInv, CleanupInv,
     StopAuthorizerInv, ReturnPinInv DEF WorkerStep
<1>3. ASSUME NEW c \in Controls,
             \/ List(c)
             \/ \E i \in Ids, p \in Pins : Prompt(c, i, p)
             \/ ControlStep(c)
             \/ EndSession(c)
      PROVE  BrokerInv'
  BY <1>3, ListInv, PromptInv, AuthorizeRemoveInv, AuthorizeSendInv,
     EndSessionInv DEF ControlStep
<1> QED
  BY <1>1, <1>2, <1>3 DEF BrokerNext

\* The broker starts with an empty table and nobody in request_pin.
LEMMA BrokerInitInv == BrokerInit => BrokerInv
<1> SUFFICES ASSUME BrokerInit PROVE BrokerInv
  OBVIOUS
<1>1. BrokerTypeOK
  BY BoundIsNat DEF BrokerInit, BrokerTypeOK, Phases
<1>2. RequestsDistinct /\ EntryOwned /\ BufferedOffered /\ HolderUnique
  BY DEF BrokerInit, RequestsDistinct, EntryOwned, BufferedOffered, HolderUnique
<1>3. FutureUnused
  BY DEF BrokerInit, FutureUnused, Ids, NoId
<1>4. ListingTrue /\ DecidedOnExit /\ WaiterReachable
  BY DEF BrokerInit, ListingTrue, DecidedOnExit, WaiterReachable
<1>5. GrantOffered /\ NeverDisconnected
  BY BrokerAssumption DEF BrokerInit, GrantOffered, NeverDisconnected
<1>6. AcceptedPinNotLost /\ AuthorizerReaped
  BY DEF BrokerInit, AcceptedPinNotLost, AuthorizerReaped
<1> QED
  BY <1>1, <1>2, <1>3, <1>4, <1>5, <1>6 DEF BrokerInv

\* BrokerInv holds in every reachable state of request_pin, LIST and AUTHORIZE.
THEOREM BrokerInvariance == BrokerSafety => []BrokerInv
<1>1. BrokerInit => BrokerInv
  BY BrokerInitInv
<1>2. BrokerInv /\ [BrokerNext]_brokerVars => BrokerInv'
  BY BrokerStepInv
<1> QED
  BY <1>1, <1>2, PTL DEF BrokerSafety

\* The variables of the broker always have their types.
THEOREM BrokerTypeCorrect == BrokerSafety => []BrokerTypeOK
<1>1. BrokerInv => BrokerTypeOK
  BY DEF BrokerInv
<1> QED
  BY <1>1, BrokerInvariance, PTL

\* request_pin never leaves an entry behind that could be listed or answered.
THEOREM BrokerPendingOwned == BrokerSafety => []PendingOwned
<1>1. BrokerInv => PendingOwned
  BY DEF BrokerInv, EntryOwned, PendingOwned
<1> QED
  BY <1>1, BrokerInvariance, PTL

\* A control thread never blocks in send, whatever other sessions do.
THEOREM BrokerSendNeverBlocks == BrokerSafety => []SendNeverBlocks
<1>1. BrokerInv => SendNeverBlocks
  BY DEF BrokerInv, HolderUnique, SendNeverBlocks
<1> QED
  BY <1>1, BrokerInvariance, PTL

\* try_recv never answers Disconnected.
THEOREM BrokerNeverDisconnected == BrokerSafety => []NeverDisconnected
<1>1. BrokerInv => NeverDisconnected
  BY DEF BrokerInv
<1> QED
  BY <1>1, BrokerInvariance, PTL

\* A PIN is only ever given to a request for the key its user was shown.
THEOREM BrokerPromptNamesTheKey == BrokerSafety => []PromptNamesTheKey
<1>1. BrokerInv => PromptNamesTheKey
  BY DEF BrokerInv, ListingTrue, PromptNamesTheKey
<1> QED
  BY <1>1, BrokerInvariance, PTL

\* "OK authorized" is said of a PIN that was delivered, or came too late.
THEOREM BrokerAcceptedPinNotLost == BrokerSafety => []AcceptedPinNotLost
<1>1. BrokerInv => AcceptedPinNotLost
  BY DEF BrokerInv
<1> QED
  BY <1>1, BrokerInvariance, PTL

\* The graphical authorizer of a request ends with it.
THEOREM BrokerAuthorizerReaped == BrokerSafety => []AuthorizerReaped
<1>1. BrokerInv => AuthorizerReaped
  BY DEF BrokerInv
<1> QED
  BY <1>1, BrokerInvariance, PTL

-----------------------------------------------------------------------------
(* Refinement: the broker implements AuthGate.                              *)

\* What a request looks like from outside.
GateStatus == [i \in Ids |-> IF verdict[i] \in Denials THEN "denied" ELSE verdict[i]]

\* A request decided or opened by a step of the broker changes in GateStatus
\* the same way, and only there.
LEMMA GateStatusUpdate ==
    ASSUME BrokerTypeOK, NEW i \in Ids, NEW v,
           verdict' = [verdict EXCEPT ![i] = v]
    PROVE  GateStatus' = [GateStatus EXCEPT ![i] = IF v \in Denials THEN "denied" ELSE v]
  BY DEF GateStatus, BrokerTypeOK

\* request_pin opens a request under an identifier nobody used.
LEMMA RequestPinOpens ==
    ASSUME BrokerInv, NEW w \in Clients, NEW k \in Keys, RequestPin(w, k)
    PROVE  Gate!Open(nextRequest) /\ nextRequest \in Ids
<1>1. nextRequest \in Ids /\ verdict' = [verdict EXCEPT ![nextRequest] = "open"]
  BY DEF RequestPin
<1>2. verdict[nextRequest] = "unused"
  BY <1>1, BoundIsNat DEF BrokerInv, FutureUnused, Ids
<1>3. GateStatus' = [GateStatus EXCEPT ![nextRequest] = "open"]
  BY <1>1, GateStatusUpdate DEF BrokerInv, Denials
<1>4. GateStatus[nextRequest] = "unused"
  BY <1>1, <1>2 DEF GateStatus, Denials
<1>5. offered' = offered
  BY DEF RequestPin
<1> QED
  BY <1>1, <1>3, <1>4, <1>5 DEF Gate!Open, GateStatus

\* try_recv grants the PIN that was offered, denies, or decides nothing.
LEMMA TryRecvDecides ==
    ASSUME BrokerInv, NEW w \in Clients, TryRecv(w)
    PROVE  \/ UNCHANGED Gate!gateVars
           \/ (rid[w] \in Ids /\ (Gate!Grant(rid[w]) \/ Gate!Deny(rid[w])))
<1>1. rid[w] \in Ids /\ verdict[rid[w]] = "open"
  BY DEF BrokerInv, RequestsDistinct, DecidedOnExit, TryRecv
<1>2. GateStatus[rid[w]] = "open"
  BY <1>1 DEF GateStatus, Denials
<1>3. offered' = offered
  BY DEF TryRecv
<1>4. CASE channel[rid[w]] # NoPin
  <2>1. verdict' = [verdict EXCEPT ![rid[w]] = channel[rid[w]]]
    BY <1>4 DEF TryRecv
  <2>2. channel[rid[w]] = offered[rid[w]] /\ channel[rid[w]] \in Pins
    BY <1>1, <1>4 DEF BrokerInv, BufferedOffered, BrokerTypeOK
  <2>3. channel[rid[w]] \notin Denials
    BY <2>2, PinsDistinct DEF Denials
  <2>4. GateStatus' = [GateStatus EXCEPT ![rid[w]] = offered[rid[w]]]
    BY <1>1, <2>1, <2>2, <2>3, GateStatusUpdate DEF BrokerInv
  <2> QED
    BY <1>1, <1>2, <1>3, <1>4, <2>2, <2>4 DEF Gate!Grant, GateStatus
<1>5. CASE channel[rid[w]] = NoPin /\ ~SenderAlive(rid[w])
  <2>1. verdict' = [verdict EXCEPT ![rid[w]] = "disconnected"]
    BY <1>5 DEF TryRecv
  <2>2. GateStatus' = [GateStatus EXCEPT ![rid[w]] = "denied"]
    BY <1>1, <2>1, GateStatusUpdate DEF BrokerInv, Denials
  <2> QED
    BY <1>1, <1>2, <1>3, <2>2 DEF Gate!Deny, GateStatus
<1>6. CASE channel[rid[w]] = NoPin /\ SenderAlive(rid[w])
  <2>1. verdict' = verdict
    BY <1>6 DEF TryRecv
  <2> QED
    BY <1>3, <2>1 DEF Gate!gateVars
<1> QED
  BY <1>4, <1>5, <1>6

\* The deadline and the lost client deny the request, or decide nothing.
LEMMA PollDeadlineDecides ==
    ASSUME BrokerInv, NEW w \in Clients, PollDeadline(w)
    PROVE  UNCHANGED Gate!gateVars \/ (rid[w] \in Ids /\ Gate!Deny(rid[w]))
<1>1. rid[w] \in Ids /\ verdict[rid[w]] = "open"
  BY DEF BrokerInv, RequestsDistinct, DecidedOnExit, PollDeadline
<1>2. GateStatus[rid[w]] = "open"
  BY <1>1 DEF GateStatus, Denials
<1>3. offered' = offered
  BY DEF PollDeadline
<1>4. \/ verdict' = [verdict EXCEPT ![rid[w]] = "timed out"]
      \/ verdict' = [verdict EXCEPT ![rid[w]] = "cancelled"]
      \/ verdict' = verdict
  BY DEF PollDeadline
<1>5. CASE verdict' = verdict
  BY <1>3, <1>5 DEF Gate!gateVars
<1>6. CASE verdict' # verdict
  <2>1. GateStatus' = [GateStatus EXCEPT ![rid[w]] = "denied"]
    BY <1>1, <1>4, <1>6, GateStatusUpdate DEF BrokerInv, Denials
  <2> QED
    BY <1>1, <1>2, <1>3, <2>1 DEF Gate!Deny, GateStatus
<1> QED
  BY <1>5, <1>6

\* Whoever takes the entry out of the table offers the first and only PIN.
LEMMA AuthorizeRemoveOffers ==
    ASSUME BrokerInv, NEW c \in Controls, AuthorizeRemove(c)
    PROVE  \/ UNCHANGED Gate!gateVars
           \/ target[c] \in Ids /\ typed[c] \in Pins /\ Gate!Offer(target[c], typed[c])
<1>1. verdict' = verdict
  BY DEF AuthorizeRemove
<1>2. CASE authorizations[target[c]] = NoKey
  <2>1. offered' = offered
    BY <1>2 DEF AuthorizeRemove
  <2> QED
    BY <1>1, <2>1 DEF Gate!gateVars
<1>3. CASE authorizations[target[c]] # NoKey
  <2>1. target[c] \in Ids /\ typed[c] \in Pins
    BY DEF BrokerInv, ListingTrue, AuthorizeRemove
  <2>2. offered' = [offered EXCEPT ![target[c]] = typed[c]]
    BY <1>3 DEF AuthorizeRemove
  <2>3. offered[target[c]] = NoPin
    BY <1>3, <2>1 DEF BrokerInv, EntryOwned
  <2>4. PICK w \in Clients : /\ phase[w] \in {"wait", "polled", "cleanup"}
                             /\ rid[w] = target[c]
    BY <1>3, <2>1 DEF BrokerInv, EntryOwned
  <2>5. verdict[target[c]] \notin Pins
    BY <2>1, <2>3, NullsOutside DEF BrokerInv, GrantOffered
  <2>6. verdict[target[c]] \in {"open", "timed out", "cancelled"}
    BY <2>4, <2>5 DEF BrokerInv, DecidedOnExit
  <2>7. GateStatus[target[c]] \in {"open", "denied"}
    BY <2>1, <2>6 DEF GateStatus, Denials
  <2>8. GateStatus' = GateStatus
    BY <1>1 DEF GateStatus
  <2> QED
    BY <2>1, <2>2, <2>3, <2>7, <2>8 DEF Gate!Offer, GateStatus
<1> QED
  BY <1>2, <1>3

\* Every step of the broker is a step of the gate or leaves it alone.
LEMMA GateStep ==
    BrokerInv /\ [BrokerNext]_brokerVars => [Gate!GateNext]_(Gate!gateVars)
<1> SUFFICES ASSUME BrokerInv, [BrokerNext]_brokerVars
             PROVE  Gate!GateNext \/ UNCHANGED Gate!gateVars
  OBVIOUS
<1>1. CASE UNCHANGED <<offered, verdict>>
  BY <1>1 DEF Gate!gateVars
<1>2. ASSUME NEW w \in Clients, NEW k \in Keys, RequestPin(w, k)
      PROVE  Gate!GateNext
  <2>1. Gate!Open(nextRequest) /\ nextRequest \in Ids
    BY <1>2, RequestPinOpens
  <2> QED
    BY <2>1 DEF Gate!GateNext, Gate!Open
<1>3. ASSUME NEW w \in Clients, TryRecv(w)
      PROVE  Gate!GateNext \/ UNCHANGED Gate!gateVars
  <2>1. \/ UNCHANGED Gate!gateVars
        \/ (rid[w] \in Ids /\ (Gate!Grant(rid[w]) \/ Gate!Deny(rid[w])))
    BY <1>3, TryRecvDecides
  <2> QED
    BY <2>1 DEF Gate!GateNext, Gate!Grant, Gate!Deny
<1>4. ASSUME NEW w \in Clients, PollDeadline(w)
      PROVE  Gate!GateNext \/ UNCHANGED Gate!gateVars
  <2>1. UNCHANGED Gate!gateVars \/ (rid[w] \in Ids /\ Gate!Deny(rid[w]))
    BY <1>4, PollDeadlineDecides
  <2> QED
    BY <2>1 DEF Gate!GateNext, Gate!Deny
<1>5. ASSUME NEW c \in Controls, AuthorizeRemove(c)
      PROVE  Gate!GateNext \/ UNCHANGED Gate!gateVars
  <2>1. \/ UNCHANGED Gate!gateVars
        \/ target[c] \in Ids /\ typed[c] \in Pins /\ Gate!Offer(target[c], typed[c])
    BY <1>5, AuthorizeRemoveOffers
  <2> QED
    BY <2>1 DEF Gate!GateNext, Gate!Offer
<1>6. ASSUME NEW w \in Clients,
             \/ NewCancellation(w) \/ Cancel(w) \/ Expire(w)
             \/ AuthorizerExits(w) \/ Cleanup(w) \/ StopAuthorizer(w)
             \/ ReturnPin(w)
      PROVE  UNCHANGED <<offered, verdict>>
  BY <1>6 DEF NewCancellation, Cancel, Expire, AuthorizerExits, Cleanup,
     StopAuthorizer, ReturnPin, auxVars
<1>7. ASSUME NEW c \in Controls,
             \/ List(c) \/ AuthorizeSend(c) \/ EndSession(c)
             \/ \E i \in Ids, p \in Pins : Prompt(c, i, p)
      PROVE  UNCHANGED <<offered, verdict>>
  BY <1>7 DEF List, Prompt, AuthorizeSend, EndSession, auxVars
<1>8. CASE UNCHANGED brokerVars
  BY <1>1, <1>8 DEF brokerVars, auxVars
<1> QED
  BY <1>1, <1>2, <1>3, <1>4, <1>5, <1>6, <1>7, <1>8
     DEF BrokerNext, WorkerStep, ControlStep

\* request_pin and AUTHORIZE implement the one-shot gate: a request is decided
\* once, for the PIN accepted under its identifier or for none.
THEOREM BrokerImplementsGate == BrokerSafety => ImplementsGate
<1>1. BrokerInit => Gate!GateInit
  BY DEF BrokerInit, Gate!GateInit, Denials
<1>2. BrokerInv /\ [BrokerNext]_brokerVars => [Gate!GateNext]_(Gate!gateVars)
  BY GateStep
<1> QED
  BY <1>1, <1>2, BrokerInvariance, PTL DEF BrokerSafety, ImplementsGate, Gate!GateSpec
=============================================================================
