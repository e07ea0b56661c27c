----------------------------- MODULE AuthBroker -----------------------------
(***************************************************************************)
(* The PIN authorization broker of keyvisor-agent: AgentRuntime.request_pin *)
(* on the side of the SSH worker threads, and the LIST and AUTHORIZE        *)
(* commands of serve_control_connection on the side of the user.            *)
(*                                                                          *)
(* A worker that signs with a PIN key registers a one-shot channel under a  *)
(* fresh identifier, then polls the channel, the deadline and its client's  *)
(* cancellation flag.  A control session lists the pending requests, asks   *)
(* the user for a PIN, takes the entry out of the table under the lock and  *)
(* sends the PIN to the channel outside the lock.                           *)
(*                                                                          *)
(* Simplifications.  A PIN is a value, not bytes; the identifier            *)
(* "<pid>-<sequence>" is the sequence number.  Clock reads are the flag     *)
(* expired[w], raised at any moment of the wait.  The commands that leave   *)
(* no trace in the agent (STATUS, a malformed line, a short PIN) only end   *)
(* the session.                                                             *)
(***************************************************************************)
EXTENDS Workers, Naturals, FiniteSets

CONSTANTS Controls,     \* sessions of `keyvisor authorize`
          Keys,         \* keys of the store
          NoKey,        \* no entry in the table
          Pins,         \* PINs a user may type
          NoPin,        \* empty channel
          MaxRequests,  \* bound: calls of request_pin in a behaviour
          Graphical     \* TRUE when the agent has a graphical session

ASSUME BrokerAssumption ==
    /\ MaxRequests \in Nat
    /\ Graphical \in BOOLEAN
    /\ NoKey \notin Keys
    /\ NoPin \notin Pins
    /\ (Pins \cup {NoPin}) \cap
         {"unused", "open", "timed out", "cancelled", "disconnected"} = {}

Ids == 1 .. MaxRequests
NoId == 0

VARIABLES
    nextRequest,    \* NEXT_REQUEST_ID
    authorizations, \* AgentRuntime.authorizations: id -> key_name, or NoKey
    channel,        \* the buffer of the sync_channel(1) of each request
    phase,          \* where each worker is in request_pin
    rid,            \* its request identifier
    keyName,        \* the key it asks a PIN for
    result,         \* what request_pin is about to return, NoPin for Err
    cancelled,      \* RequestCancellation.cancelled
    expired,        \* Instant::now() >= deadline
    authorizer,     \* the graphical_authorizer child
    ctl,            \* where each control session is
    listing,        \* its snapshot of the table
    target,         \* the request it answers
    typed,          \* the PIN it carries
    offered,        \* auxiliary: the PIN AUTHORIZE accepted for a request
    verdict         \* auxiliary: how each request was decided

workerVars == <<phase, rid, keyName, result, expired, authorizer>>
controlVars == <<ctl, listing, target, typed>>
auxVars == <<offered, verdict>>
brokerVars == <<nextRequest, authorizations, channel, workerVars, cancelled,
                controlVars, auxVars>>

Denials == {"timed out", "cancelled", "disconnected"}
Phases == {"idle", "wait", "polled", "cleanup", "reap", "done"}
Live == {"wait", "polled", "cleanup", "reap"}
Replies == {"authorized", "not pending", "inactive"}

\* One type invariant for the whole state of the broker.
BrokerTypeOK ==
    /\ nextRequest \in 1 .. (MaxRequests + 1)
    /\ authorizations \in [Ids -> Keys \cup {NoKey}]
    /\ channel \in [Ids -> Pins \cup {NoPin}]
    /\ phase \in [Clients -> Phases]
    /\ rid \in [Clients -> Ids \cup {NoId}]
    /\ keyName \in [Clients -> Keys \cup {NoKey}]
    /\ result \in [Clients -> Pins \cup {NoPin}]
    /\ cancelled \in [Clients -> BOOLEAN]
    /\ expired \in [Clients -> BOOLEAN]
    /\ authorizer \in [Clients -> {"none", "running", "exited"}]
    /\ ctl \in [Controls -> {"idle", "listed", "prompted", "holding"} \cup Replies]
    /\ listing \in [Controls -> [Ids -> Keys \cup {NoKey}]]
    /\ target \in [Controls -> Ids \cup {NoId}]
    /\ typed \in [Controls -> Pins \cup {NoPin}]
    /\ offered \in [Ids -> Pins \cup {NoPin}]
    /\ verdict \in [Ids -> {"unused", "open"} \cup Denials \cup Pins]

BrokerInit ==
    /\ nextRequest = 1
    /\ authorizations = [i \in Ids |-> NoKey]
    /\ channel = [i \in Ids |-> NoPin]
    /\ phase = [w \in Clients |-> "idle"]
    /\ rid = [w \in Clients |-> NoId]
    /\ keyName = [w \in Clients |-> NoKey]
    /\ result = [w \in Clients |-> NoPin]
    /\ cancelled = [w \in Clients |-> FALSE]
    /\ expired = [w \in Clients |-> FALSE]
    /\ authorizer = [w \in Clients |-> "none"]
    /\ ctl = [c \in Controls |-> "idle"]
    /\ listing = [c \in Controls |-> [i \in Ids |-> NoKey]]
    /\ target = [c \in Controls |-> NoId]
    /\ typed = [c \in Controls |-> NoPin]
    /\ offered = [i \in Ids |-> NoPin]
    /\ verdict = [i \in Ids |-> "unused"]

-----------------------------------------------------------------------------
(* The cancellation flag of a request, owned by its RequestMonitor.        *)

NewCancellation(w) ==
    /\ phase[w] = "idle"
    /\ cancelled' = [cancelled EXCEPT ![w] = FALSE]
    /\ UNCHANGED <<nextRequest, authorizations, channel, workerVars,
                   controlVars, auxVars>>

Cancel(w) ==
    /\ ~cancelled[w]
    /\ cancelled' = [cancelled EXCEPT ![w] = TRUE]
    /\ UNCHANGED <<nextRequest, authorizations, channel, workerVars,
                   controlVars, auxVars>>

-----------------------------------------------------------------------------
(* request_pin, one action per step another thread can come between.       *)

\* start_graphical_authorizer: no child without a graphical session, and a
\* failed spawn leaves none either.
start_graphical_authorizer == IF Graphical THEN {"none", "running"} ELSE {"none"}

\* Fault: the identifier is any one that is not in the table.
RequestPin_ReusesId(w, k) ==
    /\ phase[w] = "idle"
    /\ nextRequest \in Ids
    /\ nextRequest' = nextRequest + 1
    /\ \E i \in 1 .. nextRequest :
         /\ authorizations[i] = NoKey
         /\ rid' = [rid EXCEPT ![w] = i]
         /\ authorizations' = [authorizations EXCEPT ![i] = k]
         /\ verdict' = [verdict EXCEPT ![i] = "open"]
    /\ keyName' = [keyName EXCEPT ![w] = k]
    /\ phase' = [phase EXCEPT ![w] = "wait"]
    /\ UNCHANGED <<channel, result, expired, authorizer, cancelled, controlVars, offered>>

\* fetch_add on NEXT_REQUEST_ID, the fresh channel, the insertion under the
\* lock and the start of the graphical authorizer.
RequestPin(w, k) ==
    /\ phase[w] = "idle"
    /\ nextRequest \in Ids
    /\ nextRequest' = nextRequest + 1
    /\ rid' = [rid EXCEPT ![w] = nextRequest]
    /\ keyName' = [keyName EXCEPT ![w] = k]
    /\ authorizations' = [authorizations EXCEPT ![nextRequest] = k]
    /\ \E child \in start_graphical_authorizer :
          authorizer' = [authorizer EXCEPT ![w] = child]
    /\ phase' = [phase EXCEPT ![w] = "wait"]
    /\ verdict' = [verdict EXCEPT ![nextRequest] = "open"]
    /\ UNCHANGED <<channel, result, expired, cancelled, controlVars, offered>>

\* The deadline passes while the worker waits.
Expire(w) ==
    /\ phase[w] \in {"wait", "polled"}
    /\ ~expired[w]
    /\ expired' = [expired EXCEPT ![w] = TRUE]
    /\ UNCHANGED <<nextRequest, authorizations, channel, phase, rid, keyName,
                   result, authorizer, cancelled, controlVars, auxVars>>

\* The graphical authorizer ends by itself: answered, dismissed or crashed.
AuthorizerExits(w) ==
    /\ authorizer[w] = "running"
    /\ authorizer' = [authorizer EXCEPT ![w] = "exited"]
    /\ UNCHANGED <<nextRequest, authorizations, channel, phase, rid, keyName,
                   result, expired, cancelled, controlVars, auxVars>>

\* Fault: the sender is dropped together with its table entry.
SenderAlive_TableOnly(i) == authorizations[i] # NoKey

\* A sender exists in the table or in the hands of a control thread.
SenderAlive(i) == \/ authorizations[i] # NoKey
                  \/ \E c \in Controls : ctl[c] = "holding" /\ target[c] = i

\* Fault: a channel without senders is reported before its buffer is looked at.
TryRecv_DisconnectFirst(w) ==
    /\ phase[w] = "wait"
    /\ LET i == rid[w] IN
       IF ~SenderAlive(i)
       THEN /\ verdict' = [verdict EXCEPT ![i] = "disconnected"]
            /\ phase' = [phase EXCEPT ![w] = "cleanup"]
       ELSE /\ phase' = [phase EXCEPT ![w] = "polled"]
            /\ UNCHANGED verdict
    /\ UNCHANGED <<nextRequest, authorizations, channel, rid, keyName, result,
                   expired, authorizer, cancelled, controlVars, offered>>

\* receiver.try_recv(): a buffered PIN wins over everything, a channel
\* without senders ends the wait, an empty one goes on to the other tests.
TryRecv(w) ==
    /\ phase[w] = "wait"
    /\ LET i == rid[w] IN
       IF channel[i] # NoPin
       THEN /\ channel' = [channel EXCEPT ![i] = NoPin]
            /\ result' = [result EXCEPT ![w] = channel[i]]
            /\ verdict' = [verdict EXCEPT ![i] = channel[i]]
            /\ phase' = [phase EXCEPT ![w] = "cleanup"]
       ELSE IF ~SenderAlive(i)
       THEN /\ verdict' = [verdict EXCEPT ![i] = "disconnected"]
            /\ phase' = [phase EXCEPT ![w] = "cleanup"]
            /\ UNCHANGED <<channel, result>>
       ELSE /\ phase' = [phase EXCEPT ![w] = "polled"]
            /\ UNCHANGED <<channel, result, verdict>>
    /\ UNCHANGED <<nextRequest, authorizations, rid, keyName, expired,
                   authorizer, cancelled, controlVars, offered>>

\* Fault: the loop does not look at the client.
PollDeadline_NoCancel(w) ==
    /\ phase[w] = "polled"
    /\ phase' = [phase EXCEPT ![w] = IF expired[w] THEN "cleanup" ELSE "wait"]
    /\ verdict' = [verdict EXCEPT ![rid[w]] = IF expired[w] THEN "timed out" ELSE @]
    /\ UNCHANGED <<nextRequest, authorizations, channel, rid, keyName, result,
                   expired, authorizer, cancelled, controlVars, offered>>

\* The rest of the loop body: reap an authorizer that exited, then give up at
\* the deadline, then on a disconnected client, else sleep and poll again.
PollDeadline(w) ==
    /\ phase[w] = "polled"
    /\ authorizer' = [authorizer EXCEPT ![w] = IF @ = "exited" THEN "none" ELSE @]
    /\ IF expired[w]
       THEN /\ verdict' = [verdict EXCEPT ![rid[w]] = "timed out"]
            /\ phase' = [phase EXCEPT ![w] = "cleanup"]
       ELSE IF cancelled[w]
       THEN /\ verdict' = [verdict EXCEPT ![rid[w]] = "cancelled"]
            /\ phase' = [phase EXCEPT ![w] = "cleanup"]
       ELSE /\ phase' = [phase EXCEPT ![w] = "wait"]
            /\ UNCHANGED verdict
    /\ UNCHANGED <<nextRequest, authorizations, channel, rid, keyName, result,
                   expired, cancelled, controlVars, offered>>

\* Fault: the entry is left in the table.
Cleanup_KeepsEntry(w) ==
    /\ phase[w] = "cleanup"
    /\ phase' = [phase EXCEPT ![w] = "reap"]
    /\ UNCHANGED <<nextRequest, authorizations, channel, rid, keyName, result,
                   expired, authorizer, cancelled, controlVars, auxVars>>

\* pending.remove(&id) under the lock, whoever removed the entry before.
Cleanup(w) ==
    /\ phase[w] = "cleanup"
    /\ authorizations' = [authorizations EXCEPT ![rid[w]] = NoKey]
    /\ phase' = [phase EXCEPT ![w] = "reap"]
    /\ UNCHANGED <<nextRequest, channel, rid, keyName, result, expired,
                   authorizer, cancelled, controlVars, auxVars>>

\* Fault: a running authorizer is not killed.
StopAuthorizer_LeavesChild(w) ==
    /\ phase[w] = "reap"
    /\ channel' = [channel EXCEPT ![rid[w]] = NoPin]
    /\ phase' = [phase EXCEPT ![w] = "done"]
    /\ UNCHANGED <<nextRequest, authorizations, rid, keyName, result, expired,
                   authorizer, cancelled, controlVars, auxVars>>

\* stop_graphical_authorizer kills and waits for the child; then request_pin
\* returns, which drops the receiver and whatever is still in the channel.
StopAuthorizer(w) ==
    /\ phase[w] = "reap"
    /\ authorizer' = [authorizer EXCEPT ![w] = "none"]
    /\ channel' = [channel EXCEPT ![rid[w]] = NoPin]
    /\ phase' = [phase EXCEPT ![w] = "done"]
    /\ UNCHANGED <<nextRequest, authorizations, rid, keyName, result, expired,
                   cancelled, controlVars, auxVars>>

\* The caller takes the result; the locals of the call are gone.
ReturnPin(w) ==
    /\ phase[w] = "done"
    /\ phase' = [phase EXCEPT ![w] = "idle"]
    /\ rid' = [rid EXCEPT ![w] = NoId]
    /\ keyName' = [keyName EXCEPT ![w] = NoKey]
    /\ result' = [result EXCEPT ![w] = NoPin]
    /\ expired' = [expired EXCEPT ![w] = FALSE]
    /\ UNCHANGED <<nextRequest, authorizations, channel, authorizer, cancelled,
                   controlVars, auxVars>>

-----------------------------------------------------------------------------
(* Control sessions: `keyvisor authorize ID`, typed by the user or started *)
(* by the agent as the graphical authorizer.                               *)

\* LIST: the snapshot is taken under the lock and may be stale when used.
List(c) ==
    /\ ctl[c] = "idle"
    /\ ctl' = [ctl EXCEPT ![c] = "listed"]
    /\ listing' = [listing EXCEPT ![c] = authorizations]
    /\ UNCHANGED <<nextRequest, authorizations, channel, workerVars, cancelled,
                   target, typed, auxVars>>

\* The user types a PIN for the key name shown for request i.
Prompt(c, i, p) ==
    /\ ctl[c] = "listed"
    /\ listing[c][i] # NoKey
    /\ ctl' = [ctl EXCEPT ![c] = "prompted"]
    /\ target' = [target EXCEPT ![c] = i]
    /\ typed' = [typed EXCEPT ![c] = p]
    /\ UNCHANGED <<nextRequest, authorizations, channel, workerVars, cancelled,
                   listing, auxVars>>

\* Fault: the entry is looked up and not removed.
AuthorizeRemove_KeepsEntry(c) ==
    /\ ctl[c] = "prompted"
    /\ LET i == target[c]
           pending == authorizations[i] # NoKey
       IN /\ ctl' = [ctl EXCEPT ![c] = IF pending THEN "holding" ELSE "not pending"]
          /\ offered' = [offered EXCEPT ![i] = IF pending THEN typed[c] ELSE @]
    /\ UNCHANGED <<nextRequest, authorizations, channel, workerVars, cancelled,
                   listing, target, typed, verdict>>

\* AUTHORIZE, after the whole PIN was read: remove(id) under the lock.
AuthorizeRemove(c) ==
    /\ ctl[c] = "prompted"
    /\ LET i == target[c] IN
       IF authorizations[i] # NoKey
       THEN /\ authorizations' = [authorizations EXCEPT ![i] = NoKey]
            /\ offered' = [offered EXCEPT ![i] = typed[c]]
            /\ ctl' = [ctl EXCEPT ![c] = "holding"]
       ELSE /\ ctl' = [ctl EXCEPT ![c] = "not pending"]
            /\ UNCHANGED <<authorizations, offered>>
    /\ UNCHANGED <<nextRequest, channel, workerVars, cancelled, listing, target,
                   typed, verdict>>

\* The receiver of request i exists until request_pin returns.
ReceiverAlive(i) == \E w \in Clients : phase[w] \in Live /\ rid[w] = i

\* Fault: a missing receiver is waited for.
AuthorizeSend_AwaitsReceiver(c) ==
    /\ ctl[c] = "holding"
    /\ ReceiverAlive(target[c])
    /\ channel' = [channel EXCEPT ![target[c]] = typed[c]]
    /\ ctl' = [ctl EXCEPT ![c] = "authorized"]
    /\ UNCHANGED <<nextRequest, authorizations, workerVars, cancelled, listing,
                   target, typed, auxVars>>

\* sender.send(pin) outside the lock: fails without a receiver, blocks on a
\* full buffer.
AuthorizeSend(c) ==
    /\ ctl[c] = "holding"
    /\ LET i == target[c] IN
       IF ReceiverAlive(i)
       THEN /\ channel[i] = NoPin
            /\ channel' = [channel EXCEPT ![i] = typed[c]]
            /\ ctl' = [ctl EXCEPT ![c] = "authorized"]
       ELSE /\ ctl' = [ctl EXCEPT ![c] = "inactive"]
            /\ UNCHANGED channel
    /\ UNCHANGED <<nextRequest, authorizations, workerVars, cancelled, listing,
                   target, typed, auxVars>>

\* The session ends with its reply, or earlier: the user dismisses the prompt,
\* or the command line or the PIN does not arrive whole.
EndSession(c) ==
    /\ ctl[c] \in {"listed", "prompted"} \cup Replies
    /\ ctl' = [ctl EXCEPT ![c] = "idle"]
    /\ listing' = [listing EXCEPT ![c] = [i \in Ids |-> NoKey]]
    /\ target' = [target EXCEPT ![c] = NoId]
    /\ typed' = [typed EXCEPT ![c] = NoPin]
    /\ UNCHANGED <<nextRequest, authorizations, channel, workerVars, cancelled,
                   auxVars>>

-----------------------------------------------------------------------------

\* Steps request_pin takes by itself, and those of the control threads.
WorkerStep(w) == TryRecv(w) \/ PollDeadline(w) \/ Cleanup(w) \/ StopAuthorizer(w)
ControlStep(c) == AuthorizeRemove(c) \/ AuthorizeSend(c)

BrokerNext ==
    \/ \E w \in Clients :
         \/ NewCancellation(w)
         \/ Cancel(w)
         \/ \E k \in Keys : RequestPin(w, k)
         \/ Expire(w)
         \/ AuthorizerExits(w)
         \/ WorkerStep(w)
         \/ ReturnPin(w)
    \/ \E c \in Controls :
         \/ List(c)
         \/ \E i \in Ids, p \in Pins : Prompt(c, i, p)
         \/ ControlStep(c)
         \/ EndSession(c)

BrokerSafety == BrokerInit /\ [][BrokerNext]_brokerVars

\* The worker and control threads are scheduled, and time passes.  Nothing is
\* assumed of users, clients or the authorizer child.
BrokerSpec ==
    /\ BrokerSafety
    /\ \A w \in Clients : WF_brokerVars(WorkerStep(w)) /\ WF_brokerVars(Expire(w))
    /\ \A c \in Controls : WF_brokerVars(ControlStep(c))

-----------------------------------------------------------------------------
(* The inductive invariant, in parts.                                      *)

\* A worker in request_pin has an identifier of its own, already counted.
RequestsDistinct ==
    /\ \A w \in Clients : phase[w] # "idle" =>
         rid[w] \in Ids /\ rid[w] < nextRequest /\ keyName[w] \in Keys
    /\ \A v, w \in Clients :
         phase[v] # "idle" /\ phase[w] # "idle" /\ rid[v] = rid[w] => v = w

\* Nothing refers to an identifier that was not given out yet.
FutureUnused ==
    \A i \in Ids : i >= nextRequest =>
        /\ authorizations[i] = NoKey
        /\ channel[i] = NoPin
        /\ offered[i] = NoPin
        /\ verdict[i] = "unused"
        /\ \A c \in Controls : listing[c][i] = NoKey /\ target[c] # i

\* An entry of the table belongs to a worker in request_pin and is unanswered.
EntryOwned ==
    \A i \in Ids : authorizations[i] # NoKey =>
        /\ offered[i] = NoPin
        /\ \E w \in Clients : /\ phase[w] \in {"wait", "polled", "cleanup"}
                              /\ rid[w] = i
                              /\ keyName[w] = authorizations[i]

\* A buffered PIN is the one offered, its receiver lives and has not decided
\* for a PIN yet.
BufferedOffered ==
    \A i \in Ids : channel[i] # NoPin =>
        /\ channel[i] = offered[i]
        /\ verdict[i] \notin Pins
        /\ \E w \in Clients : phase[w] \in Live /\ rid[w] = i

\* A control thread that took an entry is the only one with its sender.
HolderUnique ==
    \A c \in Controls : ctl[c] = "holding" =>
        /\ typed[c] = offered[target[c]]
        /\ authorizations[target[c]] = NoKey
        /\ channel[target[c]] = NoPin
        /\ verdict[target[c]] \notin Pins
        /\ \A d \in Controls : ctl[d] = "holding" /\ target[d] = target[c] => d = c

\* A session past its prompt carries a PIN for a request of its listing, and
\* what a listing shows of a live request is still true.
ListingTrue ==
    /\ \A c \in Controls : ctl[c] \notin {"idle", "listed"} =>
         target[c] \in Ids /\ typed[c] \in Pins /\ listing[c][target[c]] # NoKey
    /\ \A c \in Controls, w \in Clients :
         phase[w] # "idle" /\ listing[c][rid[w]] # NoKey
           => keyName[w] = listing[c][rid[w]]

\* A worker is decided when it leaves the loop and not before, and never by a
\* lost channel.
DecidedOnExit ==
    \A w \in Clients :
        /\ phase[w] \in {"wait", "polled"} => verdict[rid[w]] = "open"
        /\ phase[w] \in {"cleanup", "reap", "done"} =>
             verdict[rid[w]] \in {"timed out", "cancelled"} \cup Pins

\* Somebody can still send to a worker that is polling, or has sent.
WaiterReachable ==
    \A w \in Clients : phase[w] \in {"wait", "polled"} =>
        SenderAlive(rid[w]) \/ channel[rid[w]] # NoPin

\* A request decided for a PIN was offered that PIN.
GrantOffered == \A i \in Ids : verdict[i] \in Pins => offered[i] = verdict[i]

-----------------------------------------------------------------------------
(* Properties.                                                             *)

\* No entry outlives its request: every entry of the table belongs to a
\* worker that is still inside request_pin, and shows the key it asked for.
\* A leaked entry would be listed, and answered, for nobody.
PendingOwned ==
    \A i \in Ids : authorizations[i] # NoKey =>
        \E w \in Clients : /\ phase[w] \in {"wait", "polled", "cleanup"}
                           /\ rid[w] = i
                           /\ keyName[w] = authorizations[i]

\* SyncSender::send never blocks a control thread: whoever took the entry is
\* the only one with a sender and finds the one-slot buffer empty.
SendNeverBlocks ==
    \A c \in Controls : ctl[c] = "holding" =>
        /\ channel[target[c]] = NoPin
        /\ \A d \in Controls \ {c} : ctl[d] = "holding" => target[d] # target[c]

\* try_recv never reports Disconnected: between the removal of an entry and
\* the delivery of its PIN the sender stays alive, so a request only ends
\* with a PIN, at its deadline or because its client went away.
NeverDisconnected == \A i \in Ids : verdict[i] # "disconnected"

\* The key name the user saw when typing a PIN is the key of the request the
\* PIN is given to, however old the listing: identifiers are never reused.
PromptNamesTheKey ==
    \A c \in Controls, w \in Clients :
        (/\ ctl[c] \in {"prompted", "holding", "authorized"}
         /\ phase[w] # "idle"
         /\ rid[w] = target[c])
        => keyName[w] = listing[c][target[c]]

\* "OK authorized" is not said of a PIN that vanished: it is in the request's
\* channel or was received by it, unless the request had timed out or lost its
\* client by then.  (In that race the user is told OK and nothing is signed.)
AcceptedPinNotLost ==
    \A c \in Controls : ctl[c] = "authorized" =>
        \/ verdict[target[c]] \in {typed[c], "timed out", "cancelled"}
        \/ channel[target[c]] = typed[c]

\* The graphical authorizer never outlives the call that started it.
AuthorizerReaped == \A w \in Clients : phase[w] \notin Live => authorizer[w] = "none"

\* The inductive invariant: everything above, with what it implies.
BrokerInv ==
    /\ BrokerTypeOK
    /\ RequestsDistinct
    /\ FutureUnused
    /\ EntryOwned
    /\ BufferedOffered
    /\ HolderUnique
    /\ ListingTrue
    /\ DecidedOnExit
    /\ WaiterReachable
    /\ GrantOffered
    /\ NeverDisconnected
    /\ AcceptedPinNotLost
    /\ AuthorizerReaped

\* The one-shot authorization that request_pin and AUTHORIZE implement.
Gate == INSTANCE AuthGate WITH
    status <- [i \in Ids |-> IF verdict[i] \in Denials THEN "denied" ELSE verdict[i]],
    offer <- offered

\* Every step of the broker is a step of the abstract gate: a request is
\* decided once, and only for the PIN that was offered under its identifier.
ImplementsGate == Gate!GateSpec

\* Every AUTHORIZE that took a request out of the table is answered.
AuthorizeAnswered == \A c \in Controls : ctl[c] = "holding" ~> ctl[c] \in Replies
=============================================================================
