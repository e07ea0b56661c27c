------------------------------- MODULE Agent -------------------------------
(***************************************************************************)
(* keyvisor-agent as a whole: the accept loop with its limiter             *)
(* (ConnectionService), one worker thread per SSH connection running       *)
(* serve_connection and AgentRuntime.handle, a monitor thread per request, *)
(* the PIN broker (AuthBroker), the TPM behind its mutex, the key store    *)
(* that the command line tool changes underneath, and the signing history. *)
(*                                                                         *)
(* A worker thread is named after the client whose connection it serves.   *)
(* A request is its kind and the key it names.  store.list() is one step   *)
(* here; its failures are a free choice.                                   *)
(***************************************************************************)
EXTENDS AuthBroker, ConnectionService

CONSTANTS PinKeys,         \* keys with KeyUsePolicy::TpmPin
          CorrectPin,      \* the PIN those keys were created with
          Kinds,           \* kinds of packets clients send
          Churn,           \* bound: keys created and deleted while the agent runs
          PollMayFail,     \* poll() in the monitor may report an error
          HistoryEnabled,  \* Config.history_enabled
          MaxHistory,      \* MAX_ENTRIES of history.rs
          MaxPackets,      \* bound: packets sent in a behaviour
          MaxPipeline,     \* bound: packets a client has under way
          MaxClock         \* bound: seconds that pass

AllKinds == {"bad length", "malformed", "identities", "bad flags", "sign"}

ASSUME AgentAssumption ==
    /\ PinKeys \subseteq Keys
    /\ Churn \subseteq Keys
    /\ CorrectPin \in Pins
    /\ Kinds \subseteq AllKinds
    /\ {HistoryEnabled, PollMayFail} \subseteq BOOLEAN
    /\ MaxHistory \in Nat \ {0}
    /\ {MaxPackets, MaxPipeline, MaxClock} \subseteq Nat
    /\ MaxPackets <= MaxRequests  \* request_pin is never short of identifiers

VARIABLES
    peer,       \* the client's end: "away", "open", "half" (no more writes), "closed"
    inbox,      \* packets written by the client and not read yet
    pc,         \* where each worker is
    request,    \* the packet it handles
    answer,     \* the response it will write
    pin,        \* the PIN sign_with_key holds
    monitor,    \* the request's monitor thread
    tpmOwner,   \* who holds the AgentRuntime.tpm mutex
    tpm,        \* Option<EsapiTpm>: "none" or "connected"
    keyState,   \* the store: "absent", "present" or "deleted" per key
    historyOwner, \* who holds the AgentRuntime.history mutex
    history,    \* the history file, oldest entry first
    entry,      \* the HistoryEntry a worker is about to append
    loaded,     \* the entries it read from the file
    now,        \* SystemTime in seconds
    sent,       \* packets sent so far
    log,        \* auxiliary: every entry saved, in order
    signatures  \* auxiliary: signatures made with PIN keys

connVars == <<peer, inbox, sent>>
threadVars == <<pc, request, answer, pin, monitor>>
tpmVars == <<tpmOwner, tpm>>
historyVars == <<historyOwner, history, entry, loaded, log>>
agentVars == <<connVars, threadVars, tpmVars, keyState, historyVars, now,
               signatures>>

vars == <<brokerVars, serviceVars, agentVars>>

Requests == [kind : Kinds, key : Keys]
NoRequest == [kind |-> "none", key |-> NoKey]
NoEntry == [time |-> 0, key |-> NoKey, ok |-> FALSE]

InRequest == {"handle", "pin", "check", "tpm", "sign", "recheck", "record",
              "append", "save", "join"}

AgentInit ==
    /\ BrokerInit
    /\ ServiceInit
    /\ peer = [w \in Clients |-> "away"]
    /\ inbox = [w \in Clients |-> <<>>]
    /\ pc = [w \in Clients |-> "off"]
    /\ request = [w \in Clients |-> NoRequest]
    /\ answer = [w \in Clients |-> "failure"]
    /\ pin = [w \in Clients |-> NoPin]
    /\ monitor = [w \in Clients |-> "off"]
    /\ tpmOwner = NoClient
    /\ tpm = "none"
    /\ keyState = [k \in Keys |-> IF k \in Churn THEN "absent" ELSE "present"]
    /\ historyOwner = NoClient
    /\ history = <<>>
    /\ entry = [w \in Clients |-> NoEntry]
    /\ loaded = [w \in Clients |-> <<>>]
    /\ now = 0
    /\ sent = 0
    /\ log = <<>>
    /\ signatures = 0

Goto(w, label) == pc' = [pc EXCEPT ![w] = label]

-----------------------------------------------------------------------------
(* The clients, the accept loop and the world outside.                     *)

ClientConnects(w) ==
    /\ peer[w] = "away"
    /\ Connect(w)
    /\ peer' = [peer EXCEPT ![w] = "open"]
    /\ UNCHANGED <<brokerVars, inbox, sent, threadVars, tpmVars, keyState,
                   historyVars, now, signatures>>

ClientSends(w, r) ==
    /\ peer[w] = "open"
    /\ sent < MaxPackets
    /\ Len(inbox[w]) < MaxPipeline
    /\ inbox' = [inbox EXCEPT ![w] = Append(@, r)]
    /\ sent' = sent + 1
    /\ UNCHANGED <<brokerVars, serviceVars, peer, threadVars, tpmVars, keyState,
                   historyVars, now, signatures>>

\* The client shuts down its writing side, or goes away altogether.  What it
\* wrote before can still be read.
ClientLeaves(w) ==
    /\ \/ peer[w] = "open" /\ peer' = [peer EXCEPT ![w] = "half"]
       \/ peer[w] \in {"open", "half"} /\ peer' = [peer EXCEPT ![w] = "closed"]
    /\ UNCHANGED <<brokerVars, serviceVars, inbox, sent, threadVars, tpmVars,
                   keyState, historyVars, now, signatures>>

\* The accept loop; a fresh worker starts in serve_connection.
AgentAccepts ==
    /\ AcceptLoop
    /\ pc' = [w \in Clients |-> IF w \in serving' \ serving THEN "read" ELSE pc[w]]
    /\ UNCHANGED <<brokerVars, connVars, request, answer, pin, monitor, tpmVars,
                   keyState, historyVars, now, signatures>>

\* The acceptor wakes up in acquire for no reason.
AgentWakes == SpuriousWakeup /\ UNCHANGED <<brokerVars, agentVars>>

\* The worker cannot be spawned: its stream is closed unread.
AgentDrops ==
    /\ SpawnFails
    /\ peer' = [peer EXCEPT ![accepted] = "away"]
    /\ inbox' = [inbox EXCEPT ![accepted] = <<>>]
    /\ UNCHANGED <<brokerVars, sent, threadVars, tpmVars, keyState, historyVars,
                   now, signatures>>

\* `keyvisor key create` and `keyvisor key delete`.  A new key has a public
\* key of its own, so a deleted one does not come back.
StoreChanges(k) ==
    /\ \/ keyState[k] = "absent" /\ keyState' = [keyState EXCEPT ![k] = "present"]
       \/ keyState[k] = "present" /\ keyState' = [keyState EXCEPT ![k] = "deleted"]
    /\ UNCHANGED <<brokerVars, serviceVars, connVars, threadVars, tpmVars,
                   historyVars, now, signatures>>

Tick ==
    /\ now < MaxClock
    /\ now' = now + 1
    /\ UNCHANGED <<brokerVars, serviceVars, connVars, threadVars, tpmVars,
                   keyState, historyVars, signatures>>

-----------------------------------------------------------------------------
(* serve_connection.                                                       *)

\* serve_connection returns: the stream closes and the permit is dropped.
EndConnection(w) ==
    /\ Release(w)
    /\ Goto(w, "off")
    /\ peer' = [peer EXCEPT ![w] = "away"]
    /\ inbox' = [inbox EXCEPT ![w] = <<>>]
    /\ request' = [request EXCEPT ![w] = NoRequest]
    /\ answer' = [answer EXCEPT ![w] = "failure"]
    /\ UNCHANGED <<brokerVars, sent, pin, monitor, tpmVars, keyState,
                   historyVars, now, signatures>>

\* The first byte does not come: end of file, or 15 s without a packet.
ReadEnds(w) ==
    /\ pc[w] = "read"
    /\ inbox[w] = <<>>
    /\ EndConnection(w)

\* A length of 0 or above MAX_PACKET_LENGTH is answered with a failure and
\* ends the connection; so does a packet that does not arrive whole, and a
\* monitor thread that cannot be started.
ReadFails(w) ==
    /\ pc[w] = "read"
    /\ inbox[w] # <<>>
    /\ EndConnection(w)

\* A whole packet, and RequestMonitor::start with a fresh cancellation flag.
ReadPacket(w) ==
    /\ pc[w] = "read"
    /\ inbox[w] # <<>>
    /\ Head(inbox[w]).kind # "bad length"
    /\ request' = [request EXCEPT ![w] = Head(inbox[w])]
    /\ inbox' = [inbox EXCEPT ![w] = Tail(@)]
    /\ answer' = [answer EXCEPT ![w] = "failure"]
    /\ monitor' = [monitor EXCEPT ![w] = "watching"]
    /\ NewCancellation(w)
    /\ Goto(w, "handle")
    /\ UNCHANGED <<serviceVars, peer, sent, pin, tpmVars, keyState, historyVars,
                   now, signatures>>

\* Fault: the monitor also polls for RDHUP.
MonitorFires_Rdhup(w) ==
    /\ monitor[w] = "watching"
    /\ peer[w] \in {"half", "closed"}
    /\ monitor' = [monitor EXCEPT ![w] = "returned"]
    /\ Cancel(w)
    /\ UNCHANGED <<serviceVars, connVars, pc, request, answer, pin, tpmVars,
                   keyState, historyVars, now, signatures>>

\* The monitor polls for HUP and ERR, which a half-closed peer does not raise.
\* A poll that fails cancels the request as well.
MonitorFires(w) ==
    /\ monitor[w] = "watching"
    /\ peer[w] = "closed" \/ PollMayFail
    /\ monitor' = [monitor EXCEPT ![w] = "returned"]
    /\ Cancel(w)
    /\ UNCHANGED <<serviceVars, connVars, pc, request, answer, pin, tpmVars,
                   keyState, historyVars, now, signatures>>

\* drop(monitor): stop the thread and join it, whether it fired or not.
JoinMonitor(w) ==
    /\ pc[w] = "join"
    /\ monitor' = [monitor EXCEPT ![w] = "off"]
    /\ Goto(w, "respond")
    /\ UNCHANGED <<brokerVars, serviceVars, connVars, request, answer, pin,
                   tpmVars, keyState, historyVars, now, signatures>>

\* write_all succeeds on a peer that still reads, and the loop goes on.
Respond(w) ==
    /\ pc[w] = "respond"
    /\ peer[w] # "closed"
    /\ request' = [request EXCEPT ![w] = NoRequest]
    /\ answer' = [answer EXCEPT ![w] = "failure"]
    /\ Goto(w, "read")
    /\ UNCHANGED <<brokerVars, serviceVars, connVars, pin, monitor, tpmVars,
                   keyState, historyVars, now, signatures>>

\* write_all fails: the peer is gone, or does not read for 15 s.
RespondFails(w) ==
    /\ pc[w] = "respond"
    /\ EndConnection(w)

-----------------------------------------------------------------------------
(* AgentRuntime.handle and sign_with_key.                                  *)

\* Every early return of handle: cancelled, unparsable, bad flags, unknown
\* key, or a store that cannot be listed.  The answer stays a failure and
\* nothing is recorded.
HandleFails(w) ==
    /\ pc[w] = "handle"
    /\ \/ cancelled[w]
       \/ request[w].kind \in {"malformed", "bad flags"}
       \/ request[w].kind = "sign" /\ keyState[request[w].key] # "present"
       \/ request[w].kind \in {"identities", "sign"}   \* store.list() fails
    /\ Goto(w, "join")
    /\ UNCHANGED <<brokerVars, serviceVars, connVars, request, answer, pin,
                   monitor, tpmVars, keyState, historyVars, now, signatures>>

HandleIdentities(w) ==
    /\ pc[w] = "handle"
    /\ ~cancelled[w]
    /\ request[w].kind = "identities"
    /\ answer' = [answer EXCEPT ![w] = "identities"]
    /\ Goto(w, "join")
    /\ UNCHANGED <<brokerVars, serviceVars, connVars, request, pin, monitor,
                   tpmVars, keyState, historyVars, now, signatures>>

\* Fault: a PIN that was granted before is used again.
HandleSign_CachesPin(w) ==
    LET k == request[w].key
        known == {verdict[i] : i \in Ids} \cap Pins
    IN
    /\ pc[w] = "handle"
    /\ request[w].kind = "sign"
    /\ \/ known = {} /\ RequestPin(w, k) /\ Goto(w, "pin") /\ UNCHANGED pin
       \/ \E p \in known : /\ pin' = [pin EXCEPT ![w] = p]
                           /\ Goto(w, "check") /\ UNCHANGED brokerVars
    /\ UNCHANGED <<serviceVars, connVars, request, answer, monitor, tpmVars,
                   keyState, historyVars, now, signatures>>

\* Fault: the TPM mutex is taken before the PIN prompt.
HandleSign_LocksFirst(w) ==
    LET k == request[w].key IN
    /\ pc[w] = "handle"
    /\ request[w].kind = "sign"
    /\ \/ /\ k \in PinKeys /\ tpmOwner = NoClient
          /\ tpmOwner' = w /\ RequestPin(w, k) /\ Goto(w, "pin")
       \/ k \notin PinKeys /\ Goto(w, "check") /\ UNCHANGED <<brokerVars, tpmOwner>>
    /\ UNCHANGED <<serviceVars, connVars, request, answer, pin, monitor, tpm,
                   keyState, historyVars, now, signatures>>

\* The key is found in the store; a PIN key asks for its PIN before the TPM
\* mutex is taken.
HandleSign(w) ==
    LET k == request[w].key IN
    /\ pc[w] = "handle"
    /\ ~cancelled[w]
    /\ request[w].kind = "sign"
    /\ keyState[k] = "present"
    /\ \/ k \in PinKeys /\ RequestPin(w, k) /\ Goto(w, "pin")
       \/ k \notin PinKeys /\ Goto(w, "check") /\ UNCHANGED brokerVars
    /\ UNCHANGED <<serviceVars, connVars, request, answer, pin, monitor, tpmVars,
                   keyState, historyVars, now, signatures>>

\* request_pin returns: with a PIN, or with an error that is recorded.
TakePin(w) ==
    /\ pc[w] = "pin"
    /\ ReturnPin(w)
    /\ pin' = [pin EXCEPT ![w] = result[w]]
    /\ Goto(w, IF result[w] = NoPin THEN "record" ELSE "check")
    /\ UNCHANGED <<serviceVars, connVars, request, answer, monitor, tpmVars,
                   keyState, historyVars, now, signatures>>

\* cancellation.check() before the TPM is touched.
CheckBeforeTpm(w) ==
    /\ pc[w] = "check"
    /\ Goto(w, IF cancelled[w] THEN "record" ELSE "tpm")
    /\ UNCHANGED <<brokerVars, serviceVars, connVars, request, answer, pin,
                   monitor, tpmVars, keyState, historyVars, now, signatures>>

\* Fault: the TPM is used without its mutex.
LockTpm_NoMutex(w) ==
    /\ pc[w] = "tpm"
    /\ tpmOwner' = w /\ tpm' = "connected" /\ Goto(w, "sign")
    /\ UNCHANGED <<brokerVars, serviceVars, connVars, request, answer, pin,
                   monitor, keyState, historyVars, now, signatures>>

\* Lock the TPM mutex and connect on first use; a failed connection leaves
\* None behind and releases the mutex.
LockTpm(w) ==
    /\ pc[w] = "tpm"
    /\ tpmOwner = NoClient
    /\ \/ tpmOwner' = w /\ tpm' = "connected" /\ Goto(w, "sign")
       \/ tpm = "none" /\ Goto(w, "record") /\ UNCHANGED tpmVars
    /\ UNCHANGED <<brokerVars, serviceVars, connVars, request, answer, pin,
                   monitor, keyState, historyVars, now, signatures>>

\* Fault: the mutex stays locked when the TPM reports an error.
TpmSign_KeepsMutex(w) ==
    /\ pc[w] = "sign"
    /\ Goto(w, "record")
    /\ UNCHANGED <<brokerVars, serviceVars, connVars, request, answer, pin,
                   monitor, tpmVars, keyState, historyVars, now, signatures>>

\* The synchronous TPM call: it signs if the key has no PIN or the PIN is
\* right, and may fail in any case.
TpmSign(w) ==
    /\ pc[w] = "sign"
    /\ \/ /\ request[w].key \in PinKeys => pin[w] = CorrectPin
          /\ signatures' = signatures + (IF request[w].key \in PinKeys THEN 1 ELSE 0)
          /\ Goto(w, "recheck")
          /\ UNCHANGED tpmOwner
       \/ /\ tpmOwner' = NoClient
          /\ Goto(w, "record")
          /\ UNCHANGED signatures
    /\ UNCHANGED <<brokerVars, serviceVars, connVars, request, answer, pin,
                   monitor, tpm, keyState, historyVars, now>>

\* The last cancellation.check() discards the signature of a client that left;
\* the mutex is released when sign_with_key returns.
Recheck(w) ==
    /\ pc[w] = "recheck"
    /\ answer' = [answer EXCEPT ![w] = IF cancelled[w] THEN "failure" ELSE "signature"]
    /\ tpmOwner' = NoClient
    /\ Goto(w, "record")
    /\ UNCHANGED <<brokerVars, serviceVars, connVars, request, pin, monitor, tpm,
                   keyState, historyVars, now, signatures>>

-----------------------------------------------------------------------------
(* record_history and HistoryStore::append.                                *)

\* sign_with_key has returned and its PIN is gone.  The entry is stamped
\* before the history mutex is taken.
RecordHistory(w) ==
    /\ pc[w] = "record"
    /\ IF HistoryEnabled
       THEN /\ entry' = [entry EXCEPT ![w] = [time |-> now, key |-> request[w].key,
                                              ok |-> answer[w] = "signature"]]
            /\ Goto(w, "append")
       ELSE Goto(w, "join") /\ UNCHANGED entry
    /\ pin' = [pin EXCEPT ![w] = NoPin]
    /\ UNCHANGED <<brokerVars, serviceVars, connVars, request, answer, monitor,
                   tpmVars, keyState, historyOwner, history, loaded, log, now,
                   signatures>>

\* Fault: the file is read before the history mutex is taken.
LoadHistory_NoMutex(w) ==
    /\ pc[w] = "append"
    /\ historyOwner' = w
    /\ loaded' = [loaded EXCEPT ![w] = history]
    /\ Goto(w, "save")
    /\ UNCHANGED <<brokerVars, serviceVars, connVars, request, answer, pin,
                   monitor, tpmVars, keyState, history, entry, log, now, signatures>>

\* Lock, then list() the file; if that fails the error is only logged.
LoadHistory(w) ==
    /\ pc[w] = "append"
    /\ historyOwner = NoClient
    /\ \/ /\ historyOwner' = w
          /\ loaded' = [loaded EXCEPT ![w] = history]
          /\ Goto(w, "save")
          /\ UNCHANGED entry
       \/ /\ entry' = [entry EXCEPT ![w] = NoEntry]
          /\ Goto(w, "join")
          /\ UNCHANGED <<historyOwner, loaded>>
    /\ UNCHANGED <<brokerVars, serviceVars, connVars, request, answer, pin,
                   monitor, tpmVars, keyState, history, log, now, signatures>>

Newest(s) == SubSeq(s, IF Len(s) > MaxHistory THEN Len(s) - MaxHistory + 1 ELSE 1, Len(s))

\* Fault: the drain starts one entry early.
SaveHistory_DrainsOneMore(w) ==
    /\ pc[w] = "save"
    /\ history' = SubSeq(Append(loaded[w], entry[w]),
                         IF Len(loaded[w]) >= MaxHistory THEN 3 ELSE 1,
                         Len(loaded[w]) + 1)
    /\ log' = Append(log, entry[w])
    /\ entry' = [entry EXCEPT ![w] = NoEntry]
    /\ loaded' = [loaded EXCEPT ![w] = <<>>]
    /\ historyOwner' = NoClient
    /\ Goto(w, "join")
    /\ UNCHANGED <<brokerVars, serviceVars, connVars, request, answer, pin,
                   monitor, tpmVars, keyState, now, signatures>>

\* push, drain to the newest MAX_ENTRIES, save by rename, unlock.  A failure
\* before the rename leaves the file as it was.
SaveHistory(w) ==
    /\ pc[w] = "save"
    /\ \/ /\ history' = Newest(Append(loaded[w], entry[w]))
          /\ log' = Append(log, entry[w])
       \/ UNCHANGED <<history, log>>
    /\ entry' = [entry EXCEPT ![w] = NoEntry]
    /\ loaded' = [loaded EXCEPT ![w] = <<>>]
    /\ historyOwner' = NoClient
    /\ Goto(w, "join")
    /\ UNCHANGED <<brokerVars, serviceVars, connVars, request, answer, pin,
                   monitor, tpmVars, keyState, now, signatures>>

-----------------------------------------------------------------------------

\* Steps of the broker in which the rest of the agent takes no part.
BrokerWorker(w) == WorkerStep(w) /\ UNCHANGED <<serviceVars, agentVars>>
BrokerExpire(w) == Expire(w) /\ UNCHANGED <<serviceVars, agentVars>>
BrokerChild(w) == AuthorizerExits(w) /\ UNCHANGED <<serviceVars, agentVars>>
BrokerControl(c) == ControlStep(c) /\ UNCHANGED <<serviceVars, agentVars>>
BrokerUser(c) == /\ \/ List(c)
                    \/ \E i \in Ids, p \in Pins : Prompt(c, i, p)
                    \/ EndSession(c)
                 /\ UNCHANGED <<serviceVars, agentVars>>

\* What a worker thread does by itself once it has a packet.
Handler(w) == \/ HandleFails(w) \/ HandleIdentities(w) \/ HandleSign(w)
              \/ TakePin(w) \/ CheckBeforeTpm(w)
              \/ LockTpm(w) \/ TpmSign(w) \/ Recheck(w)
              \/ RecordHistory(w) \/ LoadHistory(w) \/ SaveHistory(w)
              \/ JoinMonitor(w) \/ Respond(w) \/ RespondFails(w)

Reader(w) == ReadEnds(w) \/ ReadFails(w) \/ ReadPacket(w)

AgentNext ==
    \/ \E w \in Clients :
         \/ ClientConnects(w) \/ ClientLeaves(w)
         \/ \E r \in Requests : ClientSends(w, r)
         \/ Reader(w)
         \/ Handler(w)
         \/ MonitorFires(w)
         \/ BrokerWorker(w) \/ BrokerExpire(w) \/ BrokerChild(w)
    \/ \E c \in Controls : BrokerControl(c) \/ BrokerUser(c)
    \/ \E k \in Churn : StoreChanges(k)
    \/ AgentAccepts
    \/ AgentWakes
    \/ AgentDrops
    \/ Tick

AgentSafety == AgentInit /\ [][AgentNext]_vars

\* Every thread of the agent is scheduled, and nothing else is assumed: users
\* may never answer and the authorization deadline may be far away.
ThreadsRun ==
    /\ \A w \in Clients : /\ WF_vars(Reader(w)) /\ WF_vars(Handler(w))
                          /\ WF_vars(MonitorFires(w)) /\ WF_vars(BrokerWorker(w))
    /\ \A c \in Controls : WF_vars(BrokerControl(c))
    /\ WF_vars(AgentAccepts)

AgentSpec == AgentSafety /\ ThreadsRun

-----------------------------------------------------------------------------
(* Properties.                                                             *)

\* "requires authorization for each signature": the TPM never made more
\* signatures with PIN keys than requests were granted the right PIN.  One
\* AUTHORIZE is good for one signature.
PerUseAuthorization == signatures <= Cardinality({i \in Ids : verdict[i] = CorrectPin})

\* The EsapiTpm is used by the owner of its mutex only, and nobody owns the
\* mutex while waiting for a PIN, which would stop every other signature.
TpmExclusive ==
    \A w \in Clients : /\ pc[w] \in {"sign", "recheck"} => tpmOwner = w
                       /\ tpmOwner = w => pc[w] \in {"sign", "recheck"}
                       /\ phase[w] # "idle" => tpmOwner # w

\* What TpmExclusive rests on: only a served connection has a running worker,
\* only a worker at its prompt is in request_pin, and a worker is at the TPM
\* exactly while it owns the mutex.
WorkerInv ==
    /\ pc \in [Clients -> {"off", "read", "respond"} \cup InRequest]
    /\ phase \in [Clients -> Phases]
    /\ \A w \in Clients : w \notin serving => pc[w] = "off"
    /\ \A w \in Clients : phase[w] # "idle" => pc[w] = "pin"
    /\ \A w \in Clients : pc[w] \in {"sign", "recheck"} <=> tpmOwner = w

\* What the accept loop guarantees the workers.
WorkersLimited ==
    /\ IsFiniteSet(serving) /\ Cardinality(serving) <= MaxConnections
    /\ accepted \notin serving

\* What PerUseAuthorization rests on: request_pin and sign_with_key start without
\* a PIN, and every right PIN that is still to be used, and every signature that
\* was made, has a grant of its own.
PinsFresh ==
    /\ pin \in [Clients -> Pins \cup {NoPin}]
    /\ \A w \in Clients : phase[w] \in {"idle", "wait", "polled"} => result[w] = NoPin
    /\ \A w \in Clients : pc[w] \notin {"check", "tpm", "sign", "recheck", "record"}
                            => pin[w] = NoPin

Unspent == {w \in Clients : \/ phase[w] # "idle" /\ result[w] = CorrectPin
                            \/ pc[w] \in {"check", "tpm", "sign"} /\ pin[w] = CorrectPin}
Granted == {i \in Ids : verdict[i] = CorrectPin}
GrantsCover == signatures \in Nat /\ signatures + Cardinality(Unspent) <= Cardinality(Granted)

\* What HistoryNewest rests on: what a worker read under the history mutex is
\* still what the file holds when it saves.
HistoryEntries == [time : Nat, key : Keys \cup {NoKey}, ok : BOOLEAN]
HistoryTypeOK ==
    /\ now \in Nat
    /\ inbox \in [Clients -> Seq(Requests)]
    /\ request \in [Clients -> Requests \cup {NoRequest}]
    /\ entry \in [Clients -> HistoryEntries]
    /\ loaded \in [Clients -> Seq(HistoryEntries)]
    /\ log \in Seq(HistoryEntries)
LoadedCurrent ==
    \A w \in Clients : pc[w] = "save" => historyOwner = w /\ loaded[w] = history

\* The history file holds exactly the newest MAX_ENTRIES of the entries saved:
\* concurrent workers never overwrite each other's entry.
HistoryNewest == history = Newest(log)

\* A request is cancelled only when its client is gone: half-closing the
\* connection or closing an earlier one cancels nothing.
OnlyDisconnectCancels ==
    \A w \in Clients : (pc[w] \in InRequest /\ cancelled[w] /\ ~PollMayFail)
                         => peer[w] = "closed"

\* OnlyDisconnectCancels, with the states of a peer.
PeersTracked == /\ peer \in [Clients -> {"away", "open", "half", "closed"}]
                /\ OnlyDisconnectCancels

\* LIST never has more entries than there may be connections, so the limit of
\* the command line tool (MAX_PENDING_AUTHORIZATIONS) never refuses a listing.
PendingWithinLimit ==
    Cardinality({i \in Ids : authorizations[i] # NoKey}) <= MaxConnections

\* A client that disconnects frees its worker from the PIN prompt, with no
\* help from the user or the deadline.
DisconnectEndsPrompt ==
    \A w \in Clients : (pc[w] = "pin" /\ peer[w] = "closed") ~> pc[w] # "pin"

\* A worker that needs the TPM gets it, although others may be waiting for
\* PINs nobody types.
TpmNotHeldByPrompt == \A w \in Clients : pc[w] = "tpm" ~> pc[w] # "tpm"

\* Once deadlines are reached, every packet that is handled is answered or its
\* connection ends, whatever users and other clients do.
RequestsAnswered ==
    (\A w \in Clients : WF_vars(BrokerExpire(w)))
      => \A w \in Clients : pc[w] = "handle" ~> pc[w] \in {"read", "off"}

\* "removing the record makes that key unavailable to the agent": no signature
\* with a key whose record is deleted.
DeletedKeyUnused ==
    [][\A w \in Clients : (pc[w] = "sign" /\ pc'[w] = "recheck")
                            => keyState[request[w].key] # "deleted"]_vars
=============================================================================
