----------------------------- MODULE AgentProofs -----------------------------
(***************************************************************************)
(* Proofs about the composed agent: it uses the broker and the accept loop *)
(* as their specifications allow, so what is proved of those holds of the  *)
(* agent; the TPM mutex is never held across a PIN prompt; the table of    *)
(* pending requests stays within the limit of connections; a request is    *)
(* cancelled only for its own client; every signature has a grant of its   *)
(* own; and concurrent workers lose no entry of the history.               *)
(***************************************************************************)
EXTENDS Agent, AuthBrokerProofs, ConnectionServiceProofs

-----------------------------------------------------------------------------
(* The steps of the agent as steps of the broker.                           *)

\* serve_connection touches the broker only to make a new cancellation flag.
LEMMA ReaderBroker ==
    ASSUME NEW w \in Clients, Reader(w)
    PROVE  BrokerNext \/ UNCHANGED brokerVars
<1>1. CASE ReadEnds(w) \/ ReadFails(w)
  BY <1>1 DEF ReadEnds, ReadFails, EndConnection
<1>2. CASE ReadPacket(w)
  <2>1. NewCancellation(w)
    BY <1>2 DEF ReadPacket
  <2> QED
    BY <2>1 DEF BrokerNext
<1> QED
  BY <1>1, <1>2 DEF Reader

\* handle calls request_pin for a PIN key and takes what it returns; nothing
\* else of it touches the broker.
LEMMA HandlerBroker ==
    ASSUME NEW w \in Clients, Handler(w)
    PROVE  BrokerNext \/ UNCHANGED brokerVars
<1>1. CASE HandleSign(w)
  <2>1. \/ UNCHANGED brokerVars
        \/ request[w].key \in Keys /\ RequestPin(w, request[w].key)
    BY <1>1, AgentAssumption DEF HandleSign
  <2> QED
    BY <2>1 DEF BrokerNext
<1>2. CASE TakePin(w)
  <2>1. ReturnPin(w)
    BY <1>2 DEF TakePin
  <2> QED
    BY <2>1 DEF BrokerNext
<1>3. CASE HandleFails(w) \/ HandleIdentities(w) \/ CheckBeforeTpm(w)
  BY <1>3 DEF HandleFails, HandleIdentities, CheckBeforeTpm
<1>4. CASE LockTpm(w) \/ TpmSign(w) \/ Recheck(w)
  BY <1>4 DEF LockTpm, TpmSign, Recheck
<1>5. CASE RecordHistory(w) \/ LoadHistory(w) \/ SaveHistory(w)
  BY <1>5 DEF RecordHistory, LoadHistory, SaveHistory
<1>6. CASE JoinMonitor(w) \/ Respond(w) \/ RespondFails(w)
  BY <1>6 DEF JoinMonitor, Respond, RespondFails, EndConnection
<1> QED
  BY <1>1, <1>2, <1>3, <1>4, <1>5, <1>6 DEF Handler

\* Every step of the agent is a step of the broker or leaves it alone.
LEMMA AgentBrokerStep == [AgentNext]_vars => [BrokerNext]_brokerVars
<1> SUFFICES ASSUME [AgentNext]_vars
             PROVE  BrokerNext \/ UNCHANGED brokerVars
  OBVIOUS
<1>1. CASE UNCHANGED vars
  BY <1>1 DEF vars
<1>2. ASSUME NEW w \in Clients, ClientConnects(w) \/ ClientLeaves(w)
      PROVE  UNCHANGED brokerVars
  BY <1>2 DEF ClientConnects, ClientLeaves
<1>3. ASSUME NEW w \in Clients, NEW r \in Requests, ClientSends(w, r)
      PROVE  UNCHANGED brokerVars
  BY <1>3 DEF ClientSends
<1>4. ASSUME NEW w \in Clients, MonitorFires(w)
      PROVE  BrokerNext
  <2>1. Cancel(w)
    BY <1>4 DEF MonitorFires
  <2> QED
    BY <2>1 DEF BrokerNext
<1>5. ASSUME NEW w \in Clients,
             BrokerWorker(w) \/ BrokerExpire(w) \/ BrokerChild(w)
      PROVE  BrokerNext
  <2>1. WorkerStep(w) \/ Expire(w) \/ AuthorizerExits(w)
    BY <1>5 DEF BrokerWorker, BrokerExpire, BrokerChild
  <2> QED
    BY <2>1 DEF BrokerNext
<1>6. ASSUME NEW c \in Controls, BrokerControl(c) \/ BrokerUser(c)
      PROVE  BrokerNext
  <2>1. \/ List(c)
        \/ \E i \in Ids, p \in Pins : Prompt(c, i, p)
        \/ ControlStep(c)
        \/ EndSession(c)
    BY <1>6 DEF BrokerControl, BrokerUser
  <2> QED
    BY <2>1 DEF BrokerNext
<1>7. ASSUME NEW k \in Churn, StoreChanges(k)
      PROVE  UNCHANGED brokerVars
  BY <1>7 DEF StoreChanges
<1>8. CASE AgentAccepts \/ AgentWakes \/ AgentDrops \/ Tick
  BY <1>8 DEF AgentAccepts, AgentWakes, AgentDrops, Tick
<1> QED
  BY <1>1, <1>2, <1>3, <1>4, <1>5, <1>6, <1>7, <1>8, ReaderBroker,
     HandlerBroker DEF AgentNext

\* So what is proved of the broker can be used of the agent.
LEMMA AgentBroker == AgentSafety => BrokerSafety
<1>1. AgentInit => BrokerInit
  BY DEF AgentInit
<1>2. [AgentNext]_vars => [BrokerNext]_brokerVars
  BY AgentBrokerStep
<1> QED
  BY <1>1, <1>2, PTL DEF AgentSafety, BrokerSafety

\* What is proved of the broker holds of the whole agent; here, that a PIN is
\* only given to a request for the key its user was shown.
THEOREM AgentPromptNamesTheKey == AgentSafety => []PromptNamesTheKey
  BY AgentBroker, BrokerPromptNamesTheKey

-----------------------------------------------------------------------------
(* The steps of the agent as steps of the accept loop.                      *)

\* Every step of the agent is a step of the accept loop or leaves it alone.
LEMMA AgentServiceStep ==
    [AgentNext]_vars => [ServiceNext]_serviceVars
<1> SUFFICES ASSUME [AgentNext]_vars
             PROVE  ServiceNext \/ UNCHANGED serviceVars
  BY DEF serviceVars
<1>1. CASE UNCHANGED vars
  BY <1>1 DEF vars
<1>2. ASSUME NEW w \in Clients, ClientConnects(w)
      PROVE  ServiceNext
  BY <1>2 DEF ClientConnects, ServiceNext
<1>3. ASSUME NEW w \in Clients, EndConnection(w)
      PROVE  ServiceNext
  BY <1>3 DEF EndConnection, ServiceNext
<1>4. ASSUME NEW w \in Clients, Reader(w)
      PROVE  ServiceNext \/ UNCHANGED serviceVars
  BY <1>3, <1>4 DEF Reader, ReadEnds, ReadFails, ReadPacket
<1>5. ASSUME NEW w \in Clients, Handler(w)
      PROVE  ServiceNext \/ UNCHANGED serviceVars
  <2>1. CASE RespondFails(w)
    BY <1>3, <2>1 DEF RespondFails
  <2>2. CASE \/ HandleFails(w) \/ HandleIdentities(w) \/ HandleSign(w)
             \/ TakePin(w) \/ CheckBeforeTpm(w) \/ LockTpm(w) \/ TpmSign(w)
    BY <2>2 DEF HandleFails, HandleIdentities, HandleSign, TakePin,
       CheckBeforeTpm, LockTpm, TpmSign
  <2>3. CASE \/ Recheck(w) \/ RecordHistory(w) \/ LoadHistory(w)
             \/ SaveHistory(w) \/ JoinMonitor(w) \/ Respond(w)
    BY <2>3 DEF Recheck, RecordHistory, LoadHistory, SaveHistory, JoinMonitor,
       Respond
  <2> QED
    BY <1>5, <2>1, <2>2, <2>3 DEF Handler
<1>6. ASSUME NEW w \in Clients,
             \/ ClientLeaves(w) \/ MonitorFires(w) \/ BrokerWorker(w)
             \/ BrokerExpire(w) \/ BrokerChild(w)
             \/ \E r \in Requests : ClientSends(w, r)
      PROVE  UNCHANGED serviceVars
  BY <1>6 DEF ClientLeaves, MonitorFires, BrokerWorker, BrokerExpire,
     BrokerChild, ClientSends
<1>7. ASSUME NEW c \in Controls, BrokerControl(c) \/ BrokerUser(c)
      PROVE  UNCHANGED serviceVars
  BY <1>7 DEF BrokerControl, BrokerUser
<1>8. CASE Tick \/ \E k \in Churn : StoreChanges(k)
  BY <1>8 DEF Tick, StoreChanges
<1>9. CASE AgentAccepts \/ AgentWakes \/ AgentDrops
  BY <1>9 DEF AgentAccepts, AgentWakes, AgentDrops, ServiceNext
<1> QED
  BY <1>1, <1>2, <1>4, <1>5, <1>6, <1>7, <1>8, <1>9 DEF AgentNext

\* So what is proved of the accept loop can be used of the agent.
LEMMA AgentService == AgentSafety => ServiceSafety
<1>1. AgentInit => ServiceInit
  BY DEF AgentInit
<1>2. [AgentNext]_vars => [ServiceNext]_serviceVars
  BY AgentServiceStep
<1> QED
  BY <1>1, <1>2, PTL DEF AgentSafety, ServiceSafety

-----------------------------------------------------------------------------
(* The TPM mutex.                                                           *)

\* A step that leaves the workers, the prompts and the mutex alone.
LEMMA WorkerInvFrame ==
    ASSUME WorkerInv, UNCHANGED <<pc, phase, serving, tpmOwner>>
    PROVE  WorkerInv'
  BY DEF WorkerInv

\* A step of one worker that neither starts nor ends at the TPM or the prompt.
LEMMA WorkerInvGoto ==
    ASSUME WorkerInv, NEW w \in Clients, NEW label,
           label \in {"read", "respond"} \cup (InRequest \ {"pin", "sign", "recheck"}),
           pc[w] \notin {"off", "pin", "sign", "recheck"},
           Goto(w, label), UNCHANGED <<phase, serving, tpmOwner>>
    PROVE  WorkerInv'
<1>1. pc' = [pc EXCEPT ![w] = label]
  BY DEF Goto
<1>2. \A v \in Clients : pc'[v] = IF v = w THEN label ELSE pc[v]
  BY <1>1 DEF WorkerInv
<1>3. phase[w] = "idle" /\ w \in serving /\ tpmOwner # w
  BY DEF WorkerInv
<1>4. label \notin {"pin", "sign", "recheck"}
  BY DEF InRequest
<1>5. pc' \in [Clients -> {"off", "read", "respond"} \cup InRequest]
  BY <1>1 DEF WorkerInv
<1> QED
  BY <1>2, <1>3, <1>4, <1>5 DEF WorkerInv

\* The end of a connection, from outside a request.
LEMMA EndConnectionInv ==
    ASSUME WorkerInv, NEW w \in Clients, pc[w] \in {"read", "respond"},
           EndConnection(w)
    PROVE  WorkerInv'
<1>1. pc' = [pc EXCEPT ![w] = "off"] /\ serving' = serving \ {w}
  BY DEF EndConnection, Goto, Release
<1>2. UNCHANGED <<phase, tpmOwner>>
  BY DEF EndConnection, brokerVars, workerVars, tpmVars
<1>3. \A v \in Clients : pc'[v] = IF v = w THEN "off" ELSE pc[v]
  BY <1>1 DEF WorkerInv
<1>4. phase[w] = "idle" /\ tpmOwner # w
  BY DEF WorkerInv
<1>5. pc' \in [Clients -> {"off", "read", "respond"} \cup InRequest]
  BY <1>1 DEF WorkerInv
<1> QED
  BY <1>1, <1>2, <1>3, <1>4, <1>5 DEF WorkerInv

\* Reading a packet starts a request outside the prompt and the TPM.
LEMMA ReaderInv ==
    ASSUME WorkerInv, NEW w \in Clients, Reader(w)
    PROVE  WorkerInv'
<1>1. CASE ReadEnds(w) \/ ReadFails(w)
  BY <1>1, EndConnectionInv DEF ReadEnds, ReadFails
<1>2. CASE ReadPacket(w)
  <2>1. pc[w] = "read" /\ Goto(w, "handle")
    BY <1>2 DEF ReadPacket
  <2>2. UNCHANGED <<phase, serving, tpmOwner>>
    BY <1>2 DEF ReadPacket, NewCancellation, workerVars, serviceVars, tpmVars
  <2>3. "handle" \in {"read", "respond"} \cup (InRequest \ {"pin", "sign", "recheck"})
    BY DEF InRequest
  <2> QED
    BY <2>1, <2>2, <2>3, WorkerInvGoto
<1> QED
  BY <1>1, <1>2 DEF Reader

\* handle enters the prompt without the mutex, and the TPM with it.
LEMMA HandlerInv ==
    ASSUME WorkerInv, NEW w \in Clients, Handler(w)
    PROVE  WorkerInv'
<1> DEFINE Quiet == {"read", "respond"} \cup (InRequest \ {"pin", "sign", "recheck"})
<1>q. {"handle", "check", "tpm", "record", "append", "save", "join", "read", "respond"}
        \subseteq Quiet
  BY DEF InRequest
<1>1. CASE \/ HandleFails(w) \/ HandleIdentities(w) \/ CheckBeforeTpm(w)
           \/ JoinMonitor(w) \/ Respond(w)
  <2>1. /\ pc[w] \in {"handle", "check", "join", "respond"}
        /\ \E label \in Quiet : Goto(w, label)
    BY <1>1, <1>q DEF HandleFails, HandleIdentities, CheckBeforeTpm,
       JoinMonitor, Respond
  <2>2. UNCHANGED <<phase, serving, tpmOwner>>
    BY <1>1 DEF HandleFails, HandleIdentities, CheckBeforeTpm, JoinMonitor,
       Respond, brokerVars, workerVars, serviceVars, tpmVars
  <2> QED
    BY <2>1, <2>2, WorkerInvGoto
<1>2. CASE RecordHistory(w) \/ LoadHistory(w) \/ SaveHistory(w)
  <2>1. /\ pc[w] \in {"record", "append", "save"}
        /\ \E label \in Quiet : Goto(w, label)
    BY <1>2, <1>q DEF RecordHistory, LoadHistory, SaveHistory
  <2>2. UNCHANGED <<phase, serving, tpmOwner>>
    BY <1>2 DEF RecordHistory, LoadHistory, SaveHistory, brokerVars,
       workerVars, serviceVars, tpmVars
  <2> QED
    BY <2>1, <2>2, WorkerInvGoto
<1>3. CASE RespondFails(w)
  BY <1>3, EndConnectionInv DEF RespondFails
<1>4. CASE HandleSign(w)
  <2>1. pc[w] = "handle" /\ UNCHANGED <<serving, tpmOwner>>
    BY <1>4 DEF HandleSign, serviceVars, tpmVars
  <2>2. CASE request[w].key \notin PinKeys
    <3>1. Goto(w, "check") /\ UNCHANGED phase
      BY <1>4, <2>2 DEF HandleSign, brokerVars, workerVars
    <3> QED
      BY <1>q, <2>1, <3>1, WorkerInvGoto
  <2>3. CASE request[w].key \in PinKeys
    <3>1. /\ pc' = [pc EXCEPT ![w] = "pin"]
          /\ phase' = [phase EXCEPT ![w] = "wait"]
      BY <1>4, <2>3 DEF HandleSign, Goto, RequestPin
    <3>2. /\ \A v \in Clients : pc'[v] = IF v = w THEN "pin" ELSE pc[v]
          /\ \A v \in Clients : phase'[v] = IF v = w THEN "wait" ELSE phase[v]
      BY <3>1 DEF WorkerInv
    <3>3. w \in serving /\ tpmOwner # w
      BY <2>1 DEF WorkerInv
    <3>4. /\ pc' \in [Clients -> {"off", "read", "respond"} \cup InRequest]
          /\ phase' \in [Clients -> Phases]
      BY <3>1 DEF WorkerInv, InRequest, Phases
    <3> QED
      BY <2>1, <3>2, <3>3, <3>4 DEF WorkerInv
  <2> QED
    BY <2>2, <2>3
<1>5. CASE TakePin(w)
  <2>1. PICK label \in {"record", "check"} : Goto(w, label)
    BY <1>5 DEF TakePin
  <2>2. /\ pc[w] = "pin" /\ UNCHANGED <<serving, tpmOwner>>
        /\ phase' = [phase EXCEPT ![w] = "idle"]
        /\ pc' = [pc EXCEPT ![w] = label]
    BY <1>5, <2>1 DEF TakePin, ReturnPin, serviceVars, tpmVars, Goto
  <2>3. /\ \A v \in Clients : pc'[v] = IF v = w THEN label ELSE pc[v]
        /\ \A v \in Clients : phase'[v] = IF v = w THEN "idle" ELSE phase[v]
    BY <2>2 DEF WorkerInv
  <2>4. w \in serving /\ tpmOwner # w
    BY <2>2 DEF WorkerInv
  <2>5. /\ pc' \in [Clients -> {"off", "read", "respond"} \cup InRequest]
        /\ phase' \in [Clients -> Phases]
    BY <2>1, <2>2 DEF WorkerInv, InRequest, Phases
  <2> QED
    BY <2>1, <2>2, <2>3, <2>4, <2>5 DEF WorkerInv
<1>6. CASE LockTpm(w)
  <2>1. pc[w] = "tpm" /\ tpmOwner = NoClient /\ UNCHANGED <<phase, serving>>
    BY <1>6 DEF LockTpm, brokerVars, workerVars, serviceVars
  <2>2. CASE UNCHANGED tpmOwner /\ Goto(w, "record")
    BY <1>q, <2>1, <2>2, WorkerInvGoto
  <2>3. CASE tpmOwner' = w /\ Goto(w, "sign")
    <3>1. pc' = [pc EXCEPT ![w] = "sign"]
      BY <2>3 DEF Goto
    <3>2. \A v \in Clients : pc'[v] = IF v = w THEN "sign" ELSE pc[v]
      BY <3>1 DEF WorkerInv
    <3>3. \A v \in Clients : pc[v] \notin {"sign", "recheck"}
      BY <2>1, ServiceAssumption DEF WorkerInv
    <3>4. w \in serving /\ phase[w] = "idle"
      BY <2>1 DEF WorkerInv
    <3>5. pc' \in [Clients -> {"off", "read", "respond"} \cup InRequest]
      BY <3>1 DEF WorkerInv, InRequest
    <3> QED
      BY <2>1, <2>3, <3>2, <3>3, <3>4, <3>5 DEF WorkerInv
  <2> QED
    BY <1>6, <2>2, <2>3 DEF LockTpm, tpmVars
<1>7. CASE TpmSign(w) \/ Recheck(w)
  <2>1. pc[w] \in {"sign", "recheck"} /\ UNCHANGED <<phase, serving>>
    BY <1>7 DEF TpmSign, Recheck, brokerVars, workerVars, serviceVars
  <2>2. \/ tpmOwner' = NoClient /\ Goto(w, "record")
        \/ UNCHANGED tpmOwner /\ Goto(w, "recheck")
    BY <1>7 DEF TpmSign, Recheck
  <2>3. PICK label \in {"record", "recheck"} : pc' = [pc EXCEPT ![w] = label]
    BY <2>2 DEF Goto
  <2>4. \A v \in Clients : pc'[v] = IF v = w THEN label ELSE pc[v]
    BY <2>3 DEF WorkerInv
  <2>5. \/ tpmOwner' = NoClient /\ pc'[w] = "record"
        \/ UNCHANGED tpmOwner /\ pc'[w] = "recheck"
    BY <2>2, <2>4 DEF Goto, WorkerInv
  <2>6. w \in serving /\ phase[w] = "idle" /\ tpmOwner = w
    BY <2>1 DEF WorkerInv
  <2>7. pc' \in [Clients -> {"off", "read", "respond"} \cup InRequest]
    BY <2>3 DEF WorkerInv, InRequest
  <2>8. \A v \in Clients : pc'[v] \in {"sign", "recheck"} <=> tpmOwner' = v
    BY <2>4, <2>5, <2>6, ServiceAssumption DEF WorkerInv
  <2> QED
    BY <2>1, <2>4, <2>6, <2>7, <2>8 DEF WorkerInv
<1> QED
  BY <1>1, <1>2, <1>3, <1>4, <1>5, <1>6, <1>7 DEF Handler

\* The polling loop of request_pin stays inside the prompt of its worker.
LEMMA BrokerWorkerInv ==
    ASSUME WorkerInv, NEW w \in Clients, BrokerWorker(w)
    PROVE  WorkerInv'
<1>1. UNCHANGED <<pc, serving, tpmOwner>>
  BY DEF BrokerWorker, serviceVars, agentVars, threadVars, tpmVars
<1>2. PICK q \in Phases : phase[w] # "idle" /\ phase' = [phase EXCEPT ![w] = q]
  BY DEF BrokerWorker, WorkerStep, TryRecv, PollDeadline, Cleanup,
     StopAuthorizer, Phases
<1>3. phase' \in [Clients -> Phases]
  BY <1>2 DEF WorkerInv
<1>4. \A v \in Clients : phase'[v] # "idle" => phase[v] # "idle"
  BY <1>2 DEF WorkerInv
<1> QED
  BY <1>1, <1>3, <1>4 DEF WorkerInv

\* The accept loop starts workers only for connections that had none.
LEMMA AgentAcceptsInv ==
    ASSUME WorkerInv, AgentAccepts
    PROVE  WorkerInv'
<1>1. /\ pc' = [w \in Clients |-> IF w \in serving' \ serving THEN "read" ELSE pc[w]]
      /\ UNCHANGED <<phase, tpmOwner>>
  BY DEF AgentAccepts, brokerVars, workerVars, tpmVars
<1>2. serving \subseteq serving'
  BY DEF AgentAccepts, AcceptLoop, Accept,
     AcquireWait, AcquireSpawn
<1>3. \A w \in Clients : pc'[w] = IF w \in serving' \ serving THEN "read" ELSE pc[w]
  BY <1>1
<1>4. pc' \in [Clients -> {"off", "read", "respond"} \cup InRequest]
  BY <1>1 DEF WorkerInv
<1>5. \A w \in Clients : w \in serving' \ serving =>
         pc[w] = "off" /\ phase[w] = "idle" /\ tpmOwner # w
  BY DEF WorkerInv
<1> QED
  BY <1>1, <1>2, <1>3, <1>4, <1>5 DEF WorkerInv

\* Every step of the agent keeps WorkerInv.
LEMMA WorkerStepInv == WorkerInv /\ [AgentNext]_vars => WorkerInv'
<1> SUFFICES ASSUME WorkerInv, [AgentNext]_vars
             PROVE  WorkerInv'
  OBVIOUS
<1>1. CASE UNCHANGED vars
  BY <1>1, WorkerInvFrame DEF vars, brokerVars, workerVars, serviceVars,
     agentVars, threadVars, tpmVars
<1>2. ASSUME NEW w \in Clients,
             \/ ClientConnects(w) \/ ClientLeaves(w) \/ MonitorFires(w)
             \/ \E r \in Requests : ClientSends(w, r)
      PROVE  WorkerInv'
  <2>1. UNCHANGED <<pc, phase, serving, tpmOwner>>
    BY <1>2 DEF ClientConnects, ClientLeaves, MonitorFires, ClientSends,
       Connect, Cancel, brokerVars, workerVars, serviceVars,
       threadVars, tpmVars
  <2> QED
    BY <2>1, WorkerInvFrame
<1>3. ASSUME NEW w \in Clients, BrokerExpire(w) \/ BrokerChild(w)
      PROVE  WorkerInv'
  <2>1. UNCHANGED <<pc, phase, serving, tpmOwner>>
    BY <1>3 DEF BrokerExpire, BrokerChild, Expire, AuthorizerExits,
       serviceVars, agentVars, threadVars, tpmVars
  <2> QED
    BY <2>1, WorkerInvFrame
<1>4. ASSUME NEW c \in Controls, BrokerControl(c) \/ BrokerUser(c)
      PROVE  WorkerInv'
  <2>1. UNCHANGED <<pc, phase, serving, tpmOwner>>
    BY <1>4 DEF BrokerControl, BrokerUser, ControlStep, AuthorizeRemove,
       AuthorizeSend, List, Prompt, EndSession, workerVars, serviceVars,
       agentVars, threadVars, tpmVars
  <2> QED
    BY <2>1, WorkerInvFrame
<1>5. CASE AgentWakes \/ AgentDrops \/ Tick \/ \E k \in Churn : StoreChanges(k)
  <2>1. UNCHANGED <<pc, phase, serving, tpmOwner>>
    BY <1>5 DEF AgentWakes, AgentDrops, Tick, StoreChanges,
       SpuriousWakeup, SpawnFails, agentVars, brokerVars,
       workerVars, serviceVars, threadVars, tpmVars
  <2> QED
    BY <2>1, WorkerInvFrame
<1> QED
  BY <1>1, <1>2, <1>3, <1>4, <1>5, ReaderInv, HandlerInv, BrokerWorkerInv,
     AgentAcceptsInv DEF AgentNext

\* WorkerInv holds in every reachable state of the agent.
LEMMA AgentWorkerInv == AgentSafety => []WorkerInv
<1>1. AgentInit => WorkerInv
  BY ServiceAssumption DEF AgentInit, BrokerInit, WorkerInv, Phases
<1> QED
  BY <1>1, WorkerStepInv, PTL DEF AgentSafety

\* sign_with_key uses the TPM only with the mutex, and never waits for a PIN
\* while it holds it, for any number of connections and requests.
THEOREM AgentTpmExclusive == AgentSafety => []TpmExclusive
<1>1. WorkerInv => TpmExclusive
  BY DEF WorkerInv, TpmExclusive
<1> QED
  BY <1>1, AgentWorkerInv, PTL

-----------------------------------------------------------------------------
(* The limiter, and the table of pending requests.                          *)

\* What is proved of the limiter holds of the agent: its workers are finitely
\* many, never more than MAX_CONNECTIONS.
THEOREM AgentWorkersLimited == AgentSafety => []WorkersLimited
<1>1. ServiceInv => WorkersLimited
  BY DEF ServiceInv, PermitsExact, OnePlace, WorkersLimited
<1> QED
  BY <1>1, AgentService, ServiceInvariance, PTL

\* The broker's invariant is one of the agent.
LEMMA AgentBrokerInv == AgentSafety => []BrokerInv
  BY AgentBroker, BrokerInvariance, PTL

\* Every entry of the table belongs to a worker of its own.
LEMMA PendingCounted ==
    ASSUME EntryOwned, WorkerInv, WorkersLimited
    PROVE  PendingWithinLimit
<1> DEFINE pending == {i \in Ids : authorizations[i] # NoKey}
           f == [i \in pending |-> CHOOSE w \in serving : rid[w] = i]
<1>1. \A i \in pending : \E w \in serving : rid[w] = i
  <2> SUFFICES ASSUME NEW i \in pending
               PROVE  \E w \in serving : rid[w] = i
    OBVIOUS
  <2>1. PICK w \in Clients : phase[w] \in {"wait", "polled", "cleanup"} /\ rid[w] = i
    BY DEF EntryOwned
  <2>2. pc[w] = "pin"
    BY <2>1 DEF WorkerInv
  <2>3. w \in serving
    BY <2>2 DEF WorkerInv
  <2> QED
    BY <2>1, <2>3
<1>2. \A i \in pending : f[i] \in serving /\ rid[f[i]] = i
  BY <1>1
<1>3. f \in Injection(pending, serving)
  <2>1. f \in [pending -> serving]
    BY <1>2
  <2> HIDE DEF f, pending
  <2>2. \A i, j \in pending : f[i] = f[j] => i = j
    BY <1>2
  <2> QED
    BY <2>1, <2>2 DEF Injection, IsInjective
<1>4. IsFiniteSet(pending) /\ Cardinality(pending) <= Cardinality(serving)
  BY <1>3, FS_Injection DEF WorkersLimited, ExistsInjection
<1>5. Cardinality(pending) \in Nat /\ Cardinality(serving) \in Nat /\ MaxConnections \in Nat
  BY <1>4, FS_CardinalityType, ServiceAssumption DEF WorkersLimited
<1> QED
  BY <1>4, <1>5 DEF PendingWithinLimit, WorkersLimited

\* The table that LIST shows never has more entries than MAX_CONNECTIONS.
THEOREM AgentPendingWithinLimit == AgentSafety => []PendingWithinLimit
<1>1. BrokerInv => EntryOwned
  BY DEF BrokerInv
<1>2. EntryOwned /\ WorkerInv /\ WorkersLimited => PendingWithinLimit
  BY PendingCounted
<1> QED
  BY <1>1, <1>2, AgentBrokerInv, AgentWorkerInv, AgentWorkersLimited, PTL
-----------------------------------------------------------------------------
(* Cancellation.                                                            *)

\* A step that starts no request, cancels none and moves no peer.
LEMMA PeersFrame ==
    ASSUME PeersTracked, UNCHANGED peer,
           \A w \in Clients : pc'[w] \in InRequest => pc[w] \in InRequest,
           \A w \in Clients : cancelled'[w] => cancelled[w]
    PROVE  PeersTracked'
  BY DEF PeersTracked, OnlyDisconnectCancels

\* A step of one worker within a request, or out of it.
LEMMA PeersGoto ==
    ASSUME PeersTracked, WorkerInv, NEW w \in Clients, NEW label,
           pc[w] \in InRequest \/ label \notin InRequest,
           Goto(w, label), UNCHANGED <<peer, cancelled>>
    PROVE  PeersTracked'
<1>1. \A v \in Clients : pc'[v] \in InRequest => pc[v] \in InRequest
  BY DEF Goto, WorkerInv
<1> QED
  BY <1>1, PeersFrame

\* The end of a connection is the end of its request.
LEMMA PeersEnd ==
    ASSUME PeersTracked, WorkerInv, NEW w \in Clients, EndConnection(w)
    PROVE  PeersTracked'
<1>1. /\ pc' = [pc EXCEPT ![w] = "off"] /\ peer' = [peer EXCEPT ![w] = "away"]
      /\ UNCHANGED cancelled
  BY DEF EndConnection, Goto, brokerVars
<1>2. /\ \A v \in Clients : pc'[v] = IF v = w THEN "off" ELSE pc[v]
      /\ \A v \in Clients : peer'[v] = IF v = w THEN "away" ELSE peer[v]
      /\ peer' \in [Clients -> {"away", "open", "half", "closed"}]
  BY <1>1 DEF PeersTracked, WorkerInv
<1>3. "off" \notin InRequest
  BY DEF InRequest
<1> QED
  BY <1>1, <1>2, <1>3 DEF PeersTracked, OnlyDisconnectCancels

\* serve_connection gives every packet a cancellation flag of its own.
LEMMA PeersReader ==
    ASSUME PeersTracked, WorkerInv, BrokerTypeOK, NEW w \in Clients, Reader(w)
    PROVE  PeersTracked'
<1>1. CASE ReadEnds(w) \/ ReadFails(w)
  BY <1>1, PeersEnd DEF ReadEnds, ReadFails
<1>2. CASE ReadPacket(w)
  <2>1. /\ pc' = [pc EXCEPT ![w] = "handle"]
        /\ cancelled' = [cancelled EXCEPT ![w] = FALSE]
        /\ UNCHANGED peer
    BY <1>2 DEF ReadPacket, NewCancellation, Goto
  <2>2. \A v \in Clients : /\ pc'[v] = IF v = w THEN "handle" ELSE pc[v]
                           /\ cancelled'[v] = IF v = w THEN FALSE ELSE cancelled[v]
    BY <2>1 DEF WorkerInv, BrokerTypeOK
  <2> QED
    BY <2>1, <2>2 DEF PeersTracked, OnlyDisconnectCancels
<1> QED
  BY <1>1, <1>2 DEF Reader

\* handle neither cancels nor starts a request.
LEMMA PeersHandler ==
    ASSUME PeersTracked, WorkerInv, NEW w \in Clients, Handler(w)
    PROVE  PeersTracked'
<1>1. CASE RespondFails(w)
  BY <1>1, PeersEnd DEF RespondFails
<1>2. CASE Respond(w)
  <2>1. Goto(w, "read") /\ UNCHANGED <<peer, cancelled>> /\ "read" \notin InRequest
    BY <1>2 DEF Respond, connVars, brokerVars, InRequest
  <2> QED
    BY <2>1, PeersGoto
<1>3. CASE HandleFails(w) \/ HandleIdentities(w) \/ HandleSign(w) \/ TakePin(w)
  <2>1. pc[w] \in {"handle", "pin"} /\ \E label : Goto(w, label)
    BY <1>3 DEF HandleFails, HandleIdentities, HandleSign, TakePin
  <2>2. UNCHANGED <<peer, cancelled>>
    BY <1>3 DEF HandleFails, HandleIdentities, HandleSign, TakePin, ReturnPin,
       RequestPin, connVars, brokerVars
  <2>3. pc[w] \in InRequest
    BY <2>1 DEF InRequest
  <2> QED
    BY <2>1, <2>2, <2>3, PeersGoto
<1>4. CASE CheckBeforeTpm(w) \/ LockTpm(w) \/ TpmSign(w) \/ Recheck(w)
  <2>1. pc[w] \in {"check", "tpm", "sign", "recheck"} /\ \E label : Goto(w, label)
    BY <1>4 DEF CheckBeforeTpm, LockTpm, TpmSign, Recheck
  <2>2. UNCHANGED <<peer, cancelled>>
    BY <1>4 DEF CheckBeforeTpm, LockTpm, TpmSign, Recheck, connVars, brokerVars
  <2>3. pc[w] \in InRequest
    BY <2>1 DEF InRequest
  <2> QED
    BY <2>1, <2>2, <2>3, PeersGoto
<1>5. CASE RecordHistory(w) \/ LoadHistory(w) \/ SaveHistory(w) \/ JoinMonitor(w)
  <2>1. pc[w] \in {"record", "append", "save", "join"} /\ \E label : Goto(w, label)
    BY <1>5 DEF RecordHistory, LoadHistory, SaveHistory, JoinMonitor
  <2>2. UNCHANGED <<peer, cancelled>>
    BY <1>5 DEF RecordHistory, LoadHistory, SaveHistory, JoinMonitor, connVars, brokerVars
  <2>3. pc[w] \in InRequest
    BY <2>1 DEF InRequest
  <2> QED
    BY <2>1, <2>2, <2>3, PeersGoto
<1> QED
  BY <1>1, <1>2, <1>3, <1>4, <1>5 DEF Handler

\* A client moves only its own end, and comes back only after its connection
\* ended.
LEMMA PeersClient ==
    ASSUME PeersTracked, NEW w \in Clients, ClientConnects(w) \/ ClientLeaves(w)
    PROVE  PeersTracked'
<1>1. UNCHANGED <<pc, cancelled>>
  BY DEF ClientConnects, ClientLeaves, threadVars, brokerVars
<1>2. PICK to \in {"open", "half", "closed"} :
         peer[w] # "closed" /\ peer' = [peer EXCEPT ![w] = to]
  BY DEF ClientConnects, ClientLeaves
<1>3. /\ \A v \in Clients : peer'[v] = IF v = w THEN to ELSE peer[v]
      /\ peer' \in [Clients -> {"away", "open", "half", "closed"}]
  BY <1>2 DEF PeersTracked
<1> QED
  BY <1>1, <1>2, <1>3 DEF PeersTracked, OnlyDisconnectCancels

\* The monitor cancels for a peer that is gone.
LEMMA PeersMonitor ==
    ASSUME PeersTracked, BrokerTypeOK, NEW w \in Clients, MonitorFires(w)
    PROVE  PeersTracked'
<1>1. /\ peer[w] = "closed" \/ PollMayFail
      /\ cancelled' = [cancelled EXCEPT ![w] = TRUE]
      /\ UNCHANGED <<peer, pc>>
  BY DEF MonitorFires, Cancel, connVars
<1>2. \A v \in Clients : cancelled'[v] = IF v = w THEN TRUE ELSE cancelled[v]
  BY <1>1 DEF BrokerTypeOK
<1> QED
  BY <1>1, <1>2 DEF PeersTracked, OnlyDisconnectCancels

\* The accept loop: a new worker handles nothing yet, and a connection that is
\* dropped had no worker.
LEMMA PeersAccept ==
    ASSUME PeersTracked, WorkerInv, WorkersLimited,
           AgentAccepts \/ AgentWakes \/ AgentDrops
    PROVE  PeersTracked'
<1>1. CASE AgentAccepts
  <2>1. /\ pc' = [w \in Clients |-> IF w \in serving' \ serving THEN "read" ELSE pc[w]]
        /\ UNCHANGED <<peer, cancelled>>
    BY <1>1 DEF AgentAccepts, connVars, brokerVars
  <2>2. \A w \in Clients : pc'[w] \in {"read", pc[w]}
    BY <2>1
  <2>3. "read" \notin InRequest
    BY DEF InRequest
  <2> QED
    BY <2>1, <2>2, <2>3, PeersFrame
<1>2. CASE AgentWakes
  BY <1>2, PeersFrame DEF AgentWakes, agentVars, connVars, threadVars, brokerVars
<1>3. CASE AgentDrops
  <2>1. /\ peer' = [peer EXCEPT ![accepted] = "away"]
        /\ UNCHANGED <<pc, cancelled>>
    BY <1>3 DEF AgentDrops, threadVars, brokerVars
  <2>2. /\ \A v \in Clients : peer'[v] = IF v = accepted THEN "away" ELSE peer[v]
        /\ peer' \in [Clients -> {"away", "open", "half", "closed"}]
    BY <2>1 DEF PeersTracked
  <2>3. \A v \in Clients : v = accepted => pc[v] = "off"
    BY DEF WorkersLimited, WorkerInv
  <2>4. "off" \notin InRequest
    BY DEF InRequest
  <2> QED
    BY <2>1, <2>2, <2>3, <2>4 DEF PeersTracked, OnlyDisconnectCancels
<1> QED
  BY <1>1, <1>2, <1>3

\* Every step of the agent keeps PeersTracked.
LEMMA PeersStep ==
    ASSUME PeersTracked, WorkerInv, WorkersLimited, BrokerTypeOK, [AgentNext]_vars
    PROVE  PeersTracked'
<1>1. CASE UNCHANGED vars
  BY <1>1, PeersFrame DEF vars, agentVars, connVars, threadVars, brokerVars
<1>2. ASSUME NEW w \in Clients,
             \/ BrokerWorker(w) \/ BrokerExpire(w) \/ BrokerChild(w)
             \/ \E r \in Requests : ClientSends(w, r)
      PROVE  PeersTracked'
  <2>1. UNCHANGED <<peer, pc, cancelled>>
    BY <1>2 DEF BrokerWorker, BrokerExpire, BrokerChild, ClientSends, WorkerStep,
       TryRecv, PollDeadline, Cleanup, StopAuthorizer, Expire, AuthorizerExits,
       agentVars, connVars, threadVars, brokerVars
  <2> QED
    BY <2>1, PeersFrame
<1>3. ASSUME NEW c \in Controls, BrokerControl(c) \/ BrokerUser(c)
      PROVE  PeersTracked'
  <2>1. UNCHANGED <<peer, pc, cancelled>>
    BY <1>3 DEF BrokerControl, BrokerUser, ControlStep, AuthorizeRemove,
       AuthorizeSend, List, Prompt, EndSession, agentVars, connVars, threadVars
  <2> QED
    BY <2>1, PeersFrame
<1>4. CASE Tick \/ \E k \in Churn : StoreChanges(k)
  <2>1. UNCHANGED <<peer, pc, cancelled>>
    BY <1>4 DEF Tick, StoreChanges, connVars, threadVars, brokerVars
  <2> QED
    BY <2>1, PeersFrame
<1> QED
  BY <1>1, <1>2, <1>3, <1>4, PeersReader, PeersHandler, PeersClient,
     PeersMonitor, PeersAccept DEF AgentNext

\* A request is cancelled only when its own client disconnected, unless poll()
\* itself may fail: no other connection, earlier request or half-closed
\* stream cancels it.
THEOREM AgentOnlyDisconnectCancels == AgentSafety => []OnlyDisconnectCancels
<1>1. AgentInit => PeersTracked
  BY DEF AgentInit, BrokerInit, PeersTracked, OnlyDisconnectCancels
<1>2. PeersTracked /\ WorkerInv /\ WorkersLimited /\ BrokerTypeOK /\ [AgentNext]_vars
        => PeersTracked'
  BY PeersStep
<1>3. BrokerInv => BrokerTypeOK
  BY DEF BrokerInv
<1>4. PeersTracked => OnlyDisconnectCancels
  BY DEF PeersTracked
<1> QED
  BY <1>1, <1>2, <1>3, <1>4, AgentBrokerInv, AgentWorkerInv, AgentWorkersLimited,
     PTL DEF AgentSafety
-----------------------------------------------------------------------------
(* One grant for each signature.                                            *)

\* A step that leaves the PINs and where they are alone.
LEMMA PinsFrame ==
    ASSUME PinsFresh, UNCHANGED <<pin, phase, result, pc>>
    PROVE  PinsFresh'
  BY DEF PinsFresh

\* A worker that moves on keeps its PIN only until sign_with_key returned.
LEMMA PinsGoto ==
    ASSUME PinsFresh, WorkerInv, NEW w \in Clients, NEW label, Goto(w, label),
           UNCHANGED <<pin, phase, result>>,
           \/ pc[w] \notin {"check", "tpm", "sign", "recheck", "record"}
           \/ label \in {"check", "tpm", "sign", "recheck", "record"}
    PROVE  PinsFresh'
<1>1. \A v \in Clients : pc'[v] = IF v = w THEN label ELSE pc[v]
  BY DEF Goto, WorkerInv
<1> QED
  BY <1>1 DEF PinsFresh

\* What handle does with the PIN.
LEMMA PinsHandler ==
    ASSUME PinsFresh, WorkerInv, BrokerTypeOK, NEW w \in Clients, Handler(w)
    PROVE  PinsFresh'
<1>1. CASE \/ HandleFails(w) \/ HandleIdentities(w) \/ JoinMonitor(w) \/ Respond(w)
           \/ LoadHistory(w) \/ SaveHistory(w) \/ RespondFails(w)
  <2>1. /\ pc[w] \in {"handle", "join", "respond", "append", "save"}
        /\ \E label : Goto(w, label)
    BY <1>1 DEF HandleFails, HandleIdentities, JoinMonitor, Respond, LoadHistory,
       SaveHistory, RespondFails, EndConnection
  <2>2. UNCHANGED <<pin, phase, result>>
    BY <1>1 DEF HandleFails, HandleIdentities, JoinMonitor, Respond, LoadHistory,
       SaveHistory, RespondFails, EndConnection, brokerVars, workerVars
  <2> QED
    BY <2>1, <2>2, PinsGoto
<1>2. CASE CheckBeforeTpm(w) \/ LockTpm(w) \/ TpmSign(w) \/ Recheck(w)
  <2>1. \E label \in {"check", "tpm", "sign", "recheck", "record"} : Goto(w, label)
    BY <1>2 DEF CheckBeforeTpm, LockTpm, TpmSign, Recheck
  <2>2. UNCHANGED <<pin, phase, result>>
    BY <1>2 DEF CheckBeforeTpm, LockTpm, TpmSign, Recheck, brokerVars, workerVars
  <2> QED
    BY <2>1, <2>2, PinsGoto
<1>3. CASE HandleSign(w)
  <2>1. pc[w] = "handle" /\ UNCHANGED pin
    BY <1>3 DEF HandleSign
  <2>2. CASE request[w].key \notin PinKeys
    <3>1. Goto(w, "check") /\ UNCHANGED <<phase, result>>
      BY <1>3, <2>2 DEF HandleSign, brokerVars, workerVars
    <3> QED
      BY <2>1, <3>1, PinsGoto
  <2>3. CASE request[w].key \in PinKeys
    <3>1. /\ pc' = [pc EXCEPT ![w] = "pin"] /\ phase[w] = "idle"
          /\ phase' = [phase EXCEPT ![w] = "wait"] /\ UNCHANGED result
      BY <1>3, <2>3 DEF HandleSign, Goto, RequestPin
    <3>2. \A v \in Clients : /\ pc'[v] = IF v = w THEN "pin" ELSE pc[v]
                             /\ phase'[v] = IF v = w THEN "wait" ELSE phase[v]
      BY <3>1 DEF WorkerInv
    <3> QED
      BY <2>1, <3>1, <3>2 DEF PinsFresh
  <2> QED
    BY <2>2, <2>3
<1>4. CASE TakePin(w)
  <2>1. PICK label \in {"record", "check"} : Goto(w, label)
    BY <1>4 DEF TakePin
  <2>2. /\ pc' = [pc EXCEPT ![w] = label]
        /\ phase' = [phase EXCEPT ![w] = "idle"]
        /\ result' = [result EXCEPT ![w] = NoPin]
        /\ pin' = [pin EXCEPT ![w] = result[w]]
    BY <1>4, <2>1 DEF TakePin, ReturnPin, Goto
  <2>3. \A v \in Clients : /\ pc'[v] = IF v = w THEN label ELSE pc[v]
                           /\ phase'[v] = IF v = w THEN "idle" ELSE phase[v]
                           /\ result'[v] = IF v = w THEN NoPin ELSE result[v]
                           /\ pin'[v] = IF v = w THEN result[w] ELSE pin[v]
    BY <2>2 DEF WorkerInv, BrokerTypeOK, PinsFresh
  <2>4. pin' \in [Clients -> Pins \cup {NoPin}]
    BY <2>2 DEF BrokerTypeOK, PinsFresh
  <2> QED
    BY <2>1, <2>3, <2>4 DEF PinsFresh
<1>5. CASE RecordHistory(w)
  <2>1. PICK label : Goto(w, label)
    BY <1>5 DEF RecordHistory
  <2>2. /\ pc' = [pc EXCEPT ![w] = label] /\ pin' = [pin EXCEPT ![w] = NoPin]
        /\ UNCHANGED <<phase, result>>
    BY <1>5, <2>1 DEF RecordHistory, Goto, brokerVars, workerVars
  <2>3. \A v \in Clients : /\ pc'[v] = IF v = w THEN label ELSE pc[v]
                           /\ pin'[v] = IF v = w THEN NoPin ELSE pin[v]
    BY <2>2 DEF WorkerInv, PinsFresh
  <2>4. pin' \in [Clients -> Pins \cup {NoPin}]
    BY <2>2 DEF PinsFresh
  <2> QED
    BY <2>2, <2>3, <2>4 DEF PinsFresh
<1> QED
  BY <1>1, <1>2, <1>3, <1>4, <1>5 DEF Handler

\* request_pin has a PIN only when it left its loop.
LEMMA PinsBrokerWorker ==
    ASSUME PinsFresh, BrokerTypeOK, NEW w \in Clients, BrokerWorker(w)
    PROVE  PinsFresh'
<1>1. UNCHANGED <<pin, pc>>
  BY DEF BrokerWorker, agentVars, threadVars
<1>2. \/ \E q \in Phases : \E p : /\ q \notin {"idle", "wait", "polled"}
                                   /\ phase' = [phase EXCEPT ![w] = q]
                                   /\ result' = [result EXCEPT ![w] = p]
      \/ \E q \in Phases : /\ phase' = [phase EXCEPT ![w] = q] /\ UNCHANGED result
                           /\ q \in {"wait", "polled"} => phase[w] \in {"wait", "polled"}
                           /\ q # "idle"
  BY DEF BrokerWorker, WorkerStep, TryRecv, PollDeadline, Cleanup, StopAuthorizer, Phases
<1>3. CASE \E q \in Phases : \E p : /\ q \notin {"idle", "wait", "polled"}
                                     /\ phase' = [phase EXCEPT ![w] = q]
                                     /\ result' = [result EXCEPT ![w] = p]
  BY <1>1, <1>3 DEF PinsFresh, BrokerTypeOK
<1>4. CASE \E q \in Phases : /\ phase' = [phase EXCEPT ![w] = q] /\ UNCHANGED result
                             /\ q \in {"wait", "polled"} => phase[w] \in {"wait", "polled"}
                             /\ q # "idle"
  BY <1>1, <1>4 DEF PinsFresh, BrokerTypeOK
<1> QED
  BY <1>2, <1>3, <1>4

\* Every step of the agent keeps PinsFresh.
LEMMA PinsStep ==
    ASSUME PinsFresh, WorkerInv, BrokerTypeOK, [AgentNext]_vars
    PROVE  PinsFresh'
<1>1. CASE UNCHANGED vars
  BY <1>1, PinsFrame DEF vars, agentVars, threadVars, brokerVars, workerVars
<1>2. ASSUME NEW w \in Clients, Reader(w)
      PROVE  PinsFresh'
  <2>1. pc[w] = "read" /\ (\E label : Goto(w, label)) /\ UNCHANGED <<pin, phase, result>>
    BY <1>2 DEF Reader, ReadEnds, ReadFails, ReadPacket, EndConnection,
       NewCancellation, brokerVars, workerVars
  <2> QED
    BY <2>1, PinsGoto
<1>3. ASSUME NEW w \in Clients,
             \/ ClientConnects(w) \/ ClientLeaves(w) \/ MonitorFires(w)
             \/ BrokerExpire(w) \/ BrokerChild(w)
             \/ \E r \in Requests : ClientSends(w, r)
      PROVE  PinsFresh'
  <2>1. UNCHANGED <<pin, phase, result, pc>>
    BY <1>3 DEF ClientConnects, ClientLeaves, MonitorFires, BrokerExpire,
       BrokerChild, ClientSends, Expire, AuthorizerExits, Cancel, agentVars,
       threadVars, brokerVars, workerVars
  <2> QED
    BY <2>1, PinsFrame
<1>4. ASSUME NEW c \in Controls, BrokerControl(c) \/ BrokerUser(c)
      PROVE  PinsFresh'
  <2>1. UNCHANGED <<pin, phase, result, pc>>
    BY <1>4 DEF BrokerControl, BrokerUser, ControlStep, AuthorizeRemove,
       AuthorizeSend, List, Prompt, EndSession, agentVars, threadVars, workerVars
  <2> QED
    BY <2>1, PinsFrame
<1>5. CASE AgentWakes \/ AgentDrops \/ Tick \/ \E k \in Churn : StoreChanges(k)
  <2>1. UNCHANGED <<pin, phase, result, pc>>
    BY <1>5 DEF AgentWakes, AgentDrops, Tick, StoreChanges, agentVars,
       threadVars, brokerVars, workerVars
  <2> QED
    BY <2>1, PinsFrame
<1>6. CASE AgentAccepts
  <2>1. /\ pc' = [w \in Clients |-> IF w \in serving' \ serving THEN "read" ELSE pc[w]]
        /\ UNCHANGED <<pin, phase, result>>
    BY <1>6 DEF AgentAccepts, brokerVars, workerVars
  <2>2. \A w \in Clients : pc'[w] = IF w \in serving' \ serving THEN "read" ELSE pc[w]
    BY <2>1
  <2>3. \A w \in Clients : w \in serving' \ serving => pc[w] = "off"
    BY DEF WorkerInv
  <2> QED
    BY <2>1, <2>2, <2>3 DEF PinsFresh
<1> QED
  BY <1>1, <1>2, <1>3, <1>4, <1>5, <1>6, PinsHandler, PinsBrokerWorker DEF AgentNext

\* Grants and unspent PINs are finitely many.
LEMMA CoverFinite ==
    /\ \A S : S \subseteq Clients => IsFiniteSet(S) /\ Cardinality(S) \in Nat
    /\ \A S : S \subseteq Ids => IsFiniteSet(S) /\ Cardinality(S) \in Nat
<1>1. IsFiniteSet(Clients) /\ IsFiniteSet(Ids)
  BY ServiceAssumption, BoundIsNat, FS_Interval DEF Ids
<1>2. ASSUME NEW T, IsFiniteSet(T), NEW S, S \subseteq T
      PROVE  IsFiniteSet(S) /\ Cardinality(S) \in Nat
  BY <1>2, FS_Subset, FS_CardinalityType
<1> QED
  BY <1>1, <1>2

\* A step that makes no signature, takes back no grant and hands out no PIN.
LEMMA CoverFrame ==
    ASSUME GrantsCover, UNCHANGED signatures, Granted \subseteq Granted',
           Unspent' \subseteq Unspent
    PROVE  GrantsCover'
<1>1. /\ Unspent \subseteq Clients /\ Unspent' \subseteq Clients
      /\ Granted \subseteq Ids /\ Granted' \subseteq Ids
  BY DEF Unspent, Granted
<1>2. Cardinality(Unspent') <= Cardinality(Unspent)
  BY <1>1, CoverFinite, FS_Subset
<1>3. Cardinality(Granted) <= Cardinality(Granted')
  BY <1>1, CoverFinite, FS_Subset
<1> QED
  BY <1>1, <1>2, <1>3, CoverFinite DEF GrantsCover

\* CorrectPin is not one of the other verdicts.
LEMMA CorrectPinDistinct ==
    CorrectPin \notin {NoPin, "unused", "open", "timed out", "cancelled", "disconnected"}
  BY AgentAssumption, BrokerAssumption

\* A step in which only where a worker is changes.
LEMMA CoverGoto ==
    ASSUME GrantsCover, WorkerInv, NEW w \in Clients, NEW label, Goto(w, label),
           UNCHANGED <<pin, phase, result, verdict, signatures>>,
           \/ pin[w] = NoPin
           \/ label \notin {"check", "tpm", "sign"}
           \/ pc[w] \in {"check", "tpm", "sign"}
    PROVE  GrantsCover'
<1>1. \A v \in Clients : pc'[v] = IF v = w THEN label ELSE pc[v]
  BY DEF Goto, WorkerInv
<1>2. Unspent' \subseteq Unspent
  BY <1>1, CorrectPinDistinct DEF Unspent
<1>3. Granted' = Granted
  BY DEF Granted
<1> QED
  BY <1>2, <1>3, CoverFrame

\* A signature with a PIN key uses up the PIN of its worker.
LEMMA CoverSign ==
    ASSUME GrantsCover, WorkerInv, NEW w \in Clients, TpmSign(w)
    PROVE  GrantsCover'
<1>u. UNCHANGED <<pin, phase, result, verdict, request>> /\ pc[w] = "sign"
  BY DEF TpmSign, brokerVars, workerVars, auxVars
<1>1. CASE UNCHANGED signatures
  <2>1. \E label \in {"recheck", "record"} : Goto(w, label)
    BY DEF TpmSign
  <2> QED
    BY <1>u, <1>1, <2>1, CoverGoto
<1>2. CASE signatures' # signatures
  <2>1. signatures \in Nat
    BY DEF GrantsCover
  <2>2. /\ pin[w] = CorrectPin /\ signatures' = signatures + 1
        /\ pc' = [pc EXCEPT ![w] = "recheck"]
    BY <1>2, <2>1 DEF TpmSign, Goto
  <2>3. \A v \in Clients : pc'[v] = IF v = w THEN "recheck" ELSE pc[v]
    BY <2>2 DEF WorkerInv
  <2>4. w \in Unspent /\ phase[w] = "idle"
    BY <1>u, <2>2 DEF Unspent, WorkerInv
  <2>5. Unspent' \subseteq Unspent \ {w}
    BY <1>u, <2>3, <2>4 DEF Unspent
  <2>6. Granted' = Granted
    BY <1>u DEF Granted
  <2>7. /\ Unspent \subseteq Clients /\ Unspent' \subseteq Clients
        /\ Granted \subseteq Ids /\ Unspent \ {w} \subseteq Clients
    BY DEF Unspent, Granted
  <2>8. /\ Cardinality(Unspent \ {w}) = Cardinality(Unspent) - 1
        /\ Cardinality(Unspent') <= Cardinality(Unspent \ {w})
    BY <2>4, <2>5, <2>7, CoverFinite, FS_RemoveElement, FS_Subset
  <2>9. /\ Cardinality(Unspent) \in Nat /\ Cardinality(Unspent') \in Nat
        /\ Cardinality(Granted) \in Nat /\ Cardinality(Granted') = Cardinality(Granted)
    BY <2>6, <2>7, CoverFinite
  <2> QED
    BY <2>1, <2>2, <2>8, <2>9 DEF GrantsCover
<1> QED
  BY <1>1, <1>2

\* handle moves a PIN from request_pin to the TPM, and never copies one.
LEMMA CoverHandler ==
    ASSUME GrantsCover, PinsFresh, WorkerInv, BrokerInv, NEW w \in Clients, Handler(w)
    PROVE  GrantsCover'
<1>1. CASE \/ HandleFails(w) \/ HandleIdentities(w) \/ JoinMonitor(w) \/ Respond(w)
           \/ LoadHistory(w) \/ SaveHistory(w) \/ RespondFails(w)
  <2>1. \E label \in {"join", "respond", "read", "save", "off"} : Goto(w, label)
    BY <1>1 DEF HandleFails, HandleIdentities, JoinMonitor, Respond, LoadHistory,
       SaveHistory, RespondFails, EndConnection
  <2>2. UNCHANGED <<pin, phase, result, verdict, signatures>>
    BY <1>1 DEF HandleFails, HandleIdentities, JoinMonitor, Respond, LoadHistory,
       SaveHistory, RespondFails, EndConnection, brokerVars, workerVars, auxVars
  <2> QED
    BY <2>1, <2>2, CoverGoto
<1>2. CASE CheckBeforeTpm(w) \/ LockTpm(w) \/ Recheck(w)
  <2>1. \E label : Goto(w, label) /\ (pc[w] \in {"check", "tpm", "sign"} \/ label = "record")
    BY <1>2 DEF CheckBeforeTpm, LockTpm, Recheck
  <2>2. UNCHANGED <<pin, phase, result, verdict, signatures>>
    BY <1>2 DEF CheckBeforeTpm, LockTpm, Recheck, brokerVars, workerVars, auxVars
  <2> QED
    BY <2>1, <2>2, CoverGoto
<1>3. CASE HandleSign(w)
  <2>1. pc[w] = "handle" /\ UNCHANGED <<pin, signatures>>
    BY <1>3 DEF HandleSign
  <2>2. CASE request[w].key \notin PinKeys
    <3>1. Goto(w, "check") /\ UNCHANGED <<phase, result, verdict>>
      BY <1>3, <2>2 DEF HandleSign, brokerVars, workerVars, auxVars
    <3>2. pin[w] = NoPin
      BY <2>1 DEF PinsFresh
    <3> QED
      BY <2>1, <3>1, <3>2, CoverGoto
  <2>3. CASE request[w].key \in PinKeys
    <3>1. /\ pc' = [pc EXCEPT ![w] = "pin"] /\ phase[w] = "idle"
          /\ phase' = [phase EXCEPT ![w] = "wait"] /\ UNCHANGED result
          /\ nextRequest \in Ids /\ verdict' = [verdict EXCEPT ![nextRequest] = "open"]
      BY <1>3, <2>3 DEF HandleSign, Goto, RequestPin
    <3>2. \A v \in Clients : /\ pc'[v] = IF v = w THEN "pin" ELSE pc[v]
                             /\ phase'[v] = IF v = w THEN "wait" ELSE phase[v]
      BY <3>1 DEF WorkerInv
    <3>3. result[w] = NoPin
      BY <3>1 DEF PinsFresh
    <3>4. Unspent' \subseteq Unspent
      <4>1. pin' = pin /\ result' = result /\ result[w] # CorrectPin
        BY <2>1, <3>1, <3>3, CorrectPinDistinct
      <4> QED
        BY <3>2, <4>1 DEF Unspent
    <3>5. verdict[nextRequest] = "unused"
      <4>1. nextRequest \in Nat
        BY BoundIsNat, <3>1 DEF Ids
      <4> QED
        BY <3>1, <4>1 DEF BrokerInv, FutureUnused
    <3>6. \A i \in Ids : i # nextRequest => verdict'[i] = verdict[i]
      BY <3>1 DEF BrokerInv, BrokerTypeOK
    <3>7. Granted \subseteq Granted'
      BY <3>5, <3>6, CorrectPinDistinct DEF Granted
    <3> QED
      BY <2>1, <3>4, <3>7, CoverFrame
  <2> QED
    BY <2>2, <2>3
<1>4. CASE TakePin(w)
  <2>1. PICK label : Goto(w, label)
    BY <1>4 DEF TakePin
  <2>2. /\ pc' = [pc EXCEPT ![w] = label] /\ phase[w] = "done"
        /\ phase' = [phase EXCEPT ![w] = "idle"]
        /\ result' = [result EXCEPT ![w] = NoPin]
        /\ pin' = [pin EXCEPT ![w] = result[w]]
        /\ UNCHANGED <<verdict, signatures>>
    BY <1>4, <2>1 DEF TakePin, ReturnPin, Goto, auxVars
  <2>3. \A v \in Clients : /\ pc'[v] = IF v = w THEN label ELSE pc[v]
                           /\ phase'[v] = IF v = w THEN "idle" ELSE phase[v]
                           /\ result'[v] = IF v = w THEN NoPin ELSE result[v]
                           /\ pin'[v] = IF v = w THEN result[w] ELSE pin[v]
    BY <2>2 DEF WorkerInv, BrokerInv, BrokerTypeOK, PinsFresh
  <2>4. Unspent' \subseteq Unspent
    BY <2>2, <2>3 DEF Unspent
  <2>5. Granted' = Granted
    BY <2>2 DEF Granted
  <2> QED
    BY <2>2, <2>4, <2>5, CoverFrame
<1>5. CASE RecordHistory(w)
  <2>1. PICK label \in {"append", "join"} : Goto(w, label)
    BY <1>5 DEF RecordHistory
  <2>2. /\ pc' = [pc EXCEPT ![w] = label] /\ pin' = [pin EXCEPT ![w] = NoPin]
        /\ UNCHANGED <<phase, result, verdict, signatures>>
    BY <1>5, <2>1 DEF RecordHistory, Goto, brokerVars, workerVars, auxVars
  <2>3. \A v \in Clients : /\ pc'[v] = IF v = w THEN label ELSE pc[v]
                           /\ pin'[v] = IF v = w THEN NoPin ELSE pin[v]
    BY <2>2 DEF WorkerInv, PinsFresh
  <2>4. Unspent' \subseteq Unspent
    BY <2>2, <2>3, CorrectPinDistinct DEF Unspent
  <2>5. Granted' = Granted
    BY <2>2 DEF Granted
  <2> QED
    BY <2>2, <2>4, <2>5, CoverFrame
<1> QED
  BY <1>1, <1>2, <1>3, <1>4, <1>5, CoverSign DEF Handler

\* try_recv hands out a PIN together with the grant of a request that was still
\* open; nothing else in request_pin does.
LEMMA CoverBrokerWorker ==
    ASSUME GrantsCover, BrokerInv, NEW w \in Clients, BrokerWorker(w)
    PROVE  GrantsCover'
<1>u. UNCHANGED <<pc, pin, signatures>>
  BY DEF BrokerWorker, agentVars, threadVars
<1>t. /\ phase \in [Clients -> Phases] /\ result \in [Clients -> Pins \cup {NoPin}]
      /\ verdict \in [Ids -> {"unused", "open"} \cup Denials \cup Pins]
  BY DEF BrokerInv, BrokerTypeOK
<1>1. CASE Cleanup(w) \/ StopAuthorizer(w)
  <2>1. /\ phase[w] # "idle" /\ UNCHANGED <<result, verdict>>
        /\ \E q \in Phases : phase' = [phase EXCEPT ![w] = q]
    BY <1>1 DEF Cleanup, StopAuthorizer, Phases, auxVars
  <2>2. \A v \in Clients : phase'[v] # "idle" => phase[v] # "idle"
    BY <1>t, <2>1
  <2>3. Unspent' \subseteq Unspent
    BY <1>u, <2>1, <2>2 DEF Unspent
  <2>4. Granted' = Granted
    BY <2>1 DEF Granted
  <2> QED
    BY <1>u, <2>3, <2>4, CoverFrame
<1>2. CASE phase[w] \in {"wait", "polled"}
  <2>1. /\ rid[w] \in Ids /\ verdict[rid[w]] = "open"
        /\ rid[w] \notin Granted
    BY <1>2, CorrectPinDistinct DEF BrokerInv, RequestsDistinct, DecidedOnExit, Granted
  <2>2. CASE UNCHANGED result
    <3>1. /\ \E q \in Phases : phase' = [phase EXCEPT ![w] = q]
          /\ UNCHANGED verdict \/ \E o : verdict' = [verdict EXCEPT ![rid[w]] = o]
      BY DEF BrokerWorker, WorkerStep, TryRecv, PollDeadline, Cleanup,
         StopAuthorizer, Phases, auxVars
    <3>2. \A v \in Clients : phase'[v] # "idle" => phase[v] # "idle"
      BY <1>2, <1>t, <3>1
    <3>3. Unspent' \subseteq Unspent
      BY <1>u, <2>2, <3>2 DEF Unspent
    <3>4. \A i \in Ids : i # rid[w] => verdict'[i] = verdict[i]
      BY <1>t, <3>1
    <3>5. Granted \subseteq Granted'
      BY <2>1, <3>4 DEF Granted
    <3> QED
      BY <1>u, <3>3, <3>5, CoverFrame
  <2>3. CASE result' # result
    <3>1. PICK p : /\ result' = [result EXCEPT ![w] = p]
                   /\ verdict' = [verdict EXCEPT ![rid[w]] = p]
                   /\ phase' = [phase EXCEPT ![w] = "cleanup"]
      BY <2>3 DEF BrokerWorker, WorkerStep, TryRecv, PollDeadline, Cleanup,
         StopAuthorizer
    <3>2. /\ \A v \in Clients : result'[v] = IF v = w THEN p ELSE result[v]
          /\ \A v \in Clients : phase'[v] = IF v = w THEN "cleanup" ELSE phase[v]
          /\ \A i \in Ids : verdict'[i] = IF i = rid[w] THEN p ELSE verdict[i]
      BY <1>t, <3>1
    <3>3. CASE p # CorrectPin
      <4>1. Unspent' \subseteq Unspent
        BY <1>u, <3>2, <3>3 DEF Unspent
      <4>2. Granted \subseteq Granted'
        BY <2>1, <3>2 DEF Granted
      <4> QED
        BY <1>u, <4>1, <4>2, CoverFrame
    <3>4. CASE p = CorrectPin
      <4>1. Unspent' \subseteq Unspent \cup {w}
        BY <1>u, <3>2 DEF Unspent
      <4>2. Granted' = Granted \cup {rid[w]}
        BY <2>1, <3>2, <3>4 DEF Granted
      <4>3. /\ Unspent \subseteq Clients /\ Unspent' \subseteq Clients
            /\ Granted \subseteq Ids /\ Granted' \subseteq Ids
            /\ Unspent \cup {w} \subseteq Clients
        BY DEF Unspent, Granted
      <4>4. Cardinality(Unspent') <= Cardinality(Unspent \cup {w})
        BY <4>1, <4>3, CoverFinite, FS_Subset
      <4>5. Cardinality(Unspent \cup {w}) <= Cardinality(Unspent) + 1
        BY <4>3, CoverFinite, FS_AddElement
      <4>6. Cardinality(Granted') = Cardinality(Granted) + 1
        BY <2>1, <4>2, <4>3, CoverFinite, FS_AddElement
      <4>7. /\ Cardinality(Unspent) \in Nat /\ Cardinality(Unspent') \in Nat
            /\ Cardinality(Granted) \in Nat /\ Cardinality(Unspent \cup {w}) \in Nat
        BY <4>3, CoverFinite
      <4> QED
        BY <1>u, <4>4, <4>5, <4>6, <4>7 DEF GrantsCover
    <3> QED
      BY <3>3, <3>4
  <2> QED
    BY <2>2, <2>3
<1> QED
  BY <1>1, <1>2 DEF BrokerWorker, WorkerStep, TryRecv, PollDeadline

\* Every step of the agent keeps GrantsCover.
LEMMA CoverStep ==
    ASSUME GrantsCover, PinsFresh, WorkerInv, BrokerInv, [AgentNext]_vars
    PROVE  GrantsCover'
<1>0. ASSUME UNCHANGED <<pc, pin, phase, result, verdict, signatures>>
      PROVE  GrantsCover'
  <2>1. Unspent' = Unspent /\ Granted' = Granted
    BY <1>0 DEF Unspent, Granted
  <2> QED
    BY <1>0, <2>1, CoverFrame
<1>1. CASE UNCHANGED vars
  BY <1>0, <1>1 DEF vars, agentVars, threadVars, brokerVars, workerVars, auxVars
<1>2. ASSUME NEW w \in Clients, Reader(w)
      PROVE  GrantsCover'
  <2>1. /\ \E label \in {"off", "handle"} : Goto(w, label)
        /\ UNCHANGED <<pin, phase, result, verdict, signatures>>
    BY <1>2 DEF Reader, ReadEnds, ReadFails, ReadPacket, EndConnection,
       NewCancellation, brokerVars, workerVars, auxVars
  <2> QED
    BY <2>1, CoverGoto
<1>3. ASSUME NEW w \in Clients,
             \/ ClientConnects(w) \/ ClientLeaves(w) \/ MonitorFires(w)
             \/ BrokerExpire(w) \/ BrokerChild(w)
             \/ \E r \in Requests : ClientSends(w, r)
      PROVE  GrantsCover'
  <2>1. UNCHANGED <<pc, pin, phase, result, verdict, signatures>>
    BY <1>3 DEF ClientConnects, ClientLeaves, MonitorFires, BrokerExpire,
       BrokerChild, ClientSends, Expire, AuthorizerExits, Cancel, agentVars,
       threadVars, brokerVars, workerVars, auxVars
  <2> QED
    BY <1>0, <2>1
<1>4. ASSUME NEW c \in Controls, BrokerControl(c) \/ BrokerUser(c)
      PROVE  GrantsCover'
  <2>1. UNCHANGED <<pc, pin, phase, result, verdict, signatures>>
    BY <1>4 DEF BrokerControl, BrokerUser, ControlStep, AuthorizeRemove,
       AuthorizeSend, List, Prompt, EndSession, agentVars, threadVars, workerVars,
       auxVars
  <2> QED
    BY <1>0, <2>1
<1>5. CASE AgentWakes \/ AgentDrops \/ Tick \/ \E k \in Churn : StoreChanges(k)
  <2>1. UNCHANGED <<pc, pin, phase, result, verdict, signatures>>
    BY <1>5 DEF AgentWakes, AgentDrops, Tick, StoreChanges, agentVars,
       threadVars, brokerVars, workerVars, auxVars
  <2> QED
    BY <1>0, <2>1
<1>6. CASE AgentAccepts
  <2>1. /\ pc' = [w \in Clients |-> IF w \in serving' \ serving THEN "read" ELSE pc[w]]
        /\ UNCHANGED <<pin, phase, result, verdict, signatures>>
    BY <1>6 DEF AgentAccepts, brokerVars, workerVars, auxVars
  <2>2. \A w \in Clients : pc'[w] \in {"read", pc[w]}
    BY <2>1
  <2>3. Unspent' \subseteq Unspent /\ Granted' = Granted
    BY <2>1, <2>2 DEF Unspent, Granted
  <2> QED
    BY <2>1, <2>3, CoverFrame
<1> QED
  BY <1>1, <1>2, <1>3, <1>4, <1>5, <1>6, CoverHandler, CoverBrokerWorker DEF AgentNext

\* The TPM never makes more signatures with PIN keys than requests were granted
\* the right PIN: one AUTHORIZE is good for one signature, for any number of
\* connections, sessions and requests.
THEOREM AgentPerUseAuthorization == AgentSafety => []PerUseAuthorization
<1>1. AgentInit => PinsFresh /\ GrantsCover
  <2> SUFFICES ASSUME AgentInit
               PROVE  PinsFresh /\ GrantsCover
    OBVIOUS
  <2>1. PinsFresh
    BY DEF AgentInit, BrokerInit, PinsFresh
  <2>2. Unspent = {} /\ Granted \subseteq Ids
    BY CorrectPinDistinct DEF AgentInit, BrokerInit, Unspent, Granted
  <2>3. Cardinality(Unspent) = 0 /\ Cardinality(Granted) \in Nat
    BY <2>2, CoverFinite, FS_EmptySet
  <2> QED
    BY <2>1, <2>3 DEF AgentInit, GrantsCover
<1>2. /\ PinsFresh /\ WorkerInv /\ BrokerInv /\ [AgentNext]_vars => PinsFresh'
      /\ PinsFresh /\ GrantsCover /\ WorkerInv /\ BrokerInv /\ [AgentNext]_vars
           => GrantsCover'
  BY PinsStep, CoverStep DEF BrokerInv
<1>3. GrantsCover => PerUseAuthorization
  <2>1. Unspent \subseteq Clients /\ Granted \subseteq Ids
    BY DEF Unspent, Granted
  <2>2. Cardinality(Unspent) \in Nat /\ Cardinality(Granted) \in Nat
    BY <2>1, CoverFinite
  <2> QED
    BY <2>2 DEF GrantsCover, PerUseAuthorization, Granted
<1> QED
  BY <1>1, <1>2, <1>3, AgentBrokerInv, AgentWorkerInv, PTL DEF AgentSafety

-----------------------------------------------------------------------------
(* The history file.                                                        *)

\* The newest MAX_ENTRIES of a sequence.
LEMMA NewestProperties ==
    ASSUME NEW S, NEW s \in Seq(S)
    PROVE  /\ Newest(s) \in Seq(S)
           /\ Len(s) <= MaxHistory => Newest(s) = s
           /\ Len(s) > MaxHistory =>
                /\ Len(Newest(s)) = MaxHistory
                /\ \A i \in 1 .. MaxHistory : Newest(s)[i] = s[Len(s) - MaxHistory + i]
<1>1. Len(s) \in Nat /\ MaxHistory \in Nat \ {0} /\ \A i \in 1 .. Len(s) : s[i] \in S
  BY AgentAssumption, LenProperties, ElementOfSeq
<1>2. CASE Len(s) <= MaxHistory
  <2>1. ~(Len(s) > MaxHistory)
    BY <1>1, <1>2
  <2>2. Newest(s) = SubSeq(s, 1, Len(s))
    BY <2>1, Zenon DEF Newest
  <2>3. SubSeq(s, 1, Len(s)) = s
    BY SubSeqFull
  <2> QED
    BY <2>1, <2>2, <2>3, Zenon
<1>3. CASE Len(s) > MaxHistory
  <2> DEFINE m == Len(s) - MaxHistory + 1
  <2>1. Newest(s) = SubSeq(s, m, Len(s)) /\ m \in Int /\ m >= 1 /\ m <= Len(s)
    BY <1>1, <1>3 DEF Newest
  <2>2. \A i \in m .. Len(s) : s[i] \in S
    BY <1>1, <2>1
  <2>3. /\ SubSeq(s, m, Len(s)) \in Seq(S)
        /\ Len(SubSeq(s, m, Len(s))) = Len(s) - m + 1
        /\ \A i \in 1 .. Len(s) - m + 1 : SubSeq(s, m, Len(s))[i] = s[m + i - 1]
    BY <1>1, <2>1, <2>2, SubSeqProperties
  <2>4. /\ Len(s) - m + 1 = MaxHistory
        /\ \A i \in 1 .. MaxHistory : m + i - 1 = Len(s) - MaxHistory + i
    BY <1>1
  <2> QED
    BY <1>1, <1>3, <2>1, <2>3, <2>4
<1> QED
  BY <1>1, <1>2, <1>3

\* Appending to the newest entries and draining again is draining the whole.
LEMMA NewestAppend ==
    ASSUME NEW S, NEW s \in Seq(S), NEW e \in S
    PROVE  Newest(Append(Newest(s), e)) = Newest(Append(s, e))
<1> DEFINE M == MaxHistory
           t == Newest(s)
           a == Append(t, e)
           b == Append(s, e)
<1>1. Len(s) \in Nat /\ M \in Nat /\ M > 0
  BY AgentAssumption, LenProperties
<1>2. CASE Len(s) <= M
  BY <1>2, NewestProperties
<1>3. CASE Len(s) > M
  <2>1. t \in Seq(S) /\ Len(t) = M /\ \A i \in 1 .. M : t[i] = s[Len(s) - M + i]
    BY <1>3, NewestProperties
  <2>2. /\ a \in Seq(S) /\ Len(a) = M + 1 /\ a[M + 1] = e
        /\ \A i \in 1 .. M : a[i] = t[i]
    BY <2>1, AppendProperties
  <2>3. /\ b \in Seq(S) /\ Len(b) = Len(s) + 1 /\ b[Len(s) + 1] = e
        /\ \A i \in 1 .. Len(s) : b[i] = s[i]
    BY AppendProperties
  <2> HIDE DEF a, b, t, M
  <2>4. Len(a) > M /\ Len(b) > M
    BY <1>1, <1>3, <2>2, <2>3
  <2>5. /\ Newest(a) \in Seq(S) /\ Len(Newest(a)) = M
        /\ \A i \in 1 .. M : Newest(a)[i] = a[Len(a) - M + i]
    BY <2>2, <2>4, NewestProperties DEF M
  <2>6. /\ Newest(b) \in Seq(S) /\ Len(Newest(b)) = M
        /\ \A i \in 1 .. M : Newest(b)[i] = b[Len(b) - M + i]
    BY <2>3, <2>4, NewestProperties DEF M
  <2>7. \A i \in 1 .. M : Newest(a)[i] = Newest(b)[i]
    <3> SUFFICES ASSUME NEW i \in 1 .. M
                 PROVE  Newest(a)[i] = Newest(b)[i]
      OBVIOUS
    <3>1. Newest(a)[i] = a[i + 1] /\ Newest(b)[i] = b[Len(s) - M + i + 1]
      <4>1. Len(a) - M + i = i + 1 /\ Len(b) - M + i = Len(s) - M + i + 1
        BY <1>1, <2>2, <2>3
      <4> QED
        BY <2>5, <2>6, <4>1
    <3>2. CASE i = M
      <4>1. Len(s) - M + i + 1 = Len(s) + 1
        BY <1>1, <3>2
      <4> QED
        BY <2>2, <2>3, <3>1, <3>2, <4>1
    <3>3. CASE i # M
      <4>1. /\ i + 1 \in 1 .. M /\ Len(s) - M + i + 1 \in 1 .. Len(s)
            /\ Len(s) - M + i + 1 = Len(s) - M + (i + 1)
        BY <1>1, <1>3, <3>3
      <4>2. a[i + 1] = s[Len(s) - M + (i + 1)]
        BY <2>1, <2>2, <4>1
      <4>3. b[Len(s) - M + i + 1] = s[Len(s) - M + i + 1]
        BY <2>3, <4>1
      <4> QED
        BY <3>1, <4>1, <4>2, <4>3
    <3> QED
      BY <3>2, <3>3
  <2>8. Newest(a) = Newest(b)
    BY <2>5, <2>6, <2>7, SeqEqual
  <2> QED
    BY <2>8 DEF a, b, t
<1> QED
  BY <1>1, <1>2, <1>3

\* A step that touches nothing the history is made of.
LEMMA HistoryTypeFrame ==
    ASSUME HistoryTypeOK, UNCHANGED <<now, inbox, request, entry, loaded, log>>
    PROVE  HistoryTypeOK'
  BY DEF HistoryTypeOK

\* The end of a connection forgets its packets.
LEMMA HistoryTypeEnd ==
    ASSUME HistoryTypeOK, NEW w \in Clients, EndConnection(w)
    PROVE  HistoryTypeOK'
<1>1. /\ inbox' = [inbox EXCEPT ![w] = <<>>]
      /\ request' = [request EXCEPT ![w] = NoRequest]
      /\ UNCHANGED <<now, entry, loaded, log>>
  BY DEF EndConnection, historyVars
<1>2. <<>> \in Seq(Requests)
  BY EmptySeq
<1> QED
  BY <1>1, <1>2 DEF HistoryTypeOK

\* serve_connection takes packets from the stream in order.
LEMMA HistoryTypeReader ==
    ASSUME HistoryTypeOK, NEW w \in Clients, Reader(w)
    PROVE  HistoryTypeOK'
<1>1. CASE ReadEnds(w) \/ ReadFails(w)
  BY <1>1, HistoryTypeEnd DEF ReadEnds, ReadFails
<1>2. CASE ReadPacket(w)
  <2>1. /\ inbox[w] # <<>>
        /\ inbox' = [inbox EXCEPT ![w] = Tail(inbox[w])]
        /\ request' = [request EXCEPT ![w] = Head(inbox[w])]
        /\ UNCHANGED <<now, entry, loaded, log>>
    BY <1>2 DEF ReadPacket, historyVars
  <2>2. inbox[w] \in Seq(Requests)
    BY DEF HistoryTypeOK
  <2>3. Head(inbox[w]) \in Requests /\ Tail(inbox[w]) \in Seq(Requests)
    BY <2>1, <2>2, HeadTailProperties
  <2> QED
    BY <2>1, <2>3 DEF HistoryTypeOK
<1> QED
  BY <1>1, <1>2 DEF Reader

\* record_history makes an entry, append takes it to the file.
LEMMA HistoryTypeHandler ==
    ASSUME HistoryTypeOK, HistoryNewest, NEW w \in Clients, Handler(w)
    PROVE  HistoryTypeOK'
<1>e. NoEntry \in HistoryEntries
  BY DEF NoEntry, HistoryEntries
<1>s. <<>> \in Seq(HistoryEntries)
  BY EmptySeq
<1>1. CASE \/ HandleFails(w) \/ HandleIdentities(w) \/ HandleSign(w) \/ TakePin(w)
           \/ CheckBeforeTpm(w) \/ LockTpm(w) \/ TpmSign(w) \/ Recheck(w)
           \/ JoinMonitor(w)
  <2>1. UNCHANGED <<now, inbox, request, entry, loaded, log>>
    BY <1>1 DEF HandleFails, HandleIdentities, HandleSign, TakePin, CheckBeforeTpm,
       LockTpm, TpmSign, Recheck, JoinMonitor, connVars, historyVars
  <2> QED
    BY <2>1, HistoryTypeFrame
<1>2. CASE RespondFails(w)
  BY <1>2, HistoryTypeEnd DEF RespondFails
<1>3. CASE Respond(w)
  <2>1. /\ request' = [request EXCEPT ![w] = NoRequest]
        /\ UNCHANGED <<now, inbox, entry, loaded, log>>
    BY <1>3 DEF Respond, connVars, historyVars
  <2> QED
    BY <2>1 DEF HistoryTypeOK
<1>4. CASE RecordHistory(w)
  <2>1. UNCHANGED <<now, inbox, request, loaded, log>>
    BY <1>4 DEF RecordHistory, connVars
  <2>2. request[w].key \in Keys \cup {NoKey} /\ now \in Nat
    BY DEF HistoryTypeOK, Requests, NoRequest
  <2>3. [time |-> now, key |-> request[w].key, ok |-> answer[w] = "signature"]
          \in HistoryEntries
    BY <2>2 DEF HistoryEntries
  <2>4. entry' \in [Clients -> HistoryEntries]
    BY <1>4, <2>3 DEF RecordHistory, HistoryTypeOK
  <2> QED
    BY <2>1, <2>4 DEF HistoryTypeOK
<1>5. CASE LoadHistory(w)
  <2>1. UNCHANGED <<now, inbox, request, log>>
    BY <1>5 DEF LoadHistory, connVars
  <2>2. history \in Seq(HistoryEntries)
    BY NewestProperties DEF HistoryNewest, HistoryTypeOK
  <2>3. /\ entry' \in [Clients -> HistoryEntries]
        /\ loaded' \in [Clients -> Seq(HistoryEntries)]
    BY <1>5, <1>e, <2>2 DEF LoadHistory, HistoryTypeOK
  <2> QED
    BY <2>1, <2>3 DEF HistoryTypeOK
<1>6. CASE SaveHistory(w)
  <2>1. UNCHANGED <<now, inbox, request>>
    BY <1>6 DEF SaveHistory, connVars
  <2>2. /\ entry' \in [Clients -> HistoryEntries]
        /\ loaded' \in [Clients -> Seq(HistoryEntries)]
    BY <1>6, <1>e, <1>s DEF SaveHistory, HistoryTypeOK
  <2>3. log' \in Seq(HistoryEntries)
    <3>1. entry[w] \in HistoryEntries /\ log \in Seq(HistoryEntries)
      BY DEF HistoryTypeOK
    <3>2. Append(log, entry[w]) \in Seq(HistoryEntries)
      BY <3>1, AppendProperties
    <3> QED
      BY <1>6, <3>1, <3>2 DEF SaveHistory
  <2> QED
    BY <2>1, <2>2, <2>3 DEF HistoryTypeOK
<1> QED
  BY <1>1, <1>2, <1>3, <1>4, <1>5, <1>6 DEF Handler

\* Every step of the agent keeps HistoryTypeOK.
LEMMA HistoryTypeStep ==
    ASSUME HistoryTypeOK, HistoryNewest, [AgentNext]_vars
    PROVE  HistoryTypeOK'
<1>1. CASE UNCHANGED vars
  BY <1>1, HistoryTypeFrame DEF vars, agentVars, threadVars, connVars, historyVars
<1>2. ASSUME NEW w \in Clients,
             \/ ClientConnects(w) \/ ClientLeaves(w) \/ MonitorFires(w)
             \/ BrokerWorker(w) \/ BrokerExpire(w) \/ BrokerChild(w)
      PROVE  HistoryTypeOK'
  <2>1. UNCHANGED <<now, inbox, request, entry, loaded, log>>
    BY <1>2 DEF ClientConnects, ClientLeaves, MonitorFires, BrokerWorker,
       BrokerExpire, BrokerChild, agentVars, threadVars, connVars, historyVars
  <2> QED
    BY <2>1, HistoryTypeFrame
<1>3. ASSUME NEW c \in Controls, BrokerControl(c) \/ BrokerUser(c)
      PROVE  HistoryTypeOK'
  <2>1. UNCHANGED <<now, inbox, request, entry, loaded, log>>
    BY <1>3 DEF BrokerControl, BrokerUser, agentVars, threadVars, connVars, historyVars
  <2> QED
    BY <2>1, HistoryTypeFrame
<1>4. CASE AgentWakes \/ AgentAccepts \/ \E k \in Churn : StoreChanges(k)
  <2>1. UNCHANGED <<now, inbox, request, entry, loaded, log>>
    BY <1>4 DEF AgentWakes, AgentAccepts, StoreChanges, agentVars, threadVars,
       connVars, historyVars
  <2> QED
    BY <2>1, HistoryTypeFrame
<1>5. CASE AgentDrops
  <2>1. /\ inbox' = [inbox EXCEPT ![accepted] = <<>>]
        /\ UNCHANGED <<now, request, entry, loaded, log>>
    BY <1>5 DEF AgentDrops, threadVars, historyVars
  <2>2. <<>> \in Seq(Requests)
    BY EmptySeq
  <2> QED
    BY <2>1, <2>2 DEF HistoryTypeOK
<1>6. CASE Tick
  BY <1>6 DEF Tick, HistoryTypeOK, connVars, threadVars, historyVars
<1>7. ASSUME NEW w \in Clients, NEW r \in Requests, ClientSends(w, r)
      PROVE  HistoryTypeOK'
  <2>1. /\ inbox' = [inbox EXCEPT ![w] = Append(inbox[w], r)]
        /\ UNCHANGED <<now, request, entry, loaded, log>>
    BY <1>7 DEF ClientSends, threadVars, historyVars
  <2>2. Append(inbox[w], r) \in Seq(Requests)
    BY AppendProperties DEF HistoryTypeOK
  <2> QED
    BY <2>1, <2>2 DEF HistoryTypeOK
<1> QED
  BY <1>1, <1>2, <1>3, <1>4, <1>5, <1>6, <1>7, HistoryTypeReader,
     HistoryTypeHandler DEF AgentNext

\* A step that brings nobody to the file and leaves it alone.
LEMMA LoadedFrame ==
    ASSUME LoadedCurrent, UNCHANGED <<historyOwner, history, loaded>>,
           \A w \in Clients : pc'[w] = "save" => pc[w] = "save"
    PROVE  LoadedCurrent'
  BY DEF LoadedCurrent

\* Only LoadHistory brings a worker to the file, and only SaveHistory changes it.
LEMMA LoadedHandler ==
    ASSUME LoadedCurrent, HistoryTypeOK, WorkerInv, NEW w \in Clients, Handler(w)
    PROVE  LoadedCurrent'
<1>1. CASE \/ HandleFails(w) \/ HandleIdentities(w) \/ HandleSign(w) \/ TakePin(w)
           \/ CheckBeforeTpm(w) \/ LockTpm(w) \/ TpmSign(w) \/ Recheck(w)
           \/ RecordHistory(w) \/ JoinMonitor(w) \/ Respond(w) \/ RespondFails(w)
  <2>1. UNCHANGED <<historyOwner, history, loaded>>
    BY <1>1 DEF HandleFails, HandleIdentities, HandleSign, TakePin, CheckBeforeTpm,
       LockTpm, TpmSign, Recheck, RecordHistory, JoinMonitor, Respond, RespondFails,
       EndConnection, historyVars
  <2>2. \E label \in {"join", "pin", "check", "tpm", "sign", "recheck", "record",
                      "append", "respond", "read", "off"} : Goto(w, label)
    BY <1>1 DEF HandleFails, HandleIdentities, HandleSign, TakePin, CheckBeforeTpm,
       LockTpm, TpmSign, Recheck, RecordHistory, JoinMonitor, Respond, RespondFails,
       EndConnection
  <2>3. \A v \in Clients : pc'[v] = "save" => pc[v] = "save"
    BY <2>2 DEF Goto, WorkerInv
  <2> QED
    BY <2>1, <2>3, LoadedFrame
<1>2. CASE LoadHistory(w)
  <2>1. CASE UNCHANGED <<historyOwner, loaded>> /\ Goto(w, "join")
    <3>1. \A v \in Clients : pc'[v] = "save" => pc[v] = "save"
      BY <2>1 DEF Goto, WorkerInv
    <3>2. UNCHANGED history
      BY <1>2 DEF LoadHistory
    <3> QED
      BY <2>1, <3>1, <3>2, LoadedFrame
  <2>2. CASE /\ historyOwner' = w /\ loaded' = [loaded EXCEPT ![w] = history]
             /\ Goto(w, "save")
    <3>1. \A v \in Clients : pc[v] # "save"
      BY <1>2, ServiceAssumption DEF LoadHistory, LoadedCurrent
    <3>2. \A v \in Clients : pc'[v] = "save" => v = w
      BY <2>2, <3>1 DEF Goto, WorkerInv
    <3>3. loaded'[w] = history /\ history' = history
      BY <1>2, <2>2 DEF LoadHistory, HistoryTypeOK
    <3> QED
      BY <2>2, <3>2, <3>3 DEF LoadedCurrent
  <2> QED
    BY <1>2, <2>1, <2>2 DEF LoadHistory
<1>3. CASE SaveHistory(w)
  <2>1. pc[w] = "save" /\ pc' = [pc EXCEPT ![w] = "join"]
    BY <1>3 DEF SaveHistory, Goto
  <2>2. \A v \in Clients : pc[v] = "save" => v = w
    BY <2>1 DEF LoadedCurrent
  <2>3. \A v \in Clients : pc'[v] # "save"
    BY <2>1, <2>2 DEF WorkerInv
  <2> QED
    BY <2>3 DEF LoadedCurrent
<1> QED
  BY <1>1, <1>2, <1>3 DEF Handler

\* Every step of the agent keeps LoadedCurrent.
LEMMA LoadedStep ==
    ASSUME LoadedCurrent, HistoryTypeOK, WorkerInv, [AgentNext]_vars
    PROVE  LoadedCurrent'
<1>1. CASE UNCHANGED vars
  BY <1>1, LoadedFrame DEF vars, agentVars, threadVars, historyVars
<1>2. ASSUME NEW w \in Clients, Reader(w)
      PROVE  LoadedCurrent'
  <2>1. /\ \E label \in {"off", "handle"} : Goto(w, label)
        /\ UNCHANGED <<historyOwner, history, loaded>>
    BY <1>2 DEF Reader, ReadEnds, ReadFails, ReadPacket, EndConnection, historyVars
  <2>2. \A v \in Clients : pc'[v] = "save" => pc[v] = "save"
    BY <2>1 DEF Goto, WorkerInv
  <2> QED
    BY <2>1, <2>2, LoadedFrame
<1>3. ASSUME NEW w \in Clients,
             \/ ClientConnects(w) \/ ClientLeaves(w) \/ MonitorFires(w)
             \/ BrokerWorker(w) \/ BrokerExpire(w) \/ BrokerChild(w)
             \/ \E r \in Requests : ClientSends(w, r)
      PROVE  LoadedCurrent'
  <2>1. UNCHANGED <<pc, historyOwner, history, loaded>>
    BY <1>3 DEF ClientConnects, ClientLeaves, MonitorFires, BrokerWorker,
       BrokerExpire, BrokerChild, ClientSends, agentVars, threadVars, historyVars
  <2> QED
    BY <2>1, LoadedFrame
<1>4. ASSUME NEW c \in Controls, BrokerControl(c) \/ BrokerUser(c)
      PROVE  LoadedCurrent'
  <2>1. UNCHANGED <<pc, historyOwner, history, loaded>>
    BY <1>4 DEF BrokerControl, BrokerUser, agentVars, threadVars, historyVars
  <2> QED
    BY <2>1, LoadedFrame
<1>5. CASE AgentWakes \/ AgentDrops \/ Tick \/ \E k \in Churn : StoreChanges(k)
  <2>1. UNCHANGED <<pc, historyOwner, history, loaded>>
    BY <1>5 DEF AgentWakes, AgentDrops, Tick, StoreChanges, agentVars, threadVars,
       historyVars
  <2> QED
    BY <2>1, LoadedFrame
<1>6. CASE AgentAccepts
  <2>1. /\ pc' = [w \in Clients |-> IF w \in serving' \ serving THEN "read" ELSE pc[w]]
        /\ UNCHANGED <<historyOwner, history, loaded>>
    BY <1>6 DEF AgentAccepts, historyVars
  <2>2. \A w \in Clients : pc'[w] = "save" => pc[w] = "save"
    BY <2>1
  <2> QED
    BY <2>1, <2>2, LoadedFrame
<1> QED
  BY <1>1, <1>2, <1>3, <1>4, <1>5, <1>6, LoadedHandler DEF AgentNext

\* Every step of the agent keeps HistoryNewest: a worker that saves has what the
\* file still holds.
LEMMA NewestStep ==
    ASSUME HistoryNewest, LoadedCurrent, HistoryTypeOK, [AgentNext]_vars
    PROVE  HistoryNewest'
<1>1. CASE UNCHANGED <<history, log>>
  BY <1>1 DEF HistoryNewest, Newest
<1>2. ASSUME NEW w \in Clients, SaveHistory(w)
      PROVE  HistoryNewest'
  <2>1. CASE history' = Newest(Append(loaded[w], entry[w])) /\ log' = Append(log, entry[w])
    <3>1. loaded[w] = Newest(log)
      BY <1>2 DEF SaveHistory, LoadedCurrent, HistoryNewest
    <3>2. entry[w] \in HistoryEntries /\ log \in Seq(HistoryEntries)
      BY DEF HistoryTypeOK
    <3>3. Newest(Append(Newest(log), entry[w])) = Newest(Append(log, entry[w]))
      BY <3>2, NewestAppend
    <3>4. history' = Newest(Append(log, entry[w]))
      BY <2>1, <3>1, <3>3
    <3> QED
      BY <2>1, <3>4 DEF HistoryNewest, Newest
  <2> QED
    BY <1>1, <1>2, <2>1 DEF SaveHistory
<1>3. ASSUME NEW w \in Clients, Handler(w)
      PROVE  SaveHistory(w) \/ UNCHANGED <<history, log>>
  BY <1>3 DEF Handler, HandleFails, HandleIdentities, HandleSign, TakePin,
     CheckBeforeTpm, LockTpm, TpmSign, Recheck, RecordHistory, LoadHistory,
     JoinMonitor, Respond, RespondFails, EndConnection, historyVars
<1>4. ASSUME NEW w \in Clients,
             \/ ClientConnects(w) \/ ClientLeaves(w) \/ MonitorFires(w)
             \/ BrokerWorker(w) \/ BrokerExpire(w) \/ BrokerChild(w)
             \/ Reader(w) \/ \E r \in Requests : ClientSends(w, r)
      PROVE  UNCHANGED <<history, log>>
  BY <1>4 DEF ClientConnects, ClientLeaves, MonitorFires, BrokerWorker,
     BrokerExpire, BrokerChild, ClientSends, Reader, ReadEnds, ReadFails,
     ReadPacket, EndConnection, agentVars, historyVars
<1>5. ASSUME NEW c \in Controls, BrokerControl(c) \/ BrokerUser(c)
      PROVE  UNCHANGED <<history, log>>
  BY <1>5 DEF BrokerControl, BrokerUser, agentVars, historyVars
<1>6. CASE \/ AgentWakes \/ AgentDrops \/ AgentAccepts \/ Tick
           \/ \E k \in Churn : StoreChanges(k)
  BY <1>1, <1>6 DEF AgentWakes, AgentDrops, AgentAccepts, Tick, StoreChanges,
     agentVars, historyVars
<1>7. CASE UNCHANGED vars
  BY <1>1, <1>7 DEF vars, agentVars, historyVars
<1> QED
  BY <1>1, <1>2, <1>3, <1>4, <1>5, <1>6, <1>7 DEF AgentNext

\* The history file holds exactly the newest MAX_ENTRIES of the entries that
\* were saved, however many workers append at the same time.
THEOREM AgentHistoryNewest == AgentSafety => []HistoryNewest
<1>1. AgentInit => HistoryTypeOK /\ LoadedCurrent /\ HistoryNewest
  <2> SUFFICES ASSUME AgentInit
               PROVE  HistoryTypeOK /\ LoadedCurrent /\ HistoryNewest
    OBVIOUS
  <2>1. \A S : <<>> \in Seq(S) /\ Len(<<>>) = 0
    BY EmptySeq
  <2>2. HistoryTypeOK
    BY <2>1 DEF AgentInit, HistoryTypeOK, HistoryEntries, NoEntry
  <2>3. LoadedCurrent
    BY DEF AgentInit, LoadedCurrent
  <2>4. <<>> \in Seq(HistoryEntries) /\ Len(<<>>) <= MaxHistory
    BY <2>1, AgentAssumption
  <2>5. Newest(<<>>) = <<>>
    BY <2>4, NewestProperties
  <2> QED
    BY <2>2, <2>3, <2>5 DEF AgentInit, HistoryNewest
<1>2. HistoryTypeOK /\ LoadedCurrent /\ HistoryNewest /\ WorkerInv /\ [AgentNext]_vars
        => HistoryTypeOK' /\ LoadedCurrent' /\ HistoryNewest'
  BY HistoryTypeStep, LoadedStep, NewestStep
<1> QED
  BY <1>1, <1>2, AgentWorkerInv, PTL DEF AgentSafety
=============================================================================
