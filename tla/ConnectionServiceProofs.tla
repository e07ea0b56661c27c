----------------------- MODULE ConnectionServiceProofs -----------------------
(***************************************************************************)
(* Proofs about ConnectionService for any number of clients and permits:   *)
(* the limiter counts the workers exactly and no wakeup is lost.           *)
(***************************************************************************)
EXTENDS ConnectionService, FiniteSetTheorems, SequenceTheorems, TLAPS

\* MAX_CONNECTIONS is a positive number.
LEMMA LimitPositive == MaxConnections \in Nat /\ MaxConnections > 0
  BY ServiceAssumption

\* A connection of the backlog is a client, and so is not the missing one.
LEMMA QueuedAreClients ==
    ASSUME ServiceTypeOK
    PROVE  /\ Len(backlog) \in Nat
           /\ DOMAIN backlog = 1 .. Len(backlog)
           /\ \A i \in 1 .. Len(backlog) : backlog[i] \in Clients
  BY LenProperties, ElementOfSeq DEF ServiceTypeOK

\* A client that connects is at the end of the backlog and nowhere else.
LEMMA ConnectInv ==
    ASSUME ServiceInv, NEW w \in Clients, Connect(w)
    PROVE  ServiceInv'
<1>u. UNCHANGED <<acceptor, accepted, active, serving>>
  BY DEF Connect
<1>1. /\ backlog' \in Seq(Clients)
      /\ Len(backlog') = Len(backlog) + 1
      /\ \A i \in 1 .. Len(backlog) : backlog'[i] = backlog[i]
      /\ backlog'[Len(backlog) + 1] = w
  BY AppendProperties DEF Connect, ServiceInv, ServiceTypeOK
<1>2. /\ Len(backlog) \in Nat
      /\ DOMAIN backlog = 1 .. Len(backlog)
  BY QueuedAreClients DEF ServiceInv
<1>3. /\ w \notin serving \cup {accepted}
      /\ \A i \in 1 .. Len(backlog) : backlog[i] # w
  BY <1>2 DEF Connect, ToSet
<1>4. \A i \in 1 .. Len(backlog') :
         \/ (i \in 1 .. Len(backlog) /\ backlog'[i] = backlog[i])
         \/ (i = Len(backlog) + 1 /\ backlog'[i] = w)
  BY <1>1, <1>2
<1>5. OnePlace'
  <2>1. \A i \in 1 .. Len(backlog') : backlog'[i] \notin serving \cup {accepted}
    BY <1>3, <1>4 DEF ServiceInv, OnePlace
  <2>2. \A i, j \in 1 .. Len(backlog') : backlog'[i] = backlog'[j] => i = j
    BY <1>3, <1>4 DEF ServiceInv, OnePlace
  <2> QED
    BY <1>u, <2>1, <2>2 DEF ServiceInv, OnePlace
<1>6. ServiceTypeOK'
  BY <1>u, <1>1 DEF ServiceInv, ServiceTypeOK
<1> QED
  BY <1>u, <1>5, <1>6 DEF ServiceInv, PermitsExact, NoLostWakeup

\* The head of the backlog moves to the acceptor.
LEMMA AcceptInv ==
    ASSUME ServiceInv, Accept
    PROVE  ServiceInv'
<1>u. UNCHANGED <<active, serving>> /\ acceptor' = "acquire"
  BY DEF Accept
<1>1. /\ backlog \in Seq(Clients) /\ backlog # <<>>
      /\ accepted' = Head(backlog) /\ backlog' = Tail(backlog)
  BY DEF Accept, ServiceInv, ServiceTypeOK
<1>2. /\ accepted' \in Clients
      /\ backlog' \in Seq(Clients)
      /\ Len(backlog') = Len(backlog) - 1
      /\ \A i \in 1 .. Len(backlog') : backlog'[i] = backlog[i + 1]
  BY <1>1, HeadTailProperties
<1>3. Len(backlog) \in Nat \ {0} /\ accepted' = backlog[1]
  BY <1>1, EmptySeq
<1>4. \A i \in 1 .. Len(backlog') : i + 1 \in 1 .. Len(backlog) /\ i + 1 # 1
  BY <1>2, <1>3
<1>5. OnePlace'
  <2>1. accepted' # NoClient
    BY <1>2, ServiceAssumption
  <2>2. accepted' \notin serving
    BY <1>3 DEF ServiceInv, OnePlace
  <2>3. \A i \in 1 .. Len(backlog') : backlog'[i] \notin serving \cup {accepted'}
    BY <1>2, <1>3, <1>4 DEF ServiceInv, OnePlace
  <2>4. \A i, j \in 1 .. Len(backlog') : backlog'[i] = backlog'[j] => i = j
    <3> SUFFICES ASSUME NEW i \in 1 .. Len(backlog'), NEW j \in 1 .. Len(backlog'),
                        backlog'[i] = backlog'[j]
                 PROVE  i = j
      OBVIOUS
    <3>1. i + 1 = j + 1
      BY <1>2, <1>4 DEF ServiceInv, OnePlace
    <3> QED
      BY <3>1, <1>2, <1>3
  <2> QED
    BY <1>u, <2>1, <2>2, <2>3, <2>4 DEF OnePlace
<1>6. ServiceTypeOK'
  BY <1>u, <1>2 DEF ServiceInv, ServiceTypeOK
<1> QED
  BY <1>u, <1>5, <1>6 DEF ServiceInv, PermitsExact, NoLostWakeup

\* The acceptor sleeps only when no permit is left.
LEMMA AcquireWaitInv ==
    ASSUME ServiceInv, AcquireWait
    PROVE  ServiceInv'
<1>1. ServiceTypeOK' /\ OnePlace'
  BY DEF AcquireWait, ServiceInv, ServiceTypeOK, OnePlace
<1> QED
  BY <1>1 DEF AcquireWait, ServiceInv, PermitsExact, NoLostWakeup

\* A spurious wakeup changes nothing but where the acceptor is.
LEMMA SpuriousWakeupInv ==
    ASSUME ServiceInv, SpuriousWakeup
    PROVE  ServiceInv'
<1>1. ServiceTypeOK' /\ OnePlace'
  BY DEF SpuriousWakeup, ServiceInv, ServiceTypeOK, OnePlace
<1> QED
  BY <1>1 DEF SpuriousWakeup, ServiceInv, PermitsExact, NoLostWakeup

\* A permit is taken for a worker that did not have one.
LEMMA AcquireSpawnInv ==
    ASSUME ServiceInv, AcquireSpawn
    PROVE  ServiceInv'
<1>u. /\ backlog' = backlog /\ acceptor' = "accept" /\ accepted' = NoClient
      /\ active' = active + 1 /\ serving' = serving \cup {accepted}
      /\ active < MaxConnections /\ acceptor = "acquire"
  BY DEF AcquireSpawn
<1>1. accepted \in Clients /\ accepted \notin serving
  BY <1>u DEF ServiceInv, ServiceTypeOK, OnePlace
<1>2. IsFiniteSet(serving') /\ Cardinality(serving') = Cardinality(serving) + 1
  BY <1>u, <1>1, FS_AddElement DEF ServiceInv
<1>3. PermitsExact'
  BY <1>u, <1>2, LimitPositive DEF ServiceInv, ServiceTypeOK, PermitsExact
<1>4. OnePlace'
  <2>1. NoClient \notin serving'
    BY <1>u, <1>1, ServiceAssumption DEF ServiceInv, ServiceTypeOK
  <2>2. \A i \in 1 .. Len(backlog) : backlog[i] \notin serving \cup {accepted, NoClient}
    BY QueuedAreClients, ServiceAssumption DEF ServiceInv, OnePlace
  <2> QED
    BY <1>u, <2>1, <2>2 DEF ServiceInv, OnePlace
<1>5. ServiceTypeOK'
  BY <1>u, <1>1 DEF ServiceInv, ServiceTypeOK
<1> QED
  BY <1>u, <1>2, <1>3, <1>4, <1>5 DEF ServiceInv, NoLostWakeup

\* A worker that cannot be started leaves no permit behind.
LEMMA SpawnFailsInv ==
    ASSUME ServiceInv, SpawnFails
    PROVE  ServiceInv'
<1>u. /\ UNCHANGED <<backlog, active, serving>>
      /\ acceptor' = "accept" /\ accepted' = NoClient
  BY DEF SpawnFails
<1>1. ServiceTypeOK'
  BY <1>u DEF ServiceInv, ServiceTypeOK
<1>2. OnePlace'
  <2>1. NoClient \notin serving
    BY ServiceAssumption DEF ServiceInv, ServiceTypeOK
  <2>2. \A i \in 1 .. Len(backlog) : backlog[i] \notin serving \cup {NoClient}
    BY QueuedAreClients, ServiceAssumption DEF ServiceInv, OnePlace
  <2> QED
    BY <1>u, <2>1, <2>2 DEF ServiceInv, OnePlace
<1> QED
  BY <1>u, <1>1, <1>2 DEF ServiceInv, PermitsExact, NoLostWakeup

\* ConnectionPermit::drop returns one permit and wakes the acceptor.
LEMMA ReleaseInv ==
    ASSUME ServiceInv, NEW w \in Clients, Release(w)
    PROVE  ServiceInv'
<1>u. /\ UNCHANGED <<backlog, accepted>>
      /\ w \in serving /\ serving' = serving \ {w}
      /\ active' = IF active = 0 THEN 0 ELSE active - 1
      /\ acceptor' = IF acceptor = "asleep" THEN "acquire" ELSE acceptor
  BY DEF Release
<1>1. IsFiniteSet(serving') /\ Cardinality(serving') = Cardinality(serving) - 1
  BY <1>u, FS_RemoveElement DEF ServiceInv
<1>2. active = Cardinality(serving) /\ active # 0 /\ active \in Nat
  BY <1>u, FS_EmptySet DEF ServiceInv, PermitsExact, ServiceTypeOK
<1>3. active' = active - 1
  BY <1>u, <1>2
<1>4. PermitsExact'
  BY <1>1, <1>2, <1>3, LimitPositive DEF ServiceInv, PermitsExact
<1>5. acceptor' # "asleep" /\ (acceptor' = "accept" <=> acceptor = "accept")
  BY <1>u
<1>6. OnePlace'
  BY <1>u, <1>5 DEF ServiceInv, OnePlace
<1>7. ServiceTypeOK'
  BY <1>u, <1>2, <1>3 DEF ServiceInv, ServiceTypeOK
<1> QED
  BY <1>1, <1>4, <1>5, <1>6, <1>7 DEF ServiceInv, NoLostWakeup

\* Every step of the accept loop, a client or a worker keeps the invariant.
LEMMA ServiceStepInv == ServiceInv /\ [ServiceNext]_serviceVars => ServiceInv'
<1> SUFFICES ASSUME ServiceInv, [ServiceNext]_serviceVars
             PROVE  ServiceInv'
  OBVIOUS
<1>1. CASE UNCHANGED serviceVars
  BY <1>1 DEF serviceVars, ServiceInv, ServiceTypeOK, PermitsExact,
     NoLostWakeup, OnePlace
<1>2. CASE ServiceNext
  BY <1>2, ConnectInv, AcceptInv, AcquireWaitInv, AcquireSpawnInv,
     SpuriousWakeupInv, SpawnFailsInv, ReleaseInv DEF ServiceNext, AcceptLoop
<1> QED
  BY <1>1, <1>2

\* The invariant of the accept loop holds in every reachable state of serve.
THEOREM ServiceInvariance == ServiceSafety => []ServiceInv
<1>1. ServiceInit => ServiceInv
  <2> SUFFICES ASSUME ServiceInit PROVE ServiceInv
    OBVIOUS
  <2>1. ServiceTypeOK /\ OnePlace
    BY EmptySeq DEF ServiceInit, ServiceTypeOK, OnePlace
  <2> QED
    BY <2>1, FS_EmptySet, LimitPositive DEF ServiceInit, ServiceInv,
       PermitsExact, NoLostWakeup
<1>2. ServiceInv /\ [ServiceNext]_serviceVars => ServiceInv'
  BY ServiceStepInv
<1> QED
  BY <1>1, <1>2, PTL DEF ServiceSafety

\* ConnectionLimiter.active is the number of workers, at most MAX_CONNECTIONS.
THEOREM ServicePermitsExact == ServiceSafety => []PermitsExact
<1>1. ServiceInv => PermitsExact
  BY DEF ServiceInv
<1> QED
  BY <1>1, ServiceInvariance, PTL

\* The acceptor never sleeps in acquire while a permit is free.
THEOREM ServiceNoLostWakeup == ServiceSafety => []NoLostWakeup
<1>1. ServiceInv => NoLostWakeup
  BY DEF ServiceInv
<1> QED
  BY <1>1, ServiceInvariance, PTL
=============================================================================
