-------------------------- MODULE ConnectionService --------------------------
(***************************************************************************)
(* The accept loop of `serve` with its ConnectionLimiter: one acceptor     *)
(* thread takes a connection from the backlog, waits for a permit on a     *)
(* mutex and a condition variable, and starts a worker thread that owns    *)
(* the permit.  spawn_control_service runs the same loop, with a limiter   *)
(* of its own, for the control socket.                                     *)
(***************************************************************************)
EXTENDS Workers, Naturals, FiniteSets, Sequences, SequencesExt

CONSTANTS NoClient,        \* no connection
          MaxConnections   \* MAX_CONNECTIONS

ASSUME ServiceAssumption == /\ IsFiniteSet(Clients)
                            /\ NoClient \notin Clients
                            /\ MaxConnections \in Nat \ {0}

VARIABLES
    backlog,   \* connections the kernel queues for accept
    acceptor,  \* the accept loop: "accept", "acquire", "asleep"
    accepted,  \* the connection the accept loop holds
    active,    \* ConnectionLimiter.active
    serving    \* connections with a worker thread, each owning a permit

serviceVars == <<backlog, acceptor, accepted, active, serving>>

\* One type invariant for the state of the accept loop.
ServiceTypeOK ==
    /\ backlog \in Seq(Clients)
    /\ acceptor \in {"accept", "acquire", "asleep"}
    /\ accepted \in Clients \cup {NoClient}
    /\ active \in Nat
    /\ serving \in SUBSET Clients

ServiceInit ==
    /\ backlog = <<>>
    /\ acceptor = "accept"
    /\ accepted = NoClient
    /\ active = 0
    /\ serving = {}

\* A client has at most one connection at a time.
Connect(w) ==
    /\ w \notin serving \cup ToSet(backlog) \cup {accepted}
    /\ backlog' = Append(backlog, w)
    /\ UNCHANGED <<acceptor, accepted, active, serving>>

\* listener.incoming() yields the oldest connection.
Accept ==
    /\ acceptor = "accept"
    /\ backlog # <<>>
    /\ acceptor' = "acquire"
    /\ accepted' = Head(backlog)
    /\ backlog' = Tail(backlog)
    /\ UNCHANGED <<active, serving>>

\* acquire with the mutex held and no permit left: sleep on the condition
\* variable, which releases the mutex.
AcquireWait ==
    /\ acceptor = "acquire"
    /\ active >= MaxConnections
    /\ acceptor' = "asleep"
    /\ UNCHANGED <<backlog, accepted, active, serving>>

\* The condition variable may wake its waiter without a notification; acquire
\* then tests the count again.
SpuriousWakeup ==
    /\ acceptor = "asleep"
    /\ acceptor' = "acquire"
    /\ UNCHANGED <<backlog, accepted, active, serving>>

\* Fault: one permit too many.
AcquireSpawn_OffByOne ==
    /\ acceptor = "acquire"
    /\ active <= MaxConnections
    /\ active' = active + 1
    /\ serving' = serving \cup {accepted}
    /\ acceptor' = "accept"
    /\ accepted' = NoClient
    /\ UNCHANGED backlog

\* acquire takes a permit and the worker thread starts with it.
AcquireSpawn ==
    /\ acceptor = "acquire"
    /\ active < MaxConnections
    /\ active' = active + 1
    /\ serving' = serving \cup {accepted}
    /\ acceptor' = "accept"
    /\ accepted' = NoClient
    /\ UNCHANGED backlog

\* Fault: the permit of a thread that was never started is not returned.
SpawnFails_LeaksPermit ==
    /\ acceptor = "acquire"
    /\ active < MaxConnections
    /\ active' = active + 1
    /\ acceptor' = "accept"
    /\ accepted' = NoClient
    /\ UNCHANGED <<backlog, serving>>

\* The thread cannot be spawned: its closure is dropped and the permit and
\* the connection with it, so the count is as before.
SpawnFails ==
    /\ acceptor = "acquire"
    /\ active < MaxConnections
    /\ acceptor' = "accept"
    /\ accepted' = NoClient
    /\ UNCHANGED <<backlog, active, serving>>

\* Fault: the permit is returned without waking the acceptor.
Release_NoNotify(w) ==
    /\ w \in serving
    /\ serving' = serving \ {w}
    /\ active' = IF active = 0 THEN 0 ELSE active - 1
    /\ UNCHANGED <<backlog, acceptor, accepted>>

\* ConnectionPermit::drop: saturating decrement and notify_one, which wakes
\* the acceptor if it sleeps.
Release(w) ==
    /\ w \in serving
    /\ serving' = serving \ {w}
    /\ active' = IF active = 0 THEN 0 ELSE active - 1
    /\ acceptor' = IF acceptor = "asleep" THEN "acquire" ELSE acceptor
    /\ UNCHANGED <<backlog, accepted>>

AcceptLoop == Accept \/ AcquireWait \/ AcquireSpawn

ServiceNext == \/ AcceptLoop
               \/ SpuriousWakeup
               \/ SpawnFails
               \/ \E w \in Clients : Connect(w) \/ Release(w)

ServiceSafety == ServiceInit /\ [][ServiceNext]_serviceVars

-----------------------------------------------------------------------------
(* Properties.                                                             *)

\* The limiter counts the worker threads exactly: no permit is leaked when a
\* worker ends or cannot be spawned, none is given twice, and the number of
\* workers never passes MAX_CONNECTIONS.
PermitsExact == active = Cardinality(serving) /\ active <= MaxConnections

\* No lost wakeup: the acceptor never sleeps while a permit is free, although
\* notify_one is only a hint and the count is tested in a loop.
NoLostWakeup == acceptor = "asleep" => active >= MaxConnections

\* A connection is in one place: once in the backlog, with the acceptor, or
\* with its worker.
OnePlace ==
    /\ accepted = NoClient <=> acceptor = "accept"
    /\ accepted \notin serving
    /\ \A i \in 1 .. Len(backlog) : backlog[i] \notin serving \cup {accepted}
    /\ \A i, j \in 1 .. Len(backlog) : backlog[i] = backlog[j] => i = j

\* The inductive invariant of the accept loop.
ServiceInv == ServiceTypeOK /\ IsFiniteSet(serving) /\ PermitsExact /\ NoLostWakeup /\ OnePlace

=============================================================================
