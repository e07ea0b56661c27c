------------------------ MODULE SocketLifecycleProofs ------------------------
(***************************************************************************)
(* Proof that an agent keeps its sockets, for any number of agents that    *)
(* start, fail and are killed at the same time.                            *)
(***************************************************************************)
EXTENDS SocketLifecycle, TLAPS

-----------------------------------------------------------------------------
(* The inductive invariant.                                                *)

Places == {"off", "bind", "inspect", "probe", "remove", "rebind", "protect",
           "guard", "config", "serving", "drop", "unlink"}

SocketTypeOK ==
    /\ path \in [Sockets -> 0 .. MaxInodes]
    /\ listener \in [Inodes -> Agents \cup {NoAgent}]
    /\ nextInode \in 1 .. MaxInodes + 1
    /\ pc \in [Agents -> Places]
    /\ sock \in [Agents -> Sockets]
    /\ own \in [Agents -> [Sockets -> 0 .. MaxInodes]]
    /\ guard \in [Agents -> [Sockets -> 0 .. MaxInodes]]
    /\ exposed \in SUBSET Inodes

\* Inodes are not reused.
InodesFresh ==
    /\ \A s \in Sockets : path[s] < nextInode
    /\ \A a \in Agents, s \in Sockets : own[a][s] < nextInode /\ guard[a][s] < nextInode
    /\ \A n \in exposed : n < nextInode

\* What an agent bound it listens on, and it did not bind it twice.
OwnsListened ==
    /\ \A a \in Agents, s \in Sockets : own[a][s] # NoInode => listener[own[a][s]] = a
    /\ \A a \in Agents, s, t \in Sockets : own[a][s] # NoInode /\ own[a][s] = own[a][t] => s = t

\* What an agent has not bound yet, or no longer has.
NotOwned ==
    \A a \in Agents :
        /\ pc[a] \in {"bind", "inspect", "probe", "remove", "rebind"} => own[a][sock[a]] = NoInode
        /\ sock[a] = "agent" => own[a]["control"] = NoInode
        /\ pc[a] = "off" => \A s \in Sockets : own[a][s] = NoInode

Safe(a, s) == own[a][s] \notin exposed \cup {NoInode}

\* A socket bound in nobody's window is under its path, and nobody comes into
\* a position to remove it: no agent finds it stale, none has a guard for it.
SafeHeld ==
    \A a \in Agents, s \in Sockets : Safe(a, s) =>
        /\ path[s] = own[a][s]
        /\ \A b \in Agents \ {a} : ~InWindow(b, s) /\ guard[b][s] # own[a][s]

SocketInv == SocketTypeOK /\ InodesFresh /\ OwnsListened /\ NotOwned /\ SafeHeld

-----------------------------------------------------------------------------
(* The steps.                                                              *)

\* A step of one agent leaves the place of every other agent alone.
LEMMA PlacesOthers ==
    ASSUME SocketTypeOK, NEW a \in Agents, Start(a) \/ StartStep(a)
    PROVE  /\ pc' \in [Agents -> Places] /\ sock' \in [Agents -> Sockets]
           /\ \A b \in Agents \ {a} : pc'[b] = pc[b] /\ sock'[b] = sock[b]
<1>1. /\ \E to \in Places : pc' = [pc EXCEPT ![a] = to]
      /\ sock' = sock \/ \E s \in Sockets : sock' = [sock EXCEPT ![a] = s]
  BY DEF StartStep, Start, Bind, Inspect, Probe, Remove, Rebind, Protect, Guard, LoadConfig,
     DropGuard, Unlink, Binds, Fails, Closes, Places, Sockets
<1> QED
  BY <1>1, SMTT(30) DEF SocketTypeOK

\* The parts about who owns what have to be looked at for the agent that moves.
LEMMA NotOwnedOthers ==
    ASSUME SocketInv, NEW a \in Agents,
           \A b \in Agents \ {a} : /\ pc'[b] = pc[b] /\ sock'[b] = sock[b]
                                   /\ \A s \in Sockets : own'[b][s] = own[b][s],
           pc'[a] \in {"bind", "inspect", "probe", "remove", "rebind"}
               => own'[a][sock'[a]] = NoInode,
           sock'[a] = "agent" => own'[a]["control"] = NoInode,
           pc'[a] = "off" => \A s \in Sockets : own'[a][s] = NoInode
    PROVE  NotOwned'
BY DEF SocketInv, SocketTypeOK, NotOwned, Sockets

\* A step that changes neither the paths nor who has them.
LEMMA QuietStep ==
    ASSUME SocketInv, NEW a \in Agents, Start(a) \/ StartStep(a),
           UNCHANGED <<path, listener, nextInode, own, guard, exposed>>,
           ~Binds(a), ~Closes(a), Guard(a) => Fails(a), Remove(a) => Fails(a)
    PROVE  SocketInv'
<1>0. SocketTypeOK /\ InodesFresh /\ OwnsListened /\ NotOwned /\ SafeHeld
  BY DEF SocketInv
<1>1. /\ pc' \in [Agents -> Places] /\ sock' \in [Agents -> Sockets]
      /\ \A b \in Agents \ {a} : pc'[b] = pc[b] /\ sock'[b] = sock[b]
  BY <1>0, PlacesOthers
<1>2. SocketTypeOK' /\ InodesFresh' /\ OwnsListened'
  BY <1>0, <1>1 DEF SocketTypeOK, InodesFresh, OwnsListened
<1> DEFINE Move(p, q) == pc[a] = p /\ pc'[a] = q
<1>3. \/ Move("off", "bind")
      \/ Fails(a)
      \/ sock' = sock /\ \/ Move("bind", "inspect") \/ Move("inspect", "probe")
                         \/ Move("protect", "guard") \/ Move("config", "serving")
                         \/ Move("probe", "remove") /\ ~Listening(sock[a])
                         \/ Move("drop", "unlink") /\ path[sock[a]] = guard[a][sock[a]]
  <2>1. \A to : pc' = [pc EXCEPT ![a] = to] => pc'[a] = to
    BY <1>0 DEF SocketTypeOK
  <2>2. CASE Start(a) \/ Bind(a) \/ Inspect(a) \/ LoadConfig(a) \/ Rebind(a)
    BY <2>1, <2>2 DEF Start, Bind, Inspect, LoadConfig, Rebind
  <2>3. CASE Probe(a) \/ Remove(a) \/ Protect(a) \/ Guard(a)
    BY <2>1, <2>3 DEF Probe, Protect
  <2>4. CASE DropGuard(a) \/ Unlink(a)
    BY <2>1, <2>4 DEF DropGuard, Unlink
  <2> QED
    BY <2>2, <2>3, <2>4 DEF StartStep
<1>4. NotOwned'
  <2>1. Fails(a) => pc'[a] = "drop" /\ sock'[a] = "control"
    BY <1>0 DEF Fails, SocketTypeOK
  <2>2. sock'[a] \in Sockets
    BY <1>1
  <2>3. /\ pc'[a] \in {"bind", "inspect", "probe", "remove", "rebind"}
             => own[a][sock'[a]] = NoInode
        /\ sock'[a] = "agent" => own[a]["control"] = NoInode
        /\ pc'[a] # "off"
    BY <1>0, <1>3, <2>1, <2>2 DEF NotOwned, Sockets
  <2> QED
    BY <1>1, <2>3, NotOwnedOthers
<1>5. SafeHeld'
  <2> SUFFICES ASSUME NEW c \in Agents, NEW s \in Sockets, Safe(c, s)
               PROVE  /\ path[s] = own[c][s]
                      /\ \A b \in Agents \ {c} : ~InWindow(b, s)' /\ guard[b][s] # own[c][s]
    BY DEF SafeHeld, Safe
  <2>1. /\ path[s] = own[c][s] /\ own[c][s] # NoInode /\ listener[path[s]] = c
        /\ \A b \in Agents \ {c} : ~InWindow(b, s) /\ guard[b][s] # own[c][s]
    BY <1>0 DEF Safe, SafeHeld, OwnsListened
  <2>2. Listening(s)
    BY <2>1, SocketAssumption DEF Listening
  <2>3. \A b \in Agents \ {a, c} : ~InWindow(b, s)'
    BY <1>1, <2>1 DEF InWindow
  <2>4. ASSUME a # c, InWindow(a, s)'
        PROVE  FALSE
    <3>1. pc'[a] \in {"remove", "protect", "guard", "unlink"} /\ sock'[a] = s
      BY <2>4 DEF InWindow
    <3>2. ~Fails(a)
      BY <1>0, <3>1 DEF Fails, SocketTypeOK
    <3>3. sock[a] = s /\ \/ Move("protect", "guard")
                         \/ Move("probe", "remove") /\ ~Listening(s)
                         \/ Move("drop", "unlink") /\ path[s] = guard[a][s]
      BY <1>3, <3>1, <3>2
    <3> QED
      BY <2>1, <2>2, <2>4, <3>3 DEF InWindow
  <2> QED
    BY <2>1, <2>3, <2>4
<1> QED
  BY <1>2, <1>4, <1>5 DEF SocketInv

\* bind on a free path: nobody has a safe socket there, and the inode is new.
LEMMA BindsStep ==
    ASSUME SocketInv, NEW a \in Agents, Bind(a) \/ Rebind(a), Binds(a),
           UNCHANGED <<sock, guard>>
    PROVE  SocketInv'
<1> DEFINE s == sock[a]
           n == nextInode
<1>0. SocketTypeOK /\ InodesFresh /\ OwnsListened /\ NotOwned /\ SafeHeld
  BY DEF SocketInv
<1>1. /\ pc' \in [Agents -> Places] /\ sock' \in [Agents -> Sockets]
      /\ \A b \in Agents \ {a} : pc'[b] = pc[b] /\ sock'[b] = sock[b]
  BY <1>0, PlacesOthers DEF StartStep
<1>2. /\ s \in Sockets /\ n \in Inodes /\ n \in 1 .. MaxInodes /\ MaxInodes \in Nat
      /\ path[s] = NoInode
  BY <1>0, SocketAssumption DEF SocketTypeOK, Binds, Inodes
<1>3. /\ pc'[a] = "protect" /\ nextInode' = n + 1
      /\ path' \in [Sockets -> 0 .. MaxInodes]
      /\ \A t \in Sockets : path'[t] = IF t = s THEN n ELSE path[t]
      /\ listener' \in [Inodes -> Agents \cup {NoAgent}]
      /\ \A i \in Inodes : listener'[i] = IF i = n THEN a ELSE listener[i]
  BY <1>0, <1>2 DEF Binds, SocketTypeOK, Inodes
<1>4. /\ own' \in [Agents -> [Sockets -> 0 .. MaxInodes]]
      /\ \A b \in Agents, t \in Sockets :
           own'[b][t] = IF b = a /\ t = s THEN n ELSE own[b][t]
  <2>1. own' = [own EXCEPT ![a] = [own[a] EXCEPT ![s] = n]]
    BY <1>0 DEF Binds, SocketTypeOK
  <2>2. [own[a] EXCEPT ![s] = n] \in [Sockets -> 0 .. MaxInodes]
    BY <1>0, <1>2 DEF SocketTypeOK
  <2> QED
    BY <1>0, <1>2, <2>1, <2>2 DEF SocketTypeOK
<1>5. /\ exposed' \in SUBSET Inodes /\ exposed \subseteq exposed' /\ exposed' \subseteq exposed \cup {n}
      /\ n \notin exposed' => \A b \in Agents \ {a} : ~InWindow(b, s)
  BY <1>0, <1>2 DEF Binds, SocketTypeOK
<1>6. \A b \in Agents, t \in Sockets :
        /\ own[b][t] \in 0 .. MaxInodes /\ guard[b][t] \in 0 .. MaxInodes /\ path[t] \in 0 .. MaxInodes
        /\ own[b][t] < n /\ guard[b][t] < n /\ path[t] < n
  BY <1>0 DEF SocketTypeOK, InodesFresh
<1>7. \A b \in Agents, t \in Sockets : own[b][t] # NoInode => own[b][t] \in Inodes /\ own[b][t] # n
  BY <1>2, <1>6 DEF NoInode, Inodes
<1> HIDE DEF s, n
<1>8. SocketTypeOK'
  <2>1. nextInode' \in 1 .. MaxInodes + 1
    BY <1>2, <1>3
  <2> QED
    BY <1>0, <1>1, <1>3, <1>4, <1>5, <2>1 DEF SocketTypeOK
<1>9. InodesFresh'
  <2>1. \A i \in exposed' : i < n + 1
    <3>1. \A i \in exposed : i < n /\ i \in Inodes
      BY <1>0 DEF InodesFresh, SocketTypeOK, n
    <3> QED
      BY <1>2, <1>5, <3>1 DEF Inodes
  <2>2. \A t \in Sockets : path'[t] < n + 1
    BY <1>2, <1>3, <1>6
  <2>3. \A b \in Agents, t \in Sockets : own'[b][t] < n + 1 /\ guard'[b][t] < n + 1
    BY <1>2, <1>4, <1>6
  <2> QED
    BY <1>3, <2>1, <2>2, <2>3 DEF InodesFresh
<1>10. OwnsListened'
  <2>1. ASSUME NEW b \in Agents, NEW t \in Sockets, own'[b][t] # NoInode
        PROVE  listener'[own'[b][t]] = b
    <3>1. CASE b = a /\ t = s
      BY <1>2, <1>3, <1>4, <3>1
    <3>2. CASE ~(b = a /\ t = s)
      <4>1. own'[b][t] = own[b][t] /\ own[b][t] # NoInode
        BY <1>4, <2>1, <3>2
      <4>2. listener[own[b][t]] = b /\ own[b][t] \in Inodes /\ own[b][t] # n
        BY <1>0, <1>7, <4>1 DEF OwnsListened
      <4> QED
        BY <1>3, <4>1, <4>2
    <3> QED
      BY <3>1, <3>2
  <2>2. ASSUME NEW b \in Agents, NEW t \in Sockets, NEW u \in Sockets,
               own'[b][t] # NoInode, own'[b][t] = own'[b][u]
        PROVE  t = u
    <3>1. CASE b = a /\ (t = s \/ u = s)
      BY <1>2, <1>4, <1>7, <2>2, <3>1 DEF NoInode
    <3>2. CASE ~(b = a /\ (t = s \/ u = s))
      BY <1>0, <1>4, <2>2, <3>2 DEF OwnsListened
    <3> QED
      BY <3>1, <3>2
  <2> QED
    BY <2>1, <2>2 DEF OwnsListened
<1>11. NotOwned'
  <2>1. s = "agent" => own'[a]["control"] = NoInode
    BY <1>0, <1>4 DEF NotOwned, Sockets, s
  <2>2. sock'[a] = s
    BY DEF s
  <2> QED
    BY <1>1, <1>3, <1>4, <2>1, <2>2, NotOwnedOthers
<1>12. SafeHeld'
  <2> SUFFICES ASSUME NEW c \in Agents, NEW t \in Sockets, Safe(c, t)'
               PROVE  /\ path'[t] = own'[c][t]
                      /\ \A b \in Agents \ {c} : ~InWindow(b, t)' /\ guard'[b][t] # own'[c][t]
    BY DEF SafeHeld
  <2>1. \A b \in Agents : InWindow(b, t)' => InWindow(b, t) \/ (b = a /\ t = s)
    BY <1>1 DEF InWindow, s
  <2>2. CASE c = a /\ t = s
    <3>1. own'[c][t] = n /\ n \notin exposed' /\ path'[t] = n
      BY <1>3, <1>4, <2>2 DEF Safe
    <3>2. \A b \in Agents : guard[b][t] # n
      BY <1>2, <1>6
    <3> QED
      BY <1>5, <2>1, <2>2, <3>1, <3>2
  <2>3. CASE ~(c = a /\ t = s)
    <3>1. own'[c][t] = own[c][t] /\ Safe(c, t)
      BY <1>4, <1>5, <2>3 DEF Safe
    <3>2. /\ path[t] = own[c][t] /\ t # s
          /\ \A b \in Agents \ {c} : ~InWindow(b, t) /\ guard[b][t] # own[c][t]
      BY <1>0, <1>2, <3>1 DEF SafeHeld, Safe
    <3> QED
      BY <1>3, <2>1, <3>1, <3>2
  <2> QED
    BY <2>2, <2>3
<1> QED
  BY <1>8, <1>9, <1>10, <1>11, <1>12 DEF SocketInv

\* remove_file: whatever is there by now, it is nobody's safe socket.
LEMMA RemoveStep ==
    ASSUME SocketInv, NEW a \in Agents, Remove(a),
           path' = [path EXCEPT ![sock[a]] = NoInode], pc' = [pc EXCEPT ![a] = "rebind"],
           UNCHANGED sock
    PROVE  SocketInv'
<1> DEFINE s == sock[a]
<1>0. SocketTypeOK /\ InodesFresh /\ OwnsListened /\ NotOwned /\ SafeHeld
  BY DEF SocketInv
<1>1. /\ pc' \in [Agents -> Places] /\ sock' \in [Agents -> Sockets]
      /\ \A b \in Agents \ {a} : pc'[b] = pc[b] /\ sock'[b] = sock[b]
  BY <1>0, PlacesOthers DEF StartStep
<1>2. /\ pc[a] = "remove" /\ pc'[a] = "rebind"
      /\ UNCHANGED <<listener, nextInode, own, guard, exposed>>
      /\ s \in Sockets /\ path' \in [Sockets -> 0 .. MaxInodes]
      /\ \A t \in Sockets : path'[t] = IF t = s THEN NoInode ELSE path[t]
  BY <1>0, SocketAssumption DEF Remove, SocketTypeOK, NoInode
<1>3. own[a][s] = NoInode /\ (s = "agent" => own[a]["control"] = NoInode)
  BY <1>0, <1>2 DEF NotOwned
<1>4. \A c \in Agents : ~Safe(c, s)
  BY <1>0, <1>2, <1>3 DEF SafeHeld, InWindow, Safe
<1>5. NotOwned'
  BY <1>1, <1>2, <1>3, NotOwnedOthers
<1>6. \A b \in Agents, t \in Sockets : InWindow(b, t)' => InWindow(b, t)
  BY <1>1, <1>2 DEF InWindow
<1> HIDE DEF s
<1>7. SocketTypeOK' /\ OwnsListened'
  BY <1>0, <1>1, <1>2 DEF SocketTypeOK, OwnsListened
<1>8. InodesFresh'
  <2>1. nextInode > 0
    BY <1>0 DEF SocketTypeOK
  <2> QED
    BY <1>0, <1>2, <2>1 DEF InodesFresh, NoInode
<1>9. SafeHeld'
  BY <1>0, <1>2, <1>4, <1>6 DEF SafeHeld, Safe
<1> QED
  BY <1>5, <1>7, <1>8, <1>9 DEF SocketInv

\* The guard remembers what is under the path: no safe socket of another agent.
LEMMA GuardStep ==
    ASSUME SocketInv, NEW a \in Agents, Guard(a),
           guard' = [guard EXCEPT ![a][sock[a]] = path[sock[a]]],
           pc' = [pc EXCEPT ![a] = IF sock[a] = "agent" THEN "bind" ELSE "config"],
           sock' = [sock EXCEPT ![a] = "control"]
    PROVE  SocketInv'
<1> DEFINE s == sock[a]
<1>0. SocketTypeOK /\ InodesFresh /\ OwnsListened /\ NotOwned /\ SafeHeld
  BY DEF SocketInv
<1>1. /\ pc' \in [Agents -> Places] /\ sock' \in [Agents -> Sockets]
      /\ \A b \in Agents \ {a} : pc'[b] = pc[b] /\ sock'[b] = sock[b]
  BY <1>0, PlacesOthers DEF StartStep
<1>2. /\ pc[a] = "guard" /\ pc'[a] = (IF s = "agent" THEN "bind" ELSE "config")
      /\ sock'[a] = "control"
      /\ UNCHANGED <<path, listener, nextInode, own, exposed>>
      /\ s \in Sockets /\ path[s] \in 0 .. MaxInodes
  BY <1>0 DEF Guard, SocketTypeOK
<1>3. /\ guard' \in [Agents -> [Sockets -> 0 .. MaxInodes]]
      /\ \A b \in Agents, t \in Sockets :
           guard'[b][t] = IF b = a /\ t = s THEN path[s] ELSE guard[b][t]
  <2>1. guard' = [guard EXCEPT ![a] = [guard[a] EXCEPT ![s] = path[s]]]
    BY <1>0 DEF SocketTypeOK
  <2>2. [guard[a] EXCEPT ![s] = path[s]] \in [Sockets -> 0 .. MaxInodes]
    BY <1>0, <1>2 DEF SocketTypeOK
  <2> QED
    BY <1>0, <1>2, <2>1, <2>2 DEF SocketTypeOK
<1>4. \A c \in Agents \ {a} : ~Safe(c, s)
  BY <1>0, <1>2 DEF SafeHeld, InWindow
<1>5. NotOwned'
  <2>1. s = "agent" => own[a]["control"] = NoInode
    BY <1>0 DEF NotOwned
  <2> QED
    BY <1>1, <1>2, <2>1, NotOwnedOthers
<1>6. \A b \in Agents, t \in Sockets : InWindow(b, t)' => InWindow(b, t)
  BY <1>1, <1>2 DEF InWindow
<1> HIDE DEF s
<1>7. SocketTypeOK' /\ InodesFresh' /\ OwnsListened'
  BY <1>0, <1>1, <1>2, <1>3 DEF SocketTypeOK, InodesFresh, OwnsListened
<1>8. SafeHeld'
  BY <1>0, <1>2, <1>3, <1>4, <1>6 DEF SafeHeld, Safe
<1> QED
  BY <1>5, <1>7, <1>8 DEF SocketInv

\* A socket of an agent that failed to start is dropped: what is removed from its
\* path is nobody's safe socket, and only its own listener is closed.
LEMMA ClosesStep ==
    ASSUME SocketInv, NEW a \in Agents, DropGuard(a) \/ Unlink(a), Closes(a)
    PROVE  SocketInv'
<1> DEFINE s == sock[a]
<1>0. SocketTypeOK /\ InodesFresh /\ OwnsListened /\ NotOwned /\ SafeHeld
  BY DEF SocketInv
<1>1. /\ pc' \in [Agents -> Places] /\ sock' \in [Agents -> Sockets]
      /\ \A b \in Agents \ {a} : pc'[b] = pc[b] /\ sock'[b] = sock[b]
  BY <1>0, PlacesOthers DEF StartStep
<1>2. /\ pc'[a] = (IF s = "control" THEN "drop" ELSE "off") /\ sock'[a] = "agent"
      /\ UNCHANGED <<nextInode, exposed>> /\ s \in Sockets /\ 0 \in 0 .. MaxInodes
  BY <1>0, SocketAssumption DEF DropGuard, Unlink, Closes, SocketTypeOK
<1>3. /\ path' \in [Sockets -> 0 .. MaxInodes]
      /\ \A t \in Sockets : path'[t] # path[t] => /\ t = s /\ pc[a] = "unlink"
                                                  /\ path'[t] = NoInode
  <2>1. CASE UNCHANGED path
    BY <1>0, <2>1 DEF SocketTypeOK
  <2>2. CASE Unlink(a)
    BY <1>0, <1>2, <2>2 DEF Unlink, SocketTypeOK, NoInode
  <2> QED
    BY <2>1, <2>2 DEF DropGuard
<1>4. /\ listener' \in [Inodes -> Agents \cup {NoAgent}]
      /\ \A i \in Inodes : listener'[i] = IF i = own[a][s] THEN NoAgent ELSE listener[i]
  BY <1>0 DEF Closes, SocketTypeOK
<1>5. ASSUME NEW f \in [Agents -> [Sockets -> 0 .. MaxInodes]], NEW g,
             g = [f EXCEPT ![a][s] = NoInode]
      PROVE  /\ g \in [Agents -> [Sockets -> 0 .. MaxInodes]]
             /\ \A b \in Agents, t \in Sockets :
                  g[b][t] = IF b = a /\ t = s THEN NoInode ELSE f[b][t]
  <2>1. g = [f EXCEPT ![a] = [f[a] EXCEPT ![s] = NoInode]]
    BY <1>5
  <2>2. [f[a] EXCEPT ![s] = NoInode] \in [Sockets -> 0 .. MaxInodes]
    BY <1>2 DEF NoInode
  <2> QED
    BY <1>2, <2>1, <2>2
<1>6. /\ own' \in [Agents -> [Sockets -> 0 .. MaxInodes]]
      /\ guard' \in [Agents -> [Sockets -> 0 .. MaxInodes]]
      /\ \A b \in Agents, t \in Sockets :
           /\ own'[b][t] = IF b = a /\ t = s THEN NoInode ELSE own[b][t]
           /\ guard'[b][t] = IF b = a /\ t = s THEN NoInode ELSE guard[b][t]
  <2>1. /\ own' = [own EXCEPT ![a][s] = NoInode] /\ guard' = [guard EXCEPT ![a][s] = NoInode]
        /\ own \in [Agents -> [Sockets -> 0 .. MaxInodes]]
        /\ guard \in [Agents -> [Sockets -> 0 .. MaxInodes]]
    BY <1>0 DEF Closes, SocketTypeOK
  <2> QED
    BY <1>5, <2>1
<1>7. NotOwned'
  <2>1. s = "agent" => own[a]["control"] = NoInode
    BY <1>0 DEF NotOwned
  <2>2. own'[a]["control"] = NoInode /\ (s # "control" => own'[a]["agent"] = NoInode)
    BY <1>2, <1>6, <2>1 DEF Sockets
  <2>3. pc'[a] = "off" => \A t \in Sockets : own'[a][t] = NoInode
    BY <1>2, <2>2 DEF Sockets
  <2>4. \A b \in Agents \ {a}, t \in Sockets : own'[b][t] = own[b][t]
    BY <1>6
  <2>5. pc'[a] \notin {"bind", "inspect", "probe", "remove", "rebind"}
    BY <1>2
  <2> QED
    BY <1>1, <2>2, <2>3, <2>4, <2>5, NotOwnedOthers
<1>8. pc[a] = "unlink" => \A c \in Agents \ {a} : ~Safe(c, s)
  BY <1>0, <1>2 DEF SafeHeld, InWindow
<1>9. \A b \in Agents, t \in Sockets : InWindow(b, t)' => InWindow(b, t)
  BY <1>1, <1>2 DEF InWindow
<1> HIDE DEF s
<1>10. SocketTypeOK'
  BY <1>0, <1>1, <1>2, <1>3, <1>4, <1>6 DEF SocketTypeOK
<1>11. InodesFresh'
  <2>1. nextInode > 0
    BY <1>0 DEF SocketTypeOK
  <2> QED
    BY <1>0, <1>2, <1>3, <1>6, <2>1, SMTT(30) DEF InodesFresh, NoInode
<1>12. OwnsListened'
  <2>1. ASSUME NEW b \in Agents, NEW t \in Sockets, own'[b][t] # NoInode
        PROVE  listener'[own'[b][t]] = b
    <3>1. own'[b][t] = own[b][t] /\ ~(b = a /\ t = s)
      BY <1>6, <2>1
    <3>2. listener[own[b][t]] = b /\ own[b][t] # NoInode /\ own[b][t] # own[a][s]
      BY <1>0, <1>2, <2>1, <3>1 DEF OwnsListened
    <3>3. own[b][t] \in Inodes
      BY <1>0, <3>2, SMTT(30) DEF SocketTypeOK, Inodes, NoInode
    <3> QED
      BY <1>4, <3>1, <3>2, <3>3
  <2>2. \A b \in Agents, t, u \in Sockets :
           own'[b][t] # NoInode /\ own'[b][t] = own'[b][u] => t = u
    BY <1>0, <1>6 DEF OwnsListened
  <2> QED
    BY <2>1, <2>2 DEF OwnsListened
<1>13. SafeHeld'
  <2> SUFFICES ASSUME NEW c \in Agents, NEW t \in Sockets, Safe(c, t)'
               PROVE  /\ path'[t] = own'[c][t]
                      /\ \A b \in Agents \ {c} : ~InWindow(b, t)' /\ guard'[b][t] # own'[c][t]
    BY DEF SafeHeld
  <2>1. ~(c = a /\ t = s) /\ own'[c][t] = own[c][t] /\ own[c][t] # NoInode /\ Safe(c, t)
    BY <1>2, <1>6 DEF Safe
  <2>2. /\ path[t] = own[c][t]
        /\ \A b \in Agents \ {c} : ~InWindow(b, t) /\ guard[b][t] # own[c][t]
    BY <1>0, <2>1 DEF SafeHeld
  <2>3. path'[t] = path[t]
    BY <1>3, <1>8, <2>1
  <2> QED
    BY <1>6, <1>9, <2>1, <2>2, <2>3
<1> QED
  BY <1>7, <1>10, <1>11, <1>12, <1>13 DEF SocketInv

\* A kill closes the listeners of one agent and leaves the paths alone.
LEMMA KillStep ==
    ASSUME SocketInv, NEW a \in Agents, Kill(a)
    PROVE  SocketInv'
<1>0. SocketTypeOK /\ InodesFresh /\ OwnsListened /\ NotOwned /\ SafeHeld
  BY DEF SocketInv
<1>1. /\ pc' \in [Agents -> Places] /\ sock' \in [Agents -> Sockets]
      /\ \A b \in Agents \ {a} : pc'[b] = pc[b] /\ sock'[b] = sock[b]
      /\ pc'[a] = "off" /\ UNCHANGED <<path, nextInode, exposed>>
  BY <1>0 DEF Kill, SocketTypeOK, Sockets, Places
<1>2. None \in [Sockets -> 0 .. MaxInodes] /\ \A t \in Sockets : None[t] = NoInode
  BY SocketAssumption DEF None, NoInode
<1>3. /\ own' \in [Agents -> [Sockets -> 0 .. MaxInodes]]
      /\ guard' \in [Agents -> [Sockets -> 0 .. MaxInodes]]
      /\ \A b \in Agents, t \in Sockets :
           /\ own'[b][t] = IF b = a THEN NoInode ELSE own[b][t]
           /\ guard'[b][t] = IF b = a THEN NoInode ELSE guard[b][t]
  BY <1>0, <1>2 DEF Kill, SocketTypeOK
<1>4. /\ listener' \in [Inodes -> Agents \cup {NoAgent}]
      /\ \A i \in Inodes : listener'[i] = IF listener[i] = a THEN NoAgent ELSE listener[i]
  BY <1>0 DEF Kill, SocketTypeOK
<1>5. SocketTypeOK'
  BY <1>0, <1>1, <1>3, <1>4 DEF SocketTypeOK
<1>6. InodesFresh'
  <2>1. nextInode > 0
    BY <1>0 DEF SocketTypeOK
  <2> QED
    BY <1>0, <1>1, <1>3, <2>1 DEF InodesFresh, NoInode
<1>7. OwnsListened'
  <2>1. \A b \in Agents, t \in Sockets : own[b][t] # NoInode => own[b][t] \in Inodes
    <3> TAKE b \in Agents, t \in Sockets
    <3>1. own[b][t] \in 0 .. MaxInodes
      BY <1>0 DEF SocketTypeOK
    <3> QED
      BY <3>1 DEF Inodes, NoInode
  <2>2. ASSUME NEW b \in Agents, NEW t \in Sockets, own'[b][t] # NoInode
        PROVE  listener'[own'[b][t]] = b
    <3>1. own'[b][t] = own[b][t] /\ b # a
      BY <1>3, <2>2
    <3>2. listener[own[b][t]] = b /\ own[b][t] \in Inodes
      BY <1>0, <2>1, <2>2, <3>1 DEF OwnsListened
    <3> QED
      BY <1>4, <3>1, <3>2
  <2>3. \A b \in Agents, t, u \in Sockets :
           own'[b][t] # NoInode /\ own'[b][t] = own'[b][u] => t = u
    BY <1>0, <1>3 DEF OwnsListened
  <2> QED
    BY <2>2, <2>3 DEF OwnsListened
<1>8. NotOwned'
  BY <1>1, <1>3, NotOwnedOthers DEF Sockets
<1>9. SafeHeld'
  <2>1. \A b \in Agents, t \in Sockets : InWindow(b, t)' => InWindow(b, t)
    BY <1>1 DEF InWindow
  <2> QED
    BY <1>0, <1>1, <1>3, <2>1 DEF SafeHeld, Safe
<1> QED
  BY <1>5, <1>6, <1>7, <1>8, <1>9 DEF SocketInv

\* Every step keeps SocketInv.
LEMMA SocketStep ==
    ASSUME SocketInv, [SocketNext]_socketVars
    PROVE  SocketInv'
<1>1. CASE UNCHANGED socketVars
  BY <1>1 DEF socketVars, SocketInv, SocketTypeOK, InodesFresh, OwnsListened, NotOwned,
     SafeHeld, Safe, InWindow
<1>2. ASSUME NEW a \in Agents, Start(a) \/ StartStep(a)
      PROVE  SocketInv'
  <2>1. CASE (Bind(a) \/ Rebind(a)) /\ Binds(a)
    BY <2>1, BindsStep DEF Bind, Rebind, Binds
  <2>2. CASE /\ Remove(a) /\ UNCHANGED sock
             /\ path' = [path EXCEPT ![sock[a]] = NoInode]
             /\ pc' = [pc EXCEPT ![a] = "rebind"]
    BY <2>2, RemoveStep
  <2>3. CASE /\ Guard(a) /\ sock' = [sock EXCEPT ![a] = "control"]
             /\ guard' = [guard EXCEPT ![a][sock[a]] = path[sock[a]]]
             /\ pc' = [pc EXCEPT ![a] = IF sock[a] = "agent" THEN "bind" ELSE "config"]
    BY <2>3, GuardStep
  <2>4. CASE (DropGuard(a) \/ Unlink(a)) /\ Closes(a)
    BY <2>4, ClosesStep
  <2>5. CASE /\ UNCHANGED <<path, listener, nextInode, own, guard, exposed>>
             /\ ~Binds(a) /\ ~Closes(a) /\ (Guard(a) => Fails(a)) /\ (Remove(a) => Fails(a))
    BY <1>2, <2>5, QuietStep
  <2>6. ASSUME NEW p, pc' = [pc EXCEPT ![a] = p], p \in Places \ {"protect", "off", "drop"}
        PROVE  ~Binds(a) /\ ~Closes(a)
    <3>1. pc'[a] = p
      BY <2>6 DEF SocketInv, SocketTypeOK
    <3>2. Binds(a) => pc'[a] = "protect"
      BY DEF SocketInv, SocketTypeOK, Binds
    <3>3. Closes(a) => pc'[a] \in {"drop", "off"}
      BY DEF SocketInv, SocketTypeOK, Closes
    <3> QED
      BY <2>6, <3>1, <3>2, <3>3
  <2>7. Fails(a) => ~Binds(a) /\ ~Closes(a)
    <3>1. Fails(a) => pc'[a] = "drop" /\ sock'[a] = "control"
      BY DEF SocketInv, SocketTypeOK, Fails
    <3>2. Binds(a) => pc'[a] = "protect"
      BY DEF SocketInv, SocketTypeOK, Binds
    <3>3. Closes(a) => sock'[a] = "agent"
      BY DEF SocketInv, SocketTypeOK, Closes
    <3> QED
      BY <3>1, <3>2, <3>3
  <2>8. CASE Start(a) \/ Inspect(a) \/ Probe(a) \/ Protect(a) \/ LoadConfig(a)
    <3>1. ~Binds(a) /\ ~Closes(a)
      BY <2>6, <2>7, <2>8 DEF Start, Inspect, Probe, Protect, LoadConfig, Places
    <3>2. ~Guard(a) /\ ~Remove(a) /\ UNCHANGED <<path, listener, nextInode, own, guard, exposed>>
      BY <2>8 DEF Start, Inspect, Probe, Protect, LoadConfig, Guard, Remove
    <3> QED
      BY <2>5, <3>1, <3>2
  <2>9. CASE Bind(a) \/ Rebind(a)
    BY <2>1, <2>5, <2>6, <2>7, <2>9 DEF Bind, Rebind, Guard, Remove, Places
  <2>10. CASE Remove(a)
    BY <2>2, <2>5, <2>7, <2>10 DEF Remove, Guard
  <2>11. CASE Guard(a)
    BY <2>3, <2>5, <2>7, <2>11 DEF Remove, Guard
  <2>12. CASE DropGuard(a) \/ Unlink(a)
    BY <2>4, <2>5, <2>6, <2>12 DEF DropGuard, Unlink, Guard, Remove, Places
  <2> QED
    BY <1>2, <2>8, <2>9, <2>10, <2>11, <2>12 DEF StartStep
<1> QED
  BY <1>1, <1>2, KillStep DEF SocketNext

\* Neither the takeover of a stale socket nor the guard of a start that fails takes
\* a socket of a serving agent, however many start at the same time; only a
\* socket bound while another agent was about to act on the path can be lost.
THEOREM SocketsAlwaysKept == SocketSafety => []SocketsKept
<1>1. SocketInit => SocketInv
  <2>1. None \in [Sockets -> 0 .. MaxInodes] /\ \A t \in Sockets : None[t] = NoInode
    BY SocketAssumption DEF None, NoInode
  <2>2. MaxInodes \in Nat /\ 1 \in 1 .. MaxInodes + 1
    BY SocketAssumption
  <2>3. SocketInit => SocketTypeOK
    BY <2>1, <2>2 DEF SocketInit, SocketTypeOK, Sockets, Places
  <2>4. SocketInit => InodesFresh /\ OwnsListened /\ NotOwned
    BY <2>1 DEF SocketInit, InodesFresh, OwnsListened, NotOwned, NoInode, Sockets
  <2>5. SocketInit => SafeHeld
    BY <2>1 DEF SocketInit, SafeHeld, Safe
  <2> QED
    BY <2>3, <2>4, <2>5 DEF SocketInv
<1>2. SocketInv /\ [SocketNext]_socketVars => SocketInv'
  BY SocketStep
<1>3. SocketInv => SocketsKept
  BY DEF SocketInv, SafeHeld, Safe, SocketsKept
<1> QED
  BY <1>1, <1>2, <1>3, PTL DEF SocketSafety
=============================================================================
