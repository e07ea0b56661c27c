--------------------------- MODULE SocketLifecycle ---------------------------
(***************************************************************************)
(* How an agent comes to own its two sockets: `serve` up to the accept     *)
(* loops, with bind_socket's takeover of a stale socket, and SocketGuard,  *)
(* which removes the sockets of an agent that fails to start.  A serving   *)
(* agent never returns from its accept loop; it ends by being killed, and  *)
(* then its sockets stay behind, stale.                                    *)
(*                                                                         *)
(* Several processes act on the two paths without any lock, one system     *)
(* call at a time, and nothing keeps two of them from starting together.   *)
(* A socket file is its inode, and inodes are not reused.                  *)
(* Paths that are no sockets, and directories that are not private, fail   *)
(* the start before it touches a path and are left out.                    *)
(***************************************************************************)
EXTENDS Naturals

CONSTANTS Agents,
          NoAgent,
          MaxInodes     \* bound: sockets bound in a behaviour

ASSUME SocketAssumption == NoAgent \notin Agents /\ MaxInodes \in Nat

Sockets == {"agent", "control"}
Inodes == 1 .. MaxInodes
NoInode == 0

VARIABLES
    path,      \* the inode under each path
    listener,  \* the process with the listening end of an inode
    nextInode,
    pc,        \* where each agent is
    sock,      \* the socket it binds or drops
    own,       \* the inodes it bound
    guard,     \* the inodes its SocketGuards remember
    exposed    \* auxiliary: the inodes bound into another agent's window

socketVars == <<path, listener, nextInode, pc, sock, own, guard, exposed>>

None == [s \in Sockets |-> NoInode]

SocketInit ==
    /\ path = None
    /\ listener = [n \in Inodes |-> NoAgent]
    /\ nextInode = 1
    /\ pc = [a \in Agents |-> "off"]
    /\ sock = [a \in Agents |-> "agent"]
    /\ own = [a \in Agents |-> None]
    /\ guard = [a \in Agents |-> None]
    /\ exposed = {}

\* The process comes to life; with socket activation it finds the agent socket
\* bound by systemd and has only the control socket to bind.
Start(a) ==
    /\ pc[a] = "off"
    /\ pc' = [pc EXCEPT ![a] = "bind"]
    /\ \E s \in Sockets : sock' = [sock EXCEPT ![a] = s]
    /\ UNCHANGED <<path, listener, nextInode, own, guard, exposed>>

\* serve returns an error: what it has is dropped, the control socket first.
Fails(a) ==
    /\ pc' = [pc EXCEPT ![a] = "drop"]
    /\ sock' = [sock EXCEPT ![a] = "control"]

\* Agent b acts on a path by what it saw there before: it found a stale socket to
\* remove, or its own to guard, or to unlink.
InWindow(b, s) == sock[b] = s /\ pc[b] \in {"remove", "protect", "guard", "unlink"}

\* UnixListener::bind on a free path.
Binds(a) ==
    /\ path[sock[a]] = NoInode
    /\ nextInode \in Inodes
    /\ nextInode' = nextInode + 1
    /\ path' = [path EXCEPT ![sock[a]] = nextInode]
    /\ listener' = [listener EXCEPT ![nextInode] = a]
    /\ own' = [own EXCEPT ![a][sock[a]] = nextInode]
    /\ exposed' = IF \E b \in Agents \ {a} : InWindow(b, sock[a])
                  THEN exposed \cup {nextInode} ELSE exposed
    /\ pc' = [pc EXCEPT ![a] = "protect"]

Bind(a) ==
    /\ pc[a] = "bind"
    /\ \/ Binds(a)
       \/ /\ path[sock[a]] # NoInode     \* AddrInUse
          /\ pc' = [pc EXCEPT ![a] = "inspect"]
          /\ UNCHANGED <<path, listener, nextInode, own, exposed>>
    /\ UNCHANGED <<sock, guard>>

\* symlink_metadata: an error when the path is gone again.
Inspect(a) ==
    /\ pc[a] = "inspect"
    /\ \/ path[sock[a]] = NoInode /\ Fails(a)
       \/ path[sock[a]] # NoInode /\ pc' = [pc EXCEPT ![a] = "probe"] /\ UNCHANGED sock
    /\ UNCHANGED <<path, listener, nextInode, own, guard, exposed>>

Listening(s) == path[s] # NoInode /\ listener[path[s]] # NoAgent

\* UnixStream::connect: "another Keyvisor agent is already running".
Probe(a) ==
    /\ pc[a] = "probe"
    /\ \/ Listening(sock[a]) /\ Fails(a)
       \/ ~Listening(sock[a]) /\ pc' = [pc EXCEPT ![a] = "remove"] /\ UNCHANGED sock
    /\ UNCHANGED <<path, listener, nextInode, own, guard, exposed>>

\* remove_file takes away whatever is under the path by now.
Remove(a) ==
    /\ pc[a] = "remove"
    /\ \/ path[sock[a]] = NoInode /\ Fails(a) /\ UNCHANGED path
       \/ /\ path[sock[a]] # NoInode
          /\ path' = [path EXCEPT ![sock[a]] = NoInode]
          /\ pc' = [pc EXCEPT ![a] = "rebind"]
          /\ UNCHANGED sock
    /\ UNCHANGED <<listener, nextInode, own, guard, exposed>>

Rebind(a) ==
    /\ pc[a] = "rebind"
    /\ \/ Binds(a) /\ UNCHANGED sock
       \/ /\ path[sock[a]] # NoInode /\ Fails(a)
          /\ UNCHANGED <<path, listener, nextInode, own, exposed>>
    /\ UNCHANGED guard

\* set_permissions goes by the path.
Protect(a) ==
    /\ pc[a] = "protect"
    /\ \/ path[sock[a]] = NoInode /\ Fails(a)
       \/ path[sock[a]] # NoInode /\ pc' = [pc EXCEPT ![a] = "guard"] /\ UNCHANGED sock
    /\ UNCHANGED <<path, listener, nextInode, own, guard, exposed>>

\* The SocketGuard remembers the inode that is under the path now; the agent
\* goes on to its control socket and to its configuration.
Guard(a) ==
    /\ pc[a] = "guard"
    /\ \/ path[sock[a]] = NoInode /\ Fails(a) /\ UNCHANGED guard
       \/ /\ path[sock[a]] # NoInode
          /\ guard' = [guard EXCEPT ![a][sock[a]] = path[sock[a]]]
          /\ pc' = [pc EXCEPT ![a] = IF sock[a] = "agent" THEN "bind" ELSE "config"]
          /\ sock' = [sock EXCEPT ![a] = "control"]
    /\ UNCHANGED <<path, listener, nextInode, own, exposed>>

\* The configuration is loaded and the control service started, or not.
LoadConfig(a) ==
    /\ pc[a] = "config"
    /\ Fails(a) \/ (pc' = [pc EXCEPT ![a] = "serving"] /\ UNCHANGED sock)
    /\ UNCHANGED <<path, listener, nextInode, own, guard, exposed>>

\* The listener of one socket is closed, then the next one is dropped.
Closes(a) ==
    /\ listener' = [n \in Inodes |-> IF n = own[a][sock[a]] THEN NoAgent ELSE listener[n]]
    /\ own' = [own EXCEPT ![a][sock[a]] = NoInode]
    /\ guard' = [guard EXCEPT ![a][sock[a]] = NoInode]
    /\ pc' = [pc EXCEPT ![a] = IF sock[a] = "control" THEN "drop" ELSE "off"]
    /\ sock' = [sock EXCEPT ![a] = "agent"]

\* Fault: the guard removes its path without looking.
DropGuard_Unconditional(a) ==
    /\ pc[a] = "drop"
    /\ path' = [path EXCEPT ![sock[a]] = NoInode]
    /\ Closes(a)
    /\ UNCHANGED <<nextInode, exposed>>

\* SocketGuard::drop compares the inode under the path with its own.
DropGuard(a) ==
    /\ pc[a] = "drop"
    /\ \/ /\ guard[a][sock[a]] # NoInode
          /\ path[sock[a]] = guard[a][sock[a]]
          /\ pc' = [pc EXCEPT ![a] = "unlink"]
          /\ UNCHANGED <<listener, sock, own, guard>>
       \/ /\ guard[a][sock[a]] = NoInode \/ path[sock[a]] # guard[a][sock[a]]
          /\ Closes(a)
    /\ UNCHANGED <<path, nextInode, exposed>>

\* and removes the path in a second system call.
Unlink(a) ==
    /\ pc[a] = "unlink"
    /\ path' = [path EXCEPT ![sock[a]] = NoInode]
    /\ Closes(a)
    /\ UNCHANGED <<nextInode, exposed>>

\* The process is killed: its listeners close, its sockets stay.
Kill(a) ==
    /\ pc[a] # "off"
    /\ pc' = [pc EXCEPT ![a] = "off"]
    /\ sock' = [sock EXCEPT ![a] = "agent"]
    /\ listener' = [n \in Inodes |-> IF listener[n] = a THEN NoAgent ELSE listener[n]]
    /\ own' = [own EXCEPT ![a] = None]
    /\ guard' = [guard EXCEPT ![a] = None]
    /\ UNCHANGED <<path, nextInode, exposed>>

StartStep(a) == \/ Bind(a) \/ Inspect(a) \/ Probe(a) \/ Remove(a) \/ Rebind(a)
                \/ Protect(a) \/ Guard(a) \/ LoadConfig(a)
                \/ DropGuard(a) \/ Unlink(a)

SocketNext == \E a \in Agents : Start(a) \/ StartStep(a) \/ Kill(a)

SocketSafety == SocketInit /\ [][SocketNext]_socketVars

-----------------------------------------------------------------------------
(* Properties.                                                             *)

\* Whatever other agents do, start, fail or die, all at the same time, a serving
\* agent keeps the sockets it bound: no start takes them over as stale, and the
\* guard of no start that fails removes them.  The sockets that can be lost are
\* those bound while another agent was between its own look at the path and
\* what it does there: connect and remove_file (main.rs:698-701), bind and
\* symlink_metadata (688-726), symlink_metadata and remove_file (767-771).
SocketsKept ==
    \A a \in Agents, s \in Sockets :
        (pc[a] = "serving" /\ own[a][s] \notin exposed \cup {NoInode}) => path[s] = own[a][s]
=============================================================================
