----------------------------- MODULE ExecWrapper -----------------------------
(***************************************************************************)
(* One run of `keyvisor exec`, with its child, its signals and the agent   *)
(* it polls, and of the two other commands that ask for a PIN: `keyvisor   *)
(* authorize ID` and `keyvisor key create`.                                *)
(*                                                                         *)
(* External: the child, which may exit at any time, ignore signals and     *)
(* have several requests pending; other clients of the agent, who have     *)
(* requests, too; the agent, which may stop or crash.                      *)
(***************************************************************************)
EXTENDS PinEntry, FiniteSets

CONSTANTS Own,      \* requests of the child
          Other,    \* requests of other programs
          MaxPending, \* MAX_PENDING_AUTHORIZATIONS
          Signals,  \* SIGHUP, SIGINT, SIGQUIT, SIGTERM
          Stdins    \* what standard input may hold

ASSUME ExecAssumption ==
    /\ Own \cap Other = {} /\ "HUP" \in Signals /\ MaxPending \in Nat \ {0}
    /\ Stdins \subseteq Seq(Byte)

VARIABLES
    child,    \* "none", "running", "zombie" or "reaped"
    flags,    \* exec: signals taken and not yet forwarded
    got,      \* signals the child received since exec took one
    agent,    \* "up", "off" (no socket), or "crashed" (a stale socket)
    pend,     \* the broker's pending requests
    asked,    \* the request the PIN is for
    status    \* how the command ended: "running", "ok", "child", "error", "killed"

vars == <<pinVars, child, flags, got, agent, pend, asked, status>>
agentVars == <<agent, pend>>
promptVars == <<input, tty, dialog, told, exitOk, stdin, typed, pins, pin>>

NoRequest == "none"

Init ==
    /\ pc = "start" /\ cmd \in {"exec", "authorize", "create"}
    /\ \E graphical \in BOOLEAN, option \in SecretInput :
         /\ cmd = "exec" => option = "Terminal"
         /\ input = resolve_secret_input(option, graphical)
    /\ tty = "echo" /\ dialog = "none" /\ told = 0 /\ exitOk = FALSE
    /\ stdin \in IF input = "Stdin" THEN Stdins ELSE {<<>>}
    /\ typed = <<>> /\ pins = <<>> /\ pin = NoPin
    /\ child = "none" /\ flags = {} /\ got = {}
    /\ agent \in {"up", "off"} /\ pend = {} /\ asked = NoRequest /\ status = "running"

End(how) == pc' = "ended" /\ status' = how
Go(where) == pc' = where /\ UNCHANGED status

\* fetch_authorization_requests: a LIST on the control socket.  No socket, one
\* nobody answers on, and a list that is too long are errors.
FetchRequests ==
    [ok |-> agent = "up" /\ Cardinality(pend) <= MaxPending, requests |-> pend]

\* fetch_authorization_requests_if_running: without a socket the list is empty.
FetchIfRunning == IF agent = "off" THEN [ok |-> TRUE, requests |-> {}] ELSE FetchRequests

-----------------------------------------------------------------------------
(* run_exec                                                                *)

\* No request may be pending before the child starts.
ExecStart ==
    /\ pc = "start" /\ cmd = "exec"
    /\ Go(IF FetchIfRunning = [ok |-> TRUE, requests |-> {}] THEN "install" ELSE "error")
    /\ UNCHANGED <<cmd, promptVars, child, flags, got, agentVars, asked>>

\* ForwardedSignals::install
Install ==
    /\ pc = "install" /\ (Go("spawn") \/ Go("error"))
    /\ UNCHANGED <<cmd, promptVars, child, flags, got, agentVars, asked>>

Spawn ==
    /\ pc = "spawn"
    /\ \/ Go("forward") /\ child' = "running"
       \/ Go("error") /\ UNCHANGED child
    /\ UNCHANGED <<cmd, promptVars, flags, got, agentVars, asked>>

\* A signal reaches a child that runs, which dies or lives on.
Hit(ss) ==
    /\ got' = got \cup ss
    /\ child' \in IF child = "running" /\ ss # {} THEN {"running", "zombie"} ELSE {child}

\* Fault: the flags are cleared and nothing is sent.
Forward_Drops ==
    /\ pc = "forward"
    /\ Go("poll") /\ flags' = {}
    /\ UNCHANGED <<cmd, promptVars, child, got, agentVars, asked>>

\* signals.forward
Forward ==
    /\ pc = "forward"
    /\ Go("poll") /\ flags' = {} /\ Hit(flags)
    /\ UNCHANGED <<cmd, promptVars, agentVars, asked>>

\* try_wait: exit with the status of the child, or look at the requests.
TryWait ==
    /\ pc = "poll"
    /\ IF child = "zombie" THEN End("child") /\ child' = "reaped"
       ELSE Go("fetch") /\ UNCHANGED child
    /\ UNCHANGED <<cmd, promptVars, flags, got, agentVars, asked>>

\* Fault: after an empty list the child is not looked at again.
Fetch_SkipsWait ==
    /\ pc = "fetch"
    /\ \/ /\ Cardinality(FetchIfRunning.requests) # 1 \/ ~FetchIfRunning.ok
          /\ Go(IF FetchIfRunning = [ok |-> TRUE, requests |-> {}] THEN "fetch" ELSE "error")
          /\ UNCHANGED <<asked, typed, pins>>
       \/ /\ Cardinality(FetchIfRunning.requests) = 1 /\ FetchIfRunning.ok
          /\ Go("ask") /\ asked' \in FetchIfRunning.requests
          /\ typed' = <<>> /\ pins' = <<>>
    /\ UNCHANGED <<cmd, input, tty, dialog, told, exitOk, stdin, pin,
                   child, flags, got, agentVars>>

\* None: sleep and loop.  One: ask for its PIN.  More: refuse to choose.
Fetch ==
    /\ pc = "fetch"
    /\ \/ /\ Cardinality(FetchIfRunning.requests) # 1 \/ ~FetchIfRunning.ok
          /\ Go(IF FetchIfRunning = [ok |-> TRUE, requests |-> {}] THEN "forward" ELSE "error")
          /\ UNCHANGED <<asked, typed, pins>>
       \/ /\ Cardinality(FetchIfRunning.requests) = 1 /\ FetchIfRunning.ok
          /\ Go("ask") /\ asked' \in FetchIfRunning.requests
          /\ typed' = <<>> /\ pins' = <<>>
    /\ UNCHANGED <<cmd, input, tty, dialog, told, exitOk, stdin, pin,
                   child, flags, got, agentVars>>

-----------------------------------------------------------------------------
(* run_authorize and create_key                                            *)

\* The request named in the arguments must be pending; without one, the requests
\* are listed.
AuthorizeStart ==
    /\ pc = "start" /\ cmd = "authorize"
    /\ \/ FetchRequests.ok /\ asked' \in FetchRequests.requests /\ Go("ask")
       \/ FetchRequests.ok /\ End("ok") /\ UNCHANGED asked
       \/ Go("error") /\ UNCHANGED asked
    /\ UNCHANGED <<cmd, promptVars, child, flags, got, agentVars>>

CreateStart ==
    /\ pc = "start" /\ cmd = "create"
    /\ Go("ask")
    /\ UNCHANGED <<cmd, promptVars, child, flags, got, agentVars, asked>>

\* The new PIN goes to the TPM.
CreateEnd ==
    /\ pc = "have pin" /\ cmd = "create"
    /\ End("ok")
    /\ UNCHANGED <<cmd, promptVars, child, flags, got, agentVars, asked>>

\* AUTHORIZE and its answer: the request may have ended during the prompt, and
\* the answer may be lost with the agent after it took the PIN.
Authorize ==
    /\ pc = "have pin" /\ cmd # "create"
    /\ \/ /\ agent = "up" /\ asked \in pend
          /\ pend' = pend \ {asked}
          /\ IF cmd = "exec" THEN Go("forward") ELSE End("ok")
          /\ UNCHANGED agent
       \/ /\ agent = "up" /\ asked \in pend
          /\ pend' = {} /\ agent' = "crashed" /\ Go("error")
       \/ /\ agent # "up" \/ asked \notin pend
          /\ Go("error") /\ UNCHANGED <<agent, pend>>
    /\ UNCHANGED <<cmd, promptVars, child, flags, got, asked>>

-----------------------------------------------------------------------------
(* The end of a command.                                                   *)

\* Fault: the child is asked to end, and not waited for.
Terminate_NoWait ==
    /\ pc = "error"
    /\ IF child = "running" THEN End("error") /\ Hit({"TERM"})
       ELSE End("error") /\ UNCHANGED <<child, got>>
    /\ UNCHANGED <<cmd, promptVars, flags, agentVars, asked>>

\* An error of a command; exec calls terminate_child first: SIGTERM, ...
Terminate ==
    /\ pc = "error"
    /\ IF child \in {"running", "zombie"} THEN Go("terminate") /\ Hit({"TERM"})
       ELSE End("error") /\ UNCHANGED <<child, got>>
    /\ UNCHANGED <<cmd, promptVars, flags, agentVars, asked>>

\* ... a second for try_wait, then SIGKILL and wait.
TerminateWait ==
    /\ pc = "terminate"
    /\ child' = "reaped" /\ End("error")
    /\ UNCHANGED <<cmd, promptVars, flags, got, agentVars, asked>>

ExecStep == \/ ExecStart \/ Install \/ Spawn \/ Forward \/ TryWait \/ Fetch
            \/ AuthorizeStart \/ CreateStart \/ CreateEnd \/ Authorize
            \/ Terminate \/ TerminateWait

-----------------------------------------------------------------------------
(* Signals, the child, other programs and the agent.                       *)

\* The registered handlers; every other signal ends the process where it is.
Handles(s) == cmd = "exec" /\ s \in Signals /\ pc \notin {"start", "install"}

\* A signal for the command alone, or from the terminal for its whole group.
Signal(s, group) ==
    /\ status = "running"
    /\ IF Handles(s) THEN /\ flags' = flags \cup {s}
                          /\ UNCHANGED <<pc, status>>
       ELSE End("killed") /\ UNCHANGED flags
    /\ IF group THEN Hit({s})
       ELSE got' = got \ {s} /\ UNCHANGED child
    /\ UNCHANGED <<cmd, input, dialog, told, exitOk, stdin, typed, pins, pin,
                   agentVars, asked>>

Interrupt == \E s \in Signals, group \in BOOLEAN : Signal(s, group) /\ UNCHANGED tty

\* The terminal goes away: SIGHUP for the group, and nothing left to restore.
HangUp == tty # "gone" /\ Signal("HUP", TRUE) /\ tty' = "gone"

ChildExits ==
    /\ child = "running" /\ child' = "zombie"
    /\ UNCHANGED <<pinVars, flags, got, agentVars, asked, status>>

Requests ==
    /\ agent = "up" /\ status = "running"
    /\ \E r \in Own \cup Other :
         \/ r \notin pend /\ (r \in Own => child = "running") /\ pend' = pend \cup {r}
         \/ r \in pend /\ pend' = pend \ {r}  \* answered elsewhere, cancelled, timed out
    /\ UNCHANGED <<pinVars, child, flags, got, agent, asked, status>>

AgentChanges ==
    /\ status = "running"
    /\ agent' \in {"up", "off", "crashed"} \ {agent} /\ pend' = {}
    /\ UNCHANGED <<pinVars, child, flags, got, asked, status>>

CommandStep == \/ ExecStep
               \/ PromptStep /\ UNCHANGED <<child, flags, got, agentVars, asked, status>>

DialogStep == DialogExits /\ UNCHANGED <<child, flags, got, agentVars, asked, status>>

Next == CommandStep \/ DialogStep \/ Interrupt \/ HangUp \/ ChildExits \/ Requests \/ AgentChanges

\* The command is scheduled, the user ends every line and every dialog (both
\* part of PromptStep), and a dialog without input ends.
ExecSpec == Init /\ [][Next]_vars /\ WF_vars(CommandStep) /\ WF_vars(DialogStep)

-----------------------------------------------------------------------------
(* Properties.                                                             *)

\* exec never ends before its child, by whatever error or signal once the child
\* runs, and no command that ends by itself leaves a dialog.
NothingLeftRunning ==
    status # "running" =>
      /\ child \in {"none", "reaped"}
      /\ status # "killed" => dialog = "none"

\* The terminal echoes again when exec is done, whatever ended it, and when any
\* other command ended by itself.
EchoRestored ==
    /\ status \notin {"running", "killed"} => tty # "hidden"
    /\ status = "killed" /\ cmd = "exec" => tty # "hidden"

\* A signal sent to exec alone reaches the child, unless the child or exec is
\* over first; a prompt only delays it.
SignalsForwarded ==
    \A s \in Signals :
      s \in flags /\ child = "running" ~> s \in got \/ child # "running" \/ status # "running"

\* exec does not outlive its child for ever: not for the agent, and for its
\* prompt no longer than the user takes to answer it.
ExecEnds == child = "zombie" ~> status # "running"

\* "Starting with an empty queue and accepting only a single request avoids
\* selecting among unrelated concurrent uses": exec hands a PIN over for
\* requests of its own child only.
AnswersOnlyOwn ==
    [][cmd = "exec" /\ pc = "have pin" /\ asked \in pend /\ asked \notin pend'
         /\ pc' # pc => asked \in Own]_vars
=============================================================================
