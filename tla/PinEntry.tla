------------------------------ MODULE PinEntry ------------------------------
(***************************************************************************)
(* How a command of the CLI gets a PIN: from /dev/tty with echo off, from  *)
(* standard input, or from pinentry-gnome3 over the Assuan protocol.  The  *)
(* PIN is bytes; lines of pinentry are classified, with their data bytes.  *)
(* The terminal, the dialog and the user are external.                     *)
(***************************************************************************)
EXTENDS Integers, Sequences, SequencesExt

CONSTANTS MinPin,   \* 6 in validate_pin
          MaxPin,   \* MAX_PIN_BYTES
          Lines,    \* what the user may enter, as bytes, with or without LF
          Secrets   \* what the user may enter in the dialog

Byte == 0 .. 255

ASSUME PinAssumption ==
    /\ MinPin \in Nat \ {0} /\ MaxPin \in Nat /\ MinPin <= MaxPin
    /\ Lines \subseteq Seq(Byte) /\ Secrets \subseteq Seq(Byte)

LF == 10
CR == 13
Percent == 37

Some(bytes) == [ok |-> TRUE, bytes |-> bytes]
NoPin == [ok |-> FALSE, bytes |-> <<>>]

PopIf(bytes, b) == IF bytes # <<>> /\ Last(bytes) = b THEN Front(bytes) ELSE bytes

\* read_until(b'\n') on at most limit bytes.
Line(bytes, limit) ==
    LET bound == SubSeq(bytes, 1, IF Len(bytes) < limit THEN Len(bytes) ELSE limit)
        at == SelectInSeq(bound, LAMBDA b : b = LF)
    IN IF at = 0 THEN bound ELSE SubSeq(bound, 1, at)

validate_pin(bytes) == IF Len(bytes) \in MinPin .. MaxPin THEN Some(bytes) ELSE NoPin

\* Fault: no room for the line end, so that a long line is cut to a valid PIN.
read_pin_line_Truncates(bytes) ==
    validate_pin(PopIf(PopIf(Line(bytes, MaxPin), LF), CR))

\* Two bytes of room for CR LF: a longer line is cut, and then refused.
read_pin_line(bytes) == validate_pin(PopIf(PopIf(Line(bytes, MaxPin + 2), LF), CR))

hex_digit(b) == IF b \in 48 .. 57 THEN b - 48
                ELSE IF b \in 65 .. 70 THEN b - 55
                ELSE IF b \in 97 .. 102 THEN b - 87 ELSE -1

\* append_assuan_data: %XX is a byte, and the output is bounded.  The digits of
\* an unfinished escape are in hold; an escape cut by the end is an error.
append_assuan_data(input, output) ==
    LET Push(st, b) == IF Len(st.out) >= MaxPin THEN [st EXCEPT !.ok = FALSE]
                       ELSE [st EXCEPT !.out = Append(@, b), !.hold = <<>>]
        Step(st, b) ==
            IF ~st.ok THEN st
            ELSE IF st.hold = <<>> /\ b # Percent THEN Push(st, b)
            ELSE IF Len(st.hold) < 2 THEN [st EXCEPT !.hold = Append(@, b)]
            ELSE LET high == hex_digit(st.hold[2])
                     low == hex_digit(b)
                 IN IF high < 0 \/ low < 0 THEN [st EXCEPT !.ok = FALSE]
                    ELSE Push(st, 16 * high + low)
        end == FoldLeft(Step, [ok |-> TRUE, out |-> output, hold |-> <<>>], input)
    IN IF end.ok /\ end.hold = <<>> THEN Some(end.out) ELSE NoPin

\* read_pinentry_response: data until OK; ERR, a line of any other kind, and a
\* line that is too long or cut off are errors.
read_pinentry_response(lines) ==
    LET Step(st, l) ==
            IF st.done THEN st
            ELSE IF l.kind = "OK" THEN [st EXCEPT !.done = TRUE]
            ELSE IF l.kind = "S" THEN st
            ELSE IF l.kind # "D" THEN [done |-> TRUE, got |-> NoPin]
            ELSE LET more == append_assuan_data(l.data, st.got.bytes)
                 IN [done |-> ~more.ok, got |-> more]
        end == FoldLeft(Step, [done |-> FALSE, got |-> Some(<<>>)], lines)
    IN IF end.done THEN end.got ELSE NoPin

SecretInput == {"Auto", "Terminal", "Pinentry", "Stdin"}

resolve_secret_input(option, graphical) ==
    IF option # "Auto" THEN option ELSE IF graphical THEN "Pinentry" ELSE "Terminal"

VARIABLES
    pc,       \* where the command is
    cmd,      \* the command: "exec", "authorize" or "create"
    input,    \* the resolved SecretInput: "Terminal", "Pinentry" or "Stdin"
    tty,      \* the terminal: "echo", "hidden", or "gone" after a hang-up
    dialog,   \* pinentry: "none", "running", "exited"
    told,     \* responses of the dialog read so far
    exitOk,   \* the dialog exited with success
    stdin,    \* what is left of standard input
    typed,    \* auxiliary: what the user entered, per question
    pins,     \* the PINs read so far
    pin       \* the result of the question under way

pinVars == <<pc, cmd, input, tty, dialog, told, exitOk, stdin, typed, pins, pin>>

Line1(kind, data) == [kind |-> kind, data |-> data]

\* SETTIMEOUT, SETTITLE, SETDESC, SETPROMPT, SETOK, SETCANCEL after the greeting,
\* and SETREPEAT for a new PIN.
Responses == IF cmd = "create" THEN 8 ELSE 7

\* What the dialog may answer to a setting: OK, or something that ends the talk.
Settings == {<<Line1("OK", <<>>)>>,
             <<Line1("S", <<>>), Line1("OK", <<>>)>>,
             <<Line1("D", <<1>>), Line1("OK", <<>>)>>,
             <<Line1("ERR", <<>>)>>,
             <<Line1("other", <<>>)>>,
             <<>>}

\* Assuan escapes for a PIN, all of it or only what must be escaped.
HexOf(n) == IF n < 10 THEN 48 + n ELSE 55 + n
Escaped(b) == <<Percent, HexOf(b \div 16), HexOf(b % 16)>>
Escape(bytes, all) ==
    FlattenSeq([i \in DOMAIN bytes |->
                  IF all \/ bytes[i] \in {Percent, CR, LF} THEN Escaped(bytes[i])
                  ELSE <<bytes[i]>>])

\* The answers to GETPIN that carry a secret, in one or in two lines of data.
DataLines(secret) ==
    {<<Line1("D", Escape(secret, all)), Line1("OK", <<>>)>> : all \in BOOLEAN}
      \cup {<<Line1("D", Escape(SubSeq(secret, 1, n), FALSE)),
              Line1("D", Escape(SubSeq(secret, n + 1, Len(secret)), FALSE)),
              Line1("OK", <<>>)>> : n \in 0 .. Len(secret)}

\* What the dialog escapes and splits is the secret again, or it is refused.
AssuanRoundTrips ==
    /\ \A secret \in Secrets : \A reply \in DataLines(secret) :
         read_pinentry_response(reply) \in {Some(secret), NoPin}
    /\ read_pinentry_response(<<Line1("OK", <<>>)>>) = Some(<<>>)

-----------------------------------------------------------------------------
(* The end of a question.  read_new_pin asks twice, except the dialog, which
   compares by itself, and both answers must agree.                        *)

Answered(got) ==
    IF ~got.ok THEN pc' = "error" /\ UNCHANGED pins
    ELSE /\ pins' = Append(pins, got.bytes)
         /\ pc' = IF cmd = "create" /\ input # "Pinentry" /\ Len(pins) = 0 THEN "ask"
                  ELSE IF \E p \in ToSet(pins) : p # got.bytes THEN "error"
                  ELSE "have pin"

-----------------------------------------------------------------------------
(* read_secret_from_tty                                                    *)

\* Open, write the prompt, tcgetattr, and tcsetattr without ECHO, which also
\* discards what was typed ahead.
HideEcho ==
    /\ pc = "ask" /\ input = "Terminal"
    /\ IF tty = "gone" THEN pc' = "error" /\ UNCHANGED tty
       ELSE pc' = "hidden" /\ tty' = "hidden"
    /\ UNCHANGED <<cmd, input, dialog, told, exitOk, stdin, typed, pins, pin>>

\* Fault: an invalid PIN returns before the terminal is restored.
ReadTerminal_EarlyReturn ==
    /\ pc = "hidden"
    /\ \E line \in IF tty = "gone" THEN {<<>>} ELSE Lines :
         /\ typed' = Append(typed, line)
         /\ pin' = read_pin_line(line)
    /\ pc' = IF pin'.ok THEN "restore" ELSE "error"
    /\ UNCHANGED <<cmd, input, tty, dialog, told, exitOk, stdin, pins>>

\* read_pin_line blocks until the user ends the line; there is no timeout, and
\* a handled signal restarts the read.
ReadTerminal ==
    /\ pc = "hidden"
    /\ \E line \in IF tty = "gone" THEN {<<>>} ELSE Lines :
         /\ typed' = Append(typed, line)
         /\ pin' = read_pin_line(line)
    /\ pc' = "restore"
    /\ UNCHANGED <<cmd, input, tty, dialog, told, exitOk, stdin, pins>>

\* tcsetattr back, whatever was read; its error comes first.
RestoreEcho ==
    /\ pc = "restore"
    /\ IF tty = "gone" THEN pc' = "error" /\ UNCHANGED <<tty, pins>>
       ELSE tty' = "echo" /\ Answered(pin)
    /\ UNCHANGED <<cmd, input, dialog, told, exitOk, stdin, typed, pin>>

\* --pin-stdin: a line of the same reader per question.
ReadStdin ==
    /\ pc = "ask" /\ input = "Stdin"
    /\ typed' = Append(typed, stdin)
    /\ stdin' = SubSeq(stdin, Len(Line(stdin, MaxPin + 2)) + 1, Len(stdin))
    /\ pin' = read_pin_line(stdin)
    /\ Answered(pin')
    /\ UNCHANGED <<cmd, input, tty, dialog, told, exitOk>>

-----------------------------------------------------------------------------
(* read_secret_from_pinentry                                               *)

SpawnDialog ==
    /\ pc = "ask" /\ input = "Pinentry"
    /\ \/ pc' = "configure" /\ dialog' = "running" /\ told' = 0
       \/ pc' = "error" /\ UNCHANGED <<dialog, told>>  \* not installed
    /\ UNCHANGED <<cmd, input, tty, exitOk, stdin, typed, pins, pin>>

\* The greeting and the settings: each is answered by OK without data.
Configure ==
    /\ pc = "configure"
    /\ \E reply \in IF dialog = "running" THEN Settings ELSE {<<>>} :
         /\ pin' = IF read_pinentry_response(reply) = Some(<<>>)
                   THEN Some(<<>>) ELSE NoPin
         /\ told' = told + 1
         /\ pc' = IF ~pin'.ok THEN "close"
                  ELSE IF told' = Responses THEN "get pin" ELSE "configure"
    /\ UNCHANGED <<cmd, input, tty, dialog, exitOk, stdin, typed, pins>>

\* GETPIN: the PIN, nothing at all, or ERR for Cancel and for the timeout.
GetPin ==
    /\ pc = "get pin"
    /\ \/ /\ dialog = "running"
          /\ \E secret \in Secrets : \E reply \in DataLines(secret) :
               pin' = read_pinentry_response(reply) /\ typed' = Append(typed, secret)
       \/ /\ dialog = "running"
          /\ pin' = read_pinentry_response(<<Line1("OK", <<>>)>>)
          /\ typed' = Append(typed, <<>>)
       \/ pin' = NoPin /\ typed' = Append(typed, <<>>)
    /\ pc' = "close"
    /\ UNCHANGED <<cmd, input, tty, dialog, told, exitOk, stdin, pins>>

\* Drop the pipes, and kill the dialog after an error.
CloseDialog ==
    /\ pc = "close"
    /\ pc' = "wait"
    /\ IF ~pin.ok /\ dialog = "running"
       THEN dialog' = "exited" /\ exitOk' = FALSE
       ELSE UNCHANGED <<dialog, exitOk>>
    /\ UNCHANGED <<cmd, input, tty, told, stdin, typed, pins, pin>>

\* External: the dialog ends, at the end of its input or by itself.
DialogExits ==
    /\ dialog = "running"
    /\ dialog' = "exited" /\ exitOk' \in BOOLEAN
    /\ UNCHANGED <<pc, cmd, input, tty, told, stdin, typed, pins, pin>>

\* wait, then the result of the talk, the status and the length.
WaitDialog ==
    /\ pc = "wait" /\ dialog = "exited"
    /\ dialog' = "none"
    /\ Answered(IF pin.ok /\ exitOk THEN validate_pin(pin.bytes) ELSE NoPin)
    /\ UNCHANGED <<cmd, input, tty, told, exitOk, stdin, typed, pin>>

PromptStep == \/ HideEcho \/ ReadTerminal \/ RestoreEcho \/ ReadStdin
              \/ SpawnDialog \/ Configure \/ GetPin \/ CloseDialog \/ WaitDialog

-----------------------------------------------------------------------------
(* What was entered: the line without its end, or the secret.              *)
Entered(bytes) ==
    IF input = "Pinentry" THEN bytes
    ELSE PopIf(PopIf(Line(bytes, Len(bytes)), LF), CR)

\* A PIN is used whole or refused: it is never a part of what the user entered,
\* however long that was and however the bytes were escaped and split, and both
\* entries of a new PIN are the same.
PinWhole ==
    pc = "have pin" =>
      /\ Len(pins) = Len(typed)
      /\ \A i \in DOMAIN pins : /\ pins[i] = Entered(typed[i]) /\ pins[i] = pins[1]
                                /\ Len(pins[i]) \in MinPin .. MaxPin
=============================================================================
