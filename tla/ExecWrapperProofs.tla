-------------------------- MODULE ExecWrapperProofs --------------------------
(***************************************************************************)
(* Proofs about exec, authorize and key create: a command that is over has *)
(* left no child, no dialog and no silent terminal behind, and a PIN is    *)
(* used whole or not at all.  They hold for any set of signals, requests   *)
(* and entries, and for every limit of a PIN.                              *)
(***************************************************************************)
EXTENDS ExecWrapper, SequenceTheorems, WellFoundedInduction, TLAPS

-----------------------------------------------------------------------------
(* The inductive invariants.                                               *)

Talking == {"configure", "get pin", "close", "wait"}
Places == {"start", "install", "spawn", "forward", "poll", "fetch", "ask", "hidden",
           "restore", "have pin", "error", "terminate", "ended"} \cup Talking

ExecTypeOK ==
    /\ pc \in Places /\ cmd \in {"exec", "authorize", "create"}
    /\ input \in {"Terminal", "Pinentry", "Stdin"}
    /\ tty \in {"echo", "hidden", "gone"} /\ dialog \in {"none", "running", "exited"}
    /\ child \in {"none", "running", "zombie", "reaped"}
    /\ status \in {"running", "ok", "child", "error", "killed"}
    /\ pc = "ended" <=> status # "running"

\* Only exec has a child, once it has handlers for the signals, and it ends after
\* it has waited for the child.
ChildWaited ==
    /\ child # "none" => cmd = "exec" /\ pc \notin {"start", "install", "spawn"}
    /\ pc \in {"install", "spawn", "terminate"} => cmd = "exec"
    /\ pc = "ended" => child \in {"none", "reaped"}

\* A dialog belongs to a talk, an echo that is off to a question; only a signal
\* that ends a command other than exec leaves them.
DialogWaited == dialog # "none" => pc \in Talking \/ status = "killed"
EchoOff == tty = "hidden" => \/ pc \in {"hidden", "restore"}
                             \/ status = "killed" /\ cmd # "exec"
Waited == ExecTypeOK /\ ChildWaited /\ DialogWaited /\ EchoOff

\* The answers so far, each the whole of what was entered, and all the same.
Matched ==
    /\ Len(pins) <= Len(typed)
    /\ \A i \in DOMAIN pins : /\ pins[i] = Entered(typed[i]) /\ pins[i] = pins[1]
                              /\ Len(pins[i]) \in MinPin .. MaxPin

\* Every question but the one under way has its answer.
PinsMatched ==
    /\ stdin \in Seq(Byte) /\ typed \in Seq(Seq(Byte)) /\ pins \in Seq(Seq(Byte))
    /\ pc = "start" => typed = <<>> /\ pins = <<>>
    /\ pc \in {"ask", "hidden", "configure", "get pin", "have pin"} =>
         Matched /\ Len(typed) = Len(pins)
    /\ pc = "restore" =>
         Matched /\ Len(typed) = Len(pins) + 1 /\ pin = read_pin_line(Last(typed))
    /\ pc \in {"close", "wait"} /\ pin.ok =>
         Matched /\ Len(typed) = Len(pins) + 1 /\ pin.bytes \in {Last(typed), <<>>}
    /\ pc \in {"hidden", "restore"} => input = "Terminal"
    /\ pc \in Talking => input = "Pinentry"

-----------------------------------------------------------------------------
(* The child, the dialog and the terminal.                                  *)

\* The end of a question leads to the next one, to the PIN or to an error.
LEMMA AnsweredGoes ==
    ASSUME NEW got1, Answered(got1)
    PROVE  pc' \in {"error", "ask", "have pin"}
  BY DEF Answered

\* The steps of a prompt keep what they find of the child, and end the dialog
\* and restore the terminal before they are left.
LEMMA PromptWaited ==
    ASSUME Waited, PromptStep, UNCHANGED <<child, status>>
    PROVE  Waited'
<1> USE DEF Waited, ExecTypeOK, ChildWaited, DialogWaited, EchoOff, Places, Talking
<1>1. CASE HideEcho
  BY <1>1 DEF HideEcho
<1>2. CASE ReadTerminal
  BY <1>2 DEF ReadTerminal
<1>3. CASE RestoreEcho
  BY <1>3, AnsweredGoes DEF RestoreEcho
<1>4. CASE ReadStdin
  BY <1>4, AnsweredGoes DEF ReadStdin
<1>5. CASE SpawnDialog
  BY <1>5 DEF SpawnDialog
<1>6. CASE Configure
  BY <1>6 DEF Configure
<1>7. CASE GetPin
  BY <1>7 DEF GetPin
<1>8. CASE CloseDialog
  BY <1>8 DEF CloseDialog
<1>9. CASE WaitDialog
  BY <1>9, AnsweredGoes DEF WaitDialog
<1> QED
  BY <1>1, <1>2, <1>3, <1>4, <1>5, <1>6, <1>7, <1>8, <1>9 DEF PromptStep

\* The steps of a command: exec ends without a child, or after it.
LEMMA CommandWaited ==
    ASSUME Waited, ExecStep
    PROVE  Waited'
<1> USE DEF Waited, ExecTypeOK, ChildWaited, DialogWaited, EchoOff, Places, Talking,
            Go, End, Hit, promptVars
<1>1. CASE ExecStart
  BY <1>1 DEF ExecStart
<1>2. CASE Install
  BY <1>2 DEF Install
<1>3. CASE Spawn
  BY <1>3 DEF Spawn
<1>4. CASE Forward
  BY <1>4 DEF Forward
<1>5. CASE TryWait
  BY <1>5 DEF TryWait
<1>6. CASE Fetch
  BY <1>6 DEF Fetch
<1>7. CASE AuthorizeStart
  BY <1>7 DEF AuthorizeStart
<1>8. CASE CreateStart
  BY <1>8 DEF CreateStart
<1>9. CASE CreateEnd
  BY <1>9 DEF CreateEnd
<1>10. CASE Authorize
  BY <1>10 DEF Authorize
<1>11. CASE Terminate
  BY <1>11 DEF Terminate
<1>12. CASE TerminateWait
  BY <1>12 DEF TerminateWait
<1> QED
  BY <1>1, <1>2, <1>3, <1>4, <1>5, <1>6, <1>7, <1>8, <1>9, <1>10, <1>11, <1>12 DEF ExecStep

\* A signal is taken by exec as soon as there may be a child, and otherwise ends
\* a command that has none.
LEMMA SignalWaited ==
    ASSUME Waited, NEW s \in Signals, NEW group \in BOOLEAN, Signal(s, group),
           tty' \in {tty, "gone"}
    PROVE  Waited'
<1> USE DEF Waited, ExecTypeOK, ChildWaited, DialogWaited, EchoOff, Places, Talking,
            Hit, End, Signal
<1>1. CASE Handles(s)
  BY <1>1, ZenonT(60) DEF Handles
<1>2. CASE ~Handles(s)
  <2>1. child = "none" /\ (cmd = "exec" => tty # "hidden")
    BY <1>2 DEF Handles
  <2> QED
    BY <1>2, <2>1
<1> QED
  BY <1>1, <1>2

\* Every step keeps Waited.
LEMMA WaitedStep ==
    ASSUME Waited, [Next]_vars
    PROVE  Waited'
<1> USE DEF Waited, ExecTypeOK, ChildWaited, DialogWaited, EchoOff
<1>1. CASE UNCHANGED vars
  BY <1>1 DEF vars, pinVars
<1>2. CASE CommandStep
  BY <1>2, PromptWaited, CommandWaited DEF CommandStep
<1>3. CASE DialogStep
  BY <1>3 DEF DialogStep, DialogExits
<1>4. CASE Interrupt
  BY <1>4, SignalWaited DEF Interrupt
<1>5. CASE HangUp
  BY <1>5, SignalWaited, ExecAssumption DEF HangUp
<1>6. CASE ChildExits \/ Requests \/ AgentChanges
  BY <1>6 DEF ChildExits, Requests, AgentChanges, pinVars
<1> QED
  BY <1>1, <1>2, <1>3, <1>4, <1>5, <1>6 DEF Next

\* Waited holds in every reachable state.
LEMMA AlwaysWaited == ExecSpec => []Waited
<1>1. Init => Waited
  BY DEF Init, Waited, ExecTypeOK, ChildWaited, DialogWaited, EchoOff, Places, Talking,
     resolve_secret_input, SecretInput
<1>2. Waited /\ [Next]_vars => Waited'
  BY WaitedStep
<1> QED
  BY <1>1, <1>2, PTL DEF ExecSpec

\* exec never ends before its child, and no command that ends by itself leaves a
\* dialog.
THEOREM ExecNothingLeftRunning == ExecSpec => []NothingLeftRunning
<1>1. Waited => NothingLeftRunning
  BY DEF Waited, ExecTypeOK, ChildWaited, DialogWaited, Talking, NothingLeftRunning
<1> QED
  BY <1>1, AlwaysWaited, PTL

\* The terminal echoes again when a command is done, for exec also when a signal
\* ended it.
THEOREM ExecEchoRestored == ExecSpec => []EchoRestored
<1>1. Waited => EchoRestored
  BY DEF Waited, ExecTypeOK, EchoOff, EchoRestored
<1> QED
  BY <1>1, AlwaysWaited, PTL

-----------------------------------------------------------------------------
(* A line and the PIN in it.                                                *)

\* A set of numbers has a least one, which is the one Min chooses.
LEMMA Smallest ==
    ASSUME NEW I \in SUBSET Nat, I # {}
    PROVE  Min(I) \in I /\ \A j \in I : Min(I) <= j
<1>1. IsWellFoundedOn(OpToRel(<, Nat), Nat)
  BY NatLessThanWellFounded
<1>2. PICK x \in I : \A y \in I : ~(<<y, x>> \in OpToRel(<, Nat))
  BY <1>1, WFMin
<1>3. \A y \in I : ~(y < x)
  <2>1. \A a, b \in Nat : <<b, a>> \in OpToRel(<, Nat) <=> b < a
    BY DEF OpToRel
  <2> QED
    BY <1>2, <2>1, Zenon
<1>4. \A y \in I : x <= y
  BY <1>3
<1> QED
  BY <1>4 DEF Min

\* read_until takes the bytes up to the first LF, the end or the limit.
LEMMA LineIs ==
    ASSUME NEW bytes \in Seq(Byte), NEW limit \in Nat
    PROVE  \E k \in 0 .. Len(bytes) :
             /\ k <= limit /\ Line(bytes, limit) = SubSeq(bytes, 1, k)
             /\ \A i \in 1 .. k - 1 : bytes[i] # LF
             /\ \/ k > 0 /\ bytes[k] = LF
                \/ k \in {limit, Len(bytes)} /\ (k > 0 => bytes[k] # LF)
<1> DEFINE m == IF Len(bytes) < limit THEN Len(bytes) ELSE limit
           bound == SubSeq(bytes, 1, m)
           I == {i \in 1 .. Len(bound) : bound[i] = LF}
<1>1. /\ Len(bytes) \in Nat /\ m \in 0 .. Len(bytes) /\ m <= limit
      /\ m \in {limit, Len(bytes)}
      /\ \A i \in 1 .. Len(bytes) : bytes[i] \in Byte
  OBVIOUS
<1> HIDE DEF m
<1>2. /\ bound \in Seq(Byte) /\ Len(bound) = m
      /\ \A i \in 1 .. m : bound[i] = bytes[i]
  BY <1>1, SubSeqProperties
<1>3. Line(bytes, limit) = IF I # {} THEN SubSeq(bound, 1, Min(I)) ELSE bound
  <2>1. Line(bytes, limit) =
          LET at == IF I # {} THEN Min(I) ELSE 0
          IN IF at = 0 THEN bound ELSE SubSeq(bound, 1, at)
    BY DEF Line, SelectInSeq, m
  <2>2. I # {} => Min(I) # 0
    <3>1. I \in SUBSET Nat /\ 0 \notin I
      BY <1>1, <1>2
    <3> HIDE DEF I
    <3> QED
      BY <3>1, Smallest
  <2> QED
    BY <2>1, <2>2
<1>4. CASE I = {}
  <2>1. \A i \in 1 .. m : bytes[i] # LF
    BY <1>2, <1>4
  <2> QED
    BY <1>1, <1>3, <1>4, <2>1
<1>5. CASE I # {}
  <2>1. I \in SUBSET Nat
    BY <1>1, <1>2
  <2>2. Min(I) \in I /\ \A j \in I : Min(I) <= j
    <3> HIDE DEF I
    <3> QED
      BY <1>5, <2>1, Smallest
  <2> DEFINE k == Min(I)
  <2>3. /\ k \in 1 .. m /\ bytes[k] = LF
        /\ \A i \in 1 .. m : bytes[i] = LF => k <= i
    BY <1>2, <2>2
  <2>4. Line(bytes, limit) = SubSeq(bound, 1, k)
    BY <1>3, <1>5
  <2> HIDE DEF k, I, bound
  <2>5. SubSeq(bound, 1, k) = SubSeq(bytes, 1, k)
    <3>1. k \in Int /\ 1 \in Int /\ k <= m /\ 1 <= k /\ m <= Len(bytes)
      BY <1>1, <2>3
    <3>2. (\A i \in 1 .. k : bound[i] \in Byte) /\ (\A i \in 1 .. k : bytes[i] \in Byte)
      BY <1>1, <1>2, <3>1
    <3>3. /\ SubSeq(bound, 1, k) \in Seq(Byte) /\ SubSeq(bytes, 1, k) \in Seq(Byte)
          /\ Len(SubSeq(bound, 1, k)) = k /\ Len(SubSeq(bytes, 1, k)) = k
          /\ \A i \in 1 .. k : SubSeq(bound, 1, k)[i] = bound[i]
          /\ \A i \in 1 .. k : SubSeq(bytes, 1, k)[i] = bytes[i]
      BY <3>1, <3>2, SubSeqProperties
    <3>4. \A i \in 1 .. k : SubSeq(bound, 1, k)[i] = SubSeq(bytes, 1, k)[i]
      BY <1>2, <3>1, <3>3
    <3> QED
      BY <3>1, <3>3, <3>4, SeqEqual
  <2> QED
    BY <1>1, <2>3, <2>4, <2>5
<1> QED
  BY <1>4, <1>5

\* Dropping a line end drops at most one byte, and nothing else.
LEMMA Popped ==
    ASSUME NEW bytes \in Seq(Byte), NEW b
    PROVE  /\ PopIf(bytes, b) \in Seq(Byte)
           /\ Len(PopIf(bytes, b)) >= Len(bytes) - 1
           /\ bytes # <<>> /\ bytes[Len(bytes)] # b => PopIf(bytes, b) = bytes
<1>1. Len(bytes) \in Nat /\ \A i \in 1 .. Len(bytes) : bytes[i] \in Byte
  OBVIOUS
<1>2. SubSeq(bytes, 1, Len(bytes) - 1) \in Seq(Byte)
      /\ (bytes # <<>> => Len(SubSeq(bytes, 1, Len(bytes) - 1)) = Len(bytes) - 1)
  <2> DEFINE n == Len(bytes) - 1
  <2>1. 1 \in Int /\ n \in Int /\ (bytes # <<>> => n >= 0)
    BY <1>1
  <2>2. \A i \in 1 .. n : bytes[i] \in Byte
    BY <1>1
  <2> HIDE DEF n
  <2>3. /\ SubSeq(bytes, 1, n) \in Seq(Byte)
        /\ Len(SubSeq(bytes, 1, n)) = IF 1 <= n THEN n - 1 + 1 ELSE 0
    BY <2>1, <2>2, SubSeqProperties
  <2>4. bytes # <<>> => Len(SubSeq(bytes, 1, n)) = n
    BY <2>1, <2>3
  <2> QED
    BY <2>3, <2>4 DEF n
<1> QED
  BY <1>1, <1>2 DEF PopIf, Front, Last

\* validate_pin accepts bytes as they are, or nothing.
LEMMA Validated ==
    ASSUME NEW bytes, validate_pin(bytes).ok
    PROVE  Len(bytes) \in MinPin .. MaxPin /\ validate_pin(bytes).bytes = bytes
<1>1. ~NoPin.ok
  BY Zenon DEF NoPin
<1>2. Some(bytes).bytes = bytes
  BY DEF Some
<1> QED
  BY <1>1, <1>2 DEF validate_pin

\* A PIN that read_pin_line accepts is the whole line: where the limit cuts a
\* line, two bytes more than a PIN are left, of which one is dropped.
LEMMA ReadsWhole ==
    ASSUME NEW bytes \in Seq(Byte), read_pin_line(bytes).ok
    PROVE  /\ read_pin_line(bytes).bytes = PopIf(PopIf(Line(bytes, Len(bytes)), LF), CR)
           /\ read_pin_line(bytes).bytes \in Seq(Byte)
           /\ Len(read_pin_line(bytes).bytes) \in MinPin .. MaxPin
<1> DEFINE line == Line(bytes, MaxPin + 2)
           got1 == PopIf(PopIf(line, LF), CR)
<1>0. MinPin \in Nat /\ MaxPin \in Nat /\ MaxPin + 2 \in Nat /\ Len(bytes) \in Nat
  BY PinAssumption
<1>1. Len(got1) \in MinPin .. MaxPin /\ read_pin_line(bytes).bytes = got1
  <2>1. read_pin_line(bytes) = validate_pin(got1)
    BY DEF read_pin_line
  <2> HIDE DEF got1
  <2> QED
    BY <2>1, Validated
<1>2. PICK k \in 0 .. Len(bytes) :
         /\ k <= MaxPin + 2 /\ line = SubSeq(bytes, 1, k)
         /\ \A i \in 1 .. k - 1 : bytes[i] # LF
         /\ \/ k > 0 /\ bytes[k] = LF
            \/ k \in {MaxPin + 2, Len(bytes)} /\ (k > 0 => bytes[k] # LF)
  BY <1>0, LineIs
<1>3. PICK n \in 0 .. Len(bytes) :
         /\ Line(bytes, Len(bytes)) = SubSeq(bytes, 1, n)
         /\ \A i \in 1 .. n - 1 : bytes[i] # LF
         /\ \/ n > 0 /\ bytes[n] = LF
            \/ n = Len(bytes) /\ (n > 0 => bytes[n] # LF)
  BY <1>0, LineIs
<1> HIDE DEF line
<1>4. /\ line \in Seq(Byte) /\ Len(line) = k
      /\ \A i \in 1 .. k : line[i] = bytes[i]
  <2>1. \A i \in 1 .. k : bytes[i] \in Byte
    BY <1>0
  <2> QED
    BY <1>0, <1>2, <2>1, SubSeqProperties
<1>5. got1 \in Seq(Byte)
  BY <1>4, Popped
<1>6. CASE k = n
  BY <1>1, <1>2, <1>3, <1>5, <1>6
<1>7. CASE k # n
  <2>1. k = MaxPin + 2 /\ bytes[k] # LF
    BY <1>0, <1>2, <1>3, <1>7
  <2>2. PopIf(line, LF) = line
    BY <1>0, <1>4, <2>1, Popped
  <2>3. Len(got1) >= MaxPin + 1
    BY <1>0, <1>4, <2>1, <2>2, Popped
  <2> QED
    BY <1>0, <1>1, <2>3
<1> QED
  BY <1>6, <1>7

-----------------------------------------------------------------------------
(* The questions and their answers.                                         *)

\* An answer is the whole of what was entered last.
AnswersLast(got1) ==
    got1.ok => /\ got1.bytes \in Seq(Byte)
               /\ got1.bytes = Entered(typed'[Len(pins) + 1])
               /\ Len(got1.bytes) \in MinPin .. MaxPin

\* The end of a question keeps the answers matched.
LEMMA AnsweredMatched ==
    ASSUME PinsMatched, Matched, typed' \in Seq(Seq(Byte)), Len(typed') = Len(pins) + 1,
           \A i \in 1 .. Len(pins) : typed'[i] = typed[i], UNCHANGED input,
           NEW got1, AnswersLast(got1), Answered(got1)
    PROVE  /\ pins' \in Seq(Seq(Byte))
           /\ pc' \in {"error", "ask", "have pin"}
           /\ pc' # "error" => Matched' /\ Len(typed') = Len(pins')
<1>0. pins \in Seq(Seq(Byte)) /\ typed \in Seq(Seq(Byte))
  BY DEF PinsMatched
<1>1. CASE ~got1.ok
  BY <1>0, <1>1 DEF Answered
<1>2. CASE got1.ok
  <2> DEFINE n == Len(pins)
             b == got1.bytes
  <2>1. /\ pins' = Append(pins, b)
        /\ pc' = IF cmd = "create" /\ input # "Pinentry" /\ Len(pins) = 0 THEN "ask"
                 ELSE IF \E p \in ToSet(pins) : p # b THEN "error"
                 ELSE "have pin"
    BY <1>2 DEF Answered
  <2>2. b \in Seq(Byte) /\ b = Entered(typed'[n + 1]) /\ Len(b) \in MinPin .. MaxPin
    BY <1>2 DEF AnswersLast
  <2> HIDE DEF b
  <2>3. /\ pins' \in Seq(Seq(Byte)) /\ Len(pins') = n + 1 /\ n \in Nat
        /\ DOMAIN pins' = 1 .. n + 1 /\ DOMAIN pins = 1 .. n
        /\ pins'[n + 1] = b /\ \A i \in 1 .. n : pins'[i] = pins[i]
    <3>1. n \in Nat /\ DOMAIN pins = 1 .. n
      BY <1>0
    <3>2. Append(pins, b) \in Seq(Seq(Byte)) /\ Len(Append(pins, b)) = n + 1
      BY <1>0, <2>2, AppendProperties
    <3>3. Append(pins, b)[n + 1] = b /\ \A i \in 1 .. n : Append(pins, b)[i] = pins[i]
      BY <1>0, <2>2, <3>1, AppendProperties
    <3>4. DOMAIN Append(pins, b) = 1 .. n + 1
      BY <3>2, LenProperties
    <3> QED
      BY <2>1, <3>1, <3>2, <3>3, <3>4, Zenon
  <2>4. ASSUME pc' # "error"
        PROVE  \A i \in 1 .. n : pins[i] = b
    <3>1. CASE n = 0
      BY <3>1
    <3>2. CASE ~\E p \in ToSet(pins) : p # b
      BY <2>3, <3>2 DEF ToSet
    <3> QED
      BY <2>1, <2>4, <3>1, <3>2
  <2>6. \A i \in 1 .. n : /\ pins[i] = Entered(typed'[i])
                          /\ Len(pins[i]) \in MinPin .. MaxPin
    BY <2>3 DEF Matched
  <2> HIDE DEF n
  <2>7. ASSUME pc' # "error"
        PROVE  \A i \in 1 .. n + 1 : /\ pins'[i] = b /\ Len(pins'[i]) \in MinPin .. MaxPin
                                     /\ pins'[i] = Entered(typed'[i])
    BY <2>2, <2>3, <2>4, <2>6, <2>7
  <2>8. ASSUME pc' # "error"
        PROVE  Matched'
    <3>1. \A i \in 1 .. n + 1 : pins'[i] = pins'[1]
      <4>1. 1 \in 1 .. n + 1
        BY <2>3
      <4>2. \A i \in 1 .. n + 1 : pins'[i] = b
        BY <2>7, <2>8
      <4> QED
        BY <4>1, <4>2
    <3>2. Len(pins') <= Len(typed')
      BY <2>3 DEF n
    <3> QED
      BY <2>3, <2>7, <2>8, <3>1, <3>2 DEF Matched, Entered
  <2> QED
    BY <2>1, <2>3, <2>8 DEF n
<1> QED
  BY <1>1, <1>2

\* What was typed before is kept when a line is appended.
LEMMA TypedMore ==
    ASSUME PinsMatched, Matched, Len(typed) = Len(pins),
           NEW line \in Seq(Byte), typed' = Append(typed, line), UNCHANGED <<pins, input>>
    PROVE  /\ typed' \in Seq(Seq(Byte)) /\ Len(typed') = Len(pins) + 1
           /\ Last(typed') = line /\ typed'[Len(pins) + 1] = line
           /\ \A i \in 1 .. Len(pins) : typed'[i] = typed[i]
           /\ Matched'
<1>0. typed \in Seq(Seq(Byte)) /\ pins \in Seq(Seq(Byte))
  BY DEF PinsMatched
<1>1. /\ typed' \in Seq(Seq(Byte)) /\ Len(typed') = Len(pins) + 1
      /\ typed'[Len(pins) + 1] = line
      /\ \A i \in 1 .. Len(pins) : typed'[i] = typed[i]
  <2>1. /\ Append(typed, line) \in Seq(Seq(Byte)) /\ Len(Append(typed, line)) = Len(typed) + 1
        /\ Append(typed, line)[Len(typed) + 1] = line
        /\ \A i \in 1 .. Len(typed) : Append(typed, line)[i] = typed[i]
    BY <1>0, AppendProperties
  <2> QED
    BY <2>1
<1>2. Last(typed') = line
  BY <1>1 DEF Last
<1>3. Matched'
  <2>1. Len(pins) \in Nat /\ DOMAIN pins = 1 .. Len(pins)
    BY <1>0
  <2>2. \A i \in DOMAIN pins : Entered(typed'[i]) = Entered(typed[i])
    BY <1>1, <2>1
  <2>3. Len(pins) <= Len(pins) + 1
    BY <2>1
  <2> QED
    BY <1>1, <2>2, <2>3 DEF Matched, Entered
<1> QED
  BY <1>1, <1>2, <1>3

\* PinsMatched when nothing it looks at changes but the place.
LEMMA PlaceMatched ==
    ASSUME PinsMatched, UNCHANGED <<stdin, typed, pins, pin, input>>,
           \/ pc' = pc
           \/ pc' \in {"install", "spawn", "forward", "poll", "fetch", "error", "terminate",
                       "ended"}
           \/ pc = "start" /\ pc' = "ask"
           \/ pc = "ask" /\ pc' = "hidden" /\ input = "Terminal"
    PROVE  PinsMatched'
<1>1. pc = "start" => Matched /\ Len(typed) = Len(pins)
  BY DEF PinsMatched, Matched
<1> QED
  BY <1>1 DEF PinsMatched, Matched, Entered, Talking, read_pin_line

\* The questions at the terminal and on standard input.
LEMMA LineMatched ==
    ASSUME PinsMatched, HideEcho \/ ReadTerminal \/ RestoreEcho \/ ReadStdin
    PROVE  PinsMatched'
<1>1. CASE HideEcho
  BY <1>1, PlaceMatched DEF HideEcho
<1>2. CASE ReadTerminal
  <2>1. PICK line \in IF tty = "gone" THEN {<<>>} ELSE Lines :
           typed' = Append(typed, line) /\ pin' = read_pin_line(line)
    BY <1>2 DEF ReadTerminal
  <2>2. line \in Seq(Byte)
    <3>1. <<>> \in Seq(Byte)
      OBVIOUS
    <3> QED
      BY <3>1, PinAssumption, Zenon
  <2>3. /\ pc = "hidden" /\ pc' = "restore" /\ UNCHANGED <<input, pins, stdin>>
        /\ Matched /\ Len(typed) = Len(pins) /\ input = "Terminal"
        /\ stdin \in Seq(Byte) /\ pins \in Seq(Seq(Byte))
    BY <1>2 DEF ReadTerminal, PinsMatched
  <2>4. /\ typed' \in Seq(Seq(Byte)) /\ Len(typed') = Len(pins) + 1
        /\ Last(typed') = line /\ Matched'
    BY <2>1, <2>2, <2>3, TypedMore
  <2>5. pin' = read_pin_line(Last(typed'))
    BY <2>1, <2>4
  <2> QED
    BY <2>3, <2>4, <2>5 DEF PinsMatched, Talking
<1>3. CASE RestoreEcho
  <2>1. /\ pc = "restore" /\ UNCHANGED <<input, stdin, typed, pin>>
        /\ Matched /\ Len(typed) = Len(pins) + 1 /\ pin = read_pin_line(Last(typed))
        /\ input = "Terminal" /\ stdin \in Seq(Byte)
        /\ typed \in Seq(Seq(Byte)) /\ pins \in Seq(Seq(Byte))
    BY <1>3 DEF RestoreEcho, PinsMatched
  <2>2. CASE tty = "gone"
    BY <1>3, <2>2, PlaceMatched DEF RestoreEcho
  <2>3. CASE tty # "gone"
    <3>1. Answered(pin)
      BY <1>3, <2>3 DEF RestoreEcho
    <3>2. AnswersLast(pin)
      <4>1. typed'[Len(pins) + 1] = Last(typed) /\ Last(typed) \in Seq(Byte)
        BY <2>1 DEF Last
      <4> QED
        BY <2>1, <4>1, ReadsWhole DEF AnswersLast, Entered
    <3>3. /\ pins' \in Seq(Seq(Byte)) /\ pc' \in {"error", "ask", "have pin"}
          /\ pc' # "error" => Matched' /\ Len(typed') = Len(pins')
      BY <2>1, <3>1, <3>2, AnsweredMatched
    <3> QED
      BY <2>1, <3>3 DEF PinsMatched, Talking
  <2> QED
    BY <2>2, <2>3
<1>4. CASE ReadStdin
  <2>1. /\ pc = "ask" /\ input = "Stdin" /\ UNCHANGED input
        /\ typed' = Append(typed, stdin) /\ pin' = read_pin_line(stdin) /\ Answered(pin')
        /\ stdin' = SubSeq(stdin, Len(Line(stdin, MaxPin + 2)) + 1, Len(stdin))
        /\ Matched /\ Len(typed) = Len(pins)
        /\ stdin \in Seq(Byte) /\ typed \in Seq(Seq(Byte)) /\ pins \in Seq(Seq(Byte))
    BY <1>4 DEF ReadStdin, PinsMatched
  <2>2. stdin' \in Seq(Byte)
    <3>1. MaxPin + 2 \in Nat /\ Len(stdin) \in Nat
      BY <2>1, PinAssumption
    <3>2. PICK k \in 0 .. Len(stdin) : Line(stdin, MaxPin + 2) = SubSeq(stdin, 1, k)
      BY <2>1, <3>1, LineIs
    <3>3. Len(SubSeq(stdin, 1, k)) = k
      <4>1. \A i \in 1 .. k : stdin[i] \in Byte
        BY <2>1, <3>1
      <4> QED
        BY <3>1, <4>1, SubSeqProperties
    <3>4. k + 1 \in Int /\ Len(stdin) \in Int /\ \A i \in k + 1 .. Len(stdin) : stdin[i] \in Byte
      BY <2>1, <3>1
    <3> QED
      BY <2>1, <3>2, <3>3, <3>4, SubSeqProperties
  <2>3. /\ typed' \in Seq(Seq(Byte)) /\ Len(typed') = Len(pins) + 1
        /\ typed'[Len(pins) + 1] = stdin
        /\ \A i \in 1 .. Len(pins) : typed'[i] = typed[i]
    <3>1. /\ Append(typed, stdin) \in Seq(Seq(Byte))
          /\ Len(Append(typed, stdin)) = Len(typed) + 1
          /\ Append(typed, stdin)[Len(typed) + 1] = stdin
          /\ \A i \in 1 .. Len(typed) : Append(typed, stdin)[i] = typed[i]
      BY <2>1, AppendProperties
    <3> QED
      BY <2>1, <3>1
  <2>4. AnswersLast(pin')
    BY <2>1, <2>3, ReadsWhole DEF AnswersLast, Entered
  <2>5. /\ pins' \in Seq(Seq(Byte)) /\ pc' \in {"error", "ask", "have pin"}
        /\ pc' # "error" => Matched' /\ Len(typed') = Len(pins')
    BY <2>1, <2>3, <2>4, AnsweredMatched
  <2> QED
    BY <2>1, <2>2, <2>3, <2>5 DEF PinsMatched, Talking
<1> QED
  BY <1>1, <1>2, <1>3, <1>4

\* The talk with the dialog.
LEMMA TalkMatched ==
    ASSUME AssuanRoundTrips, PinsMatched,
           SpawnDialog \/ Configure \/ GetPin \/ CloseDialog \/ WaitDialog
    PROVE  PinsMatched'
<1>n. ~NoPin.ok /\ Some(<<>>).bytes = <<>> /\ \A b : Some(b).bytes = b
  <2>1. ~NoPin.ok
    BY Zenon DEF NoPin
  <2>2. \A b : Some(b).bytes = b
    BY DEF Some
  <2> QED
    BY <2>1, <2>2
<1>p. stdin \in Seq(Byte) /\ typed \in Seq(Seq(Byte)) /\ pins \in Seq(Seq(Byte))
  BY DEF PinsMatched
<1>1. CASE SpawnDialog \/ Configure
  <2>1. /\ pc \in {"ask", "configure"} /\ input = "Pinentry"
        /\ Matched /\ Len(typed) = Len(pins)
        /\ UNCHANGED <<input, stdin, typed, pins>>
    BY <1>1 DEF SpawnDialog, Configure, PinsMatched, Talking
  <2>2. \/ pc' \in {"configure", "get pin", "error"}
        \/ pc' = "close" /\ ~pin'.ok
    BY <1>1 DEF SpawnDialog, Configure
  <2>3. Matched' /\ Len(typed') = Len(pins')
    BY <2>1 DEF Matched, Entered
  <2> QED
    BY <1>p, <2>1, <2>2, <2>3 DEF PinsMatched, Talking
<1>2. CASE GetPin
  <2>1. /\ pc = "get pin" /\ pc' = "close" /\ UNCHANGED <<input, stdin, pins>>
        /\ input = "Pinentry" /\ Matched /\ Len(typed) = Len(pins)
    BY <1>2 DEF GetPin, PinsMatched, Talking
  <2>2. \E secret \in Seq(Byte) : /\ typed' = Append(typed, secret)
                                  /\ pin'.ok => pin'.bytes \in {secret, <<>>}
    <3>0. <<>> \in Seq(Byte) /\ Secrets \subseteq Seq(Byte)
      BY PinAssumption
    <3>1. ASSUME NEW secret \in Secrets, NEW reply \in DataLines(secret),
                 pin' = read_pinentry_response(reply), typed' = Append(typed, secret)
          PROVE  pin'.ok => pin'.bytes \in {secret, <<>>}
      BY <1>n, <3>1 DEF AssuanRoundTrips
    <3>2. ASSUME pin' = read_pinentry_response(<<Line1("OK", <<>>)>>)
          PROVE  pin'.bytes = <<>>
      BY <1>n, <3>2 DEF AssuanRoundTrips
    <3> QED
      BY <1>2, <1>n, <3>0, <3>1, <3>2, Zenon DEF GetPin
  <2>3. PICK secret \in Seq(Byte) : /\ typed' = Append(typed, secret)
                                    /\ pin'.ok => pin'.bytes \in {secret, <<>>}
    BY <2>2
  <2>4. /\ typed' \in Seq(Seq(Byte)) /\ Len(typed') = Len(pins) + 1
        /\ Last(typed') = secret /\ Matched'
    BY <2>1, <2>3, TypedMore
  <2> QED
    BY <1>p, <2>1, <2>3, <2>4 DEF PinsMatched, Talking
<1>3. CASE CloseDialog
  <2>1. /\ pc = "close" /\ pc' = "wait" /\ input = "Pinentry"
        /\ UNCHANGED <<input, stdin, typed, pins, pin>>
    BY <1>3 DEF CloseDialog, PinsMatched, Talking
  <2>2. Matched => Matched'
    BY <2>1 DEF Matched, Entered
  <2> QED
    BY <1>p, <2>1, <2>2 DEF PinsMatched, Talking
<1>4. CASE WaitDialog
  <2> DEFINE end == IF pin.ok /\ exitOk THEN validate_pin(pin.bytes) ELSE NoPin
  <2>1. /\ pc = "wait" /\ input = "Pinentry" /\ UNCHANGED <<input, stdin, typed, pin>>
        /\ Answered(end)
    BY <1>4 DEF WaitDialog, PinsMatched, Talking
  <2>2. CASE ~end.ok
    <3>1. pc' = "error" /\ UNCHANGED pins
      BY <2>1, <2>2 DEF Answered
    <3> QED
      BY <1>p, <2>1, <3>1, PlaceMatched
  <2>3. CASE end.ok
    <3>1. pin.ok /\ end = validate_pin(pin.bytes)
      BY <1>n, <2>3
    <3>2. Len(pin.bytes) \in MinPin .. MaxPin /\ end.bytes = pin.bytes
      BY <2>3, <3>1, Validated
    <3>3. Matched /\ Len(typed) = Len(pins) + 1 /\ pin.bytes \in {Last(typed), <<>>}
      BY <2>1, <3>1 DEF PinsMatched
    <3>4. pin.bytes = Last(typed)
      <4>1. Len(<<>>) = 0 /\ 0 \notin MinPin .. MaxPin
        BY PinAssumption
      <4> QED
        BY <3>2, <3>3, <4>1
    <3>5. Last(typed) = typed'[Len(pins) + 1] /\ Last(typed) \in Seq(Byte)
      BY <1>p, <2>1, <3>3 DEF Last
    <3> HIDE DEF end
    <3>6. AnswersLast(end)
      BY <2>1, <3>2, <3>4, <3>5 DEF AnswersLast, Entered
    <3>7. /\ pins' \in Seq(Seq(Byte)) /\ pc' \in {"error", "ask", "have pin"}
          /\ pc' # "error" => Matched' /\ Len(typed') = Len(pins')
      BY <1>p, <2>1, <3>3, <3>6, AnsweredMatched
    <3> QED
      BY <1>p, <2>1, <3>7 DEF PinsMatched, Talking
  <2> QED
    BY <2>2, <2>3
<1> QED
  BY <1>1, <1>2, <1>3, <1>4

\* Every step keeps PinsMatched.
LEMMA MatchedStep ==
    ASSUME AssuanRoundTrips, PinsMatched, [Next]_vars
    PROVE  PinsMatched'
<1>1. CASE UNCHANGED vars
  BY <1>1, PlaceMatched DEF vars, pinVars
<1>2. CASE PromptStep
  BY <1>2, LineMatched, TalkMatched DEF PromptStep
<1>3. CASE Fetch
  <2>1. CASE UNCHANGED <<typed, pins>> /\ pc' \in {"forward", "error"}
    BY <1>3, <2>1, PlaceMatched DEF Fetch
  <2>2. CASE typed' = <<>> /\ pins' = <<>> /\ pc' = "ask"
    <3>1. stdin' \in Seq(Byte) /\ <<>> \in Seq(Seq(Byte))
      BY <1>3 DEF Fetch, PinsMatched
    <3>2. Matched'
      BY <2>2 DEF Matched
    <3> QED
      BY <2>2, <3>1, <3>2 DEF PinsMatched, Talking
  <2> QED
    BY <1>3, <2>1, <2>2 DEF Fetch, Go
<1>4. CASE ExecStep /\ ~Fetch
  <2>1. UNCHANGED <<stdin, typed, pins, pin, input>>
    BY <1>4 DEF ExecStep, ExecStart, Install, Spawn, Forward, TryWait, AuthorizeStart,
       CreateStart, CreateEnd, Authorize, Terminate, TerminateWait, promptVars
  <2>2. \/ pc' \in {"install", "spawn", "forward", "poll", "fetch", "error", "terminate",
                    "ended"}
        \/ pc = "start" /\ pc' = "ask"
    BY <1>4 DEF ExecStep, ExecStart, Install, Spawn, Forward, TryWait, AuthorizeStart,
       CreateStart, CreateEnd, Authorize, Terminate, TerminateWait, Go, End
  <2> QED
    BY <2>1, <2>2, PlaceMatched
<1>5. ASSUME NEW s, NEW group, Signal(s, group)
      PROVE  PinsMatched'
  BY <1>5, PlaceMatched DEF Signal, End
<1>6. CASE DialogStep \/ ChildExits \/ Requests \/ AgentChanges
  BY <1>6, PlaceMatched DEF DialogStep, DialogExits, ChildExits, Requests, AgentChanges, pinVars
<1> QED
  BY <1>1, <1>2, <1>3, <1>4, <1>5, <1>6 DEF Next, CommandStep, Interrupt, HangUp

\* A PIN is the whole of what the user entered, or it is refused, provided an
\* answer of the dialog can be read as it was escaped.
THEOREM ExecPinWhole ==
    ASSUME AssuanRoundTrips
    PROVE  ExecSpec => []PinWhole
<1>1. Init => PinsMatched
  <2>1. <<>> \in Seq(Byte) /\ <<>> \in Seq(Seq(Byte)) /\ Stdins \subseteq Seq(Byte)
    BY ExecAssumption
  <2> QED
    BY <2>1 DEF Init, PinsMatched, Talking
<1>2. PinsMatched /\ [Next]_vars => PinsMatched'
  BY MatchedStep
<1>3. PinsMatched => PinWhole
  BY DEF PinsMatched, Matched, PinWhole
<1> QED
  BY <1>1, <1>2, <1>3, PTL DEF ExecSpec
=============================================================================
