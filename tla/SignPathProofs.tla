--------------------------- MODULE SignPathProofs ---------------------------
(***************************************************************************)
(* Proofs about the calls of EsapiTpm on the data path of the agent and of *)
(* `keyvisor key create`: what a call leaves in the TPM, which error it    *)
(* returns, and who spends a dictionary-attack try, for every set of       *)
(* packets, records, PINs and signatures and any number of faults; which   *)
(* packets it takes for requests, and which numbers a client reads out of  *)
(* its signatures.  The recursive definitions under FoldLeft are unfolded  *)
(* by induction on the least counterexample (Smallest).                    *)
(***************************************************************************)
EXTENDS SignPath, SequenceTheorems, WellFoundedInduction, TLAPS

\* The call under way has an object, or a session, of its own in the TPM.
HasObject == \/ step \in {"set_auth", "get_name", "release"}
             \/ command = "sign" /\ step \in {"start", "attributes", "execute", "flush"}
             \/ command = "load" /\ step = "flush" /\ failure = "none"
HasSession == step \in {"attributes", "execute", "flush"}

\* What is left beyond that was left by one fault each, and is gone after a reset.
HandlesCounted ==
    /\ objects \in Int /\ sessions \in Int /\ faults \in Nat
    /\ objects <= faults + 1 /\ (~HasObject => objects <= faults)
    /\ sessions <= faults + 1 /\ (~HasSession => sessions <= faults)
    /\ (parent = "lost" => objects = 0 /\ sessions = 0)

\* A call remembers the first error it met, and only that.
ErrorsKept ==
    /\ step # "idle" => call.op \in {"sign", "generate"}
    /\ step # "idle" /\ failure = "none" => first = "none"
    /\ failure # "none" => step \in {"flush", "release"} /\ first = failure
    /\ FirstErrorReported

TpmInv == HandlesCounted /\ ErrorsKept

\* Every way the data path acts on the TPM.
TpmAction ==
    \/ Connect
    \/ BeginSign(ObjectOf(key), AlgorithmOf(key), AlgorithmOf(key), given)
    \/ \E a \in Algorithms, auth \in {NoAuth} \cup Pins : BeginGenerate(a, auth)
    \/ EsapiStep
    \/ OtherTries
    \/ TpmReset

\* map_tss_error always returns an error.
LEMMA MappedErrors ==
    ASSUME NEW e
    PROVE  map_tss_error(e) \in {"AuthorizationFailed", "DictionaryAttackLockout",
                                 "PolicyFailed", "Transport"}
  BY DEF map_tss_error

\* The handler and the command use the TPM only through EsapiTpm.
LEMMA PathActsOnTpm ==
    ASSUME [PathNext]_vars
    PROVE  TpmAction \/ UNCHANGED tpmVars
  BY DEF PathNext, Handle, AskPin, PathConnect, SignWithKey, PathStep, CreateKey,
         TpmAction, vars

\* Connecting, other programs and a reset keep the invariant.
LEMMA OutsideKeepsInv ==
    ASSUME TpmInv, Connect \/ OtherTries \/ TpmReset
    PROVE  TpmInv'
<1> USE DEF TpmInv, HandlesCounted, ErrorsKept, FirstErrorReported, HasObject, HasSession
<1>1. CASE Connect
  BY <1>1 DEF Connect
<1>2. CASE OtherTries
  BY <1>2 DEF OtherTries
<1>3. CASE TpmReset
  BY <1>3 DEF TpmReset
<1> QED
  BY <1>1, <1>2, <1>3

\* So do the beginnings of the two calls.
LEMMA CallsKeepInv ==
    ASSUME TpmInv, NEW o, NEW a, NEW d, NEW auth,
           BeginSign(o, a, d, auth) \/ BeginGenerate(a, auth)
    PROVE  TpmInv'
<1> USE DEF TpmInv, HandlesCounted, ErrorsKept, FirstErrorReported, HasObject, HasSession
<1>1. CASE BeginSign(o, a, d, auth)
  BY <1>1 DEF BeginSign, Return
<1>2. CASE BeginGenerate(a, auth)
  BY <1>2 DEF BeginGenerate, Return
<1> QED
  BY <1>1, <1>2

\* And every ESAPI call they make.
LEMMA StepsKeepInv ==
    ASSUME TpmInv, EsapiStep
    PROVE  TpmInv'
<1> USE DEF TpmInv, HandlesCounted, ErrorsKept, FirstErrorReported, HasObject, HasSession
<1>1. CASE StartSession
  BY <1>1 DEF StartSession, AfterFailure, Note, Return
<1>2. CASE SetAttributes
  BY <1>2 DEF SetAttributes, AfterFailure, Note, Return
<1>3. CASE Execute
  BY <1>3, MappedErrors DEF Execute, Note
<1>4. CASE FlushSession
  <2>1. CASE /\ parent = "live" /\ sessions' = sessions - 1
             /\ failure = "none" /\ AfterSuccess /\ UNCHANGED <<faults, parent, objects>>
    BY <1>4, <2>1 DEF FlushSession, AfterSuccess, Note, Return
  <2>2. CASE /\ parent = "live" /\ sessions' = sessions - 1
             /\ failure # "none" /\ AfterFailure(failure) /\ UNCHANGED <<faults, parent, objects>>
    BY <1>4, <2>2 DEF FlushSession, AfterFailure, Note, Return
  <2>3. CASE FlushFails /\ AfterFailure(IF failure = "none" THEN "Transport" ELSE failure)
             /\ UNCHANGED <<sessions, parent, objects>>
    BY <1>4, <2>3 DEF FlushSession, FlushFails, AfterFailure, Note, Return
  <2> QED
    BY <1>4, <2>1, <2>2, <2>3 DEF FlushSession
<1>5. CASE SetAuth
  BY <1>5 DEF SetAuth, HostFault, Note, Return
<1>6. CASE GetName
  BY <1>6 DEF GetName, HostFault, Note, Return
<1>7. CASE Release
  BY <1>7 DEF Release, FlushFails, Note, Return
<1> QED
  BY <1>1, <1>2, <1>3, <1>4, <1>5, <1>6, <1>7 DEF EsapiStep

\* The inductive invariant of the calls.
THEOREM PathInvariance == PathSpec => []TpmInv
<1>1. PathInit => TpmInv
  BY DEF PathInit, TpmInit, TpmInv, HandlesCounted, ErrorsKept, FirstErrorReported,
         HasObject, HasSession
<1>2. TpmInv /\ [PathNext]_vars => TpmInv'
  <2> SUFFICES ASSUME TpmInv, [PathNext]_vars
               PROVE  TpmInv'
    OBVIOUS
  <2>1. CASE TpmAction
    <3>1. CASE BeginSign(ObjectOf(key), AlgorithmOf(key), AlgorithmOf(key), given)
      BY <3>1, CallsKeepInv
    <3>2. ASSUME NEW a \in Algorithms, NEW auth \in {NoAuth} \cup Pins, BeginGenerate(a, auth)
          PROVE  TpmInv'
      BY <3>2, CallsKeepInv
    <3> QED
      BY <2>1, <3>1, <3>2, OutsideKeepsInv, StepsKeepInv DEF TpmAction
  <2>2. CASE UNCHANGED tpmVars
    BY <2>2 DEF TpmInv, HandlesCounted, ErrorsKept, FirstErrorReported, HasObject,
                HasSession, tpmVars
  <2> QED
    BY <2>1, <2>2, PathActsOnTpm
<1> QED
  BY <1>1, <1>2, PTL DEF PathSpec

\* "Always release the transient object": between calls sign and generate have
\* left at most one object and one session per failing flush or host-side call,
\* and none for a command that failed in the TPM.
THEOREM PathLeaksBounded == PathSpec => []LeaksBounded
<1>1. TpmInv => LeaksBounded
  BY DEF TpmInv, HandlesCounted, LeaksBounded, HasObject, HasSession, ErrorsKept
<1> QED
  BY <1>1, PathInvariance, PTL

\* "Preserve the command error when both operations fail": a call returns the
\* error it met first.
THEOREM PathFirstErrorReported == PathSpec => []FirstErrorReported
<1>1. TpmInv => FirstErrorReported
  BY DEF TpmInv, ErrorsKept
<1> QED
  BY <1>1, PathInvariance, PTL

-----------------------------------------------------------------------------
(* Who spends a dictionary-attack try.                                     *)

\* The object of a signature was validated against its record, and once it is
\* loaded its two areas are the same.
CallChecked ==
    /\ given \in {Nothing, NoAuth} \cup Pins
    /\ tries \in Int
    /\ (step # "idle" /\ call.op = "sign" =>
          /\ call.auth \in {NoAuth} \cup Pins
          /\ authorization_value(call.auth) = call.object.policy
          /\ call.object.public.noDA = (call.object.policy = "NoPin"))
    /\ ((step # "idle" /\ command = "sign") \/ step = "set_auth" => call.op = "sign")
    /\ (\/ step # "idle" /\ command = "sign"
        \/ step = "set_auth"
        \/ step = "flush" /\ command = "load" /\ failure = "none"
        => call.object.public = call.object.private)
    /\ (step # "idle" => command \in {"create", "load", "sign"})

\* The checks of sign establish it.
LEMMA SignIsChecked ==
    ASSUME CallChecked, given # Nothing,
           BeginSign(ObjectOf(key), AlgorithmOf(key), AlgorithmOf(key), given),
           given' \in {given, Nothing}
    PROVE  CallChecked'
  BY DEF CallChecked, BeginSign, Return, validate_public

\* What is not a step of sign or generate leaves it alone.
LEMMA OthersKeepChecked ==
    ASSUME CallChecked, given' \in {Nothing, NoAuth} \cup Pins,
           \/ Connect \/ OtherTries \/ TpmReset \/ UNCHANGED tpmVars
           \/ \E a \in Algorithms, auth \in {NoAuth} \cup Pins : BeginGenerate(a, auth)
    PROVE  CallChecked'
<1> USE DEF CallChecked
<1>1. CASE Connect
  BY <1>1 DEF Connect
<1>2. CASE OtherTries
  BY <1>2, TpmAssumption DEF OtherTries
<1>3. CASE TpmReset
  BY <1>3 DEF TpmReset
<1>4. CASE UNCHANGED tpmVars
  BY <1>4 DEF tpmVars
<1>5. ASSUME NEW a \in Algorithms, NEW auth \in {NoAuth} \cup Pins, BeginGenerate(a, auth)
      PROVE  CallChecked'
  BY <1>5 DEF BeginGenerate, Return
<1> QED
  BY <1>1, <1>2, <1>3, <1>4, <1>5

\* Load succeeds only for a public area that belongs to the private one.
LEMMA StepsKeepChecked ==
    ASSUME CallChecked, EsapiStep, given' \in {Nothing, NoAuth} \cup Pins
    PROVE  CallChecked'
<1> USE DEF CallChecked
<1>1. CASE StartSession
  BY <1>1 DEF StartSession, AfterFailure, Return
<1>2. CASE SetAttributes
  BY <1>2 DEF SetAttributes, AfterFailure, Return
<1>3. CASE Execute
  BY <1>3, MappedErrors DEF Execute, CommandSucceeds
<1>4. CASE FlushSession
  BY <1>4 DEF FlushSession, AfterSuccess, AfterFailure, Return
<1>5. CASE SetAuth
  BY <1>5 DEF SetAuth, HostFault, Return
<1>6. CASE GetName
  BY <1>6 DEF GetName, HostFault, Return
<1>7. CASE Release
  BY <1>7 DEF Release, Return
<1> QED
  BY <1>1, <1>2, <1>3, <1>4, <1>5, <1>6, <1>7 DEF EsapiStep

\* Every signature under way was checked.
THEOREM PathChecked == PathSpec => []CallChecked
<1>1. PathInit => CallChecked
  BY DEF PathInit, TpmInit, CallChecked
<1>2. CallChecked /\ [PathNext]_vars => CallChecked'
  <2> SUFFICES ASSUME CallChecked, [PathNext]_vars
               PROVE  CallChecked'
    OBVIOUS
  <2>1. ASSUME NEW p \in Packets, Handle(p)
        PROVE  CallChecked'
    BY <2>1, OthersKeepChecked DEF Handle, CallChecked
  <2>2. CASE AskPin
    BY <2>2, OthersKeepChecked DEF AskPin, Fails, CallChecked
  <2>3. CASE PathConnect
    BY <2>3, OthersKeepChecked DEF PathConnect, Fails, CallChecked
  <2>4. CASE SignWithKey
    BY <2>4, SignIsChecked DEF SignWithKey, Fails
  <2>5. CASE PathStep
    BY <2>5, StepsKeepChecked DEF PathStep, Fails, CallChecked
  <2>6. CASE CreateKey
    BY <2>6, StepsKeepChecked, OthersKeepChecked DEF CreateKey, pathVars, CallChecked
  <2>7. CASE (OtherTries \/ TpmReset) /\ UNCHANGED pathVars
    BY <2>7, OthersKeepChecked DEF pathVars, CallChecked
  <2>8. CASE UNCHANGED vars
    BY <2>8, OthersKeepChecked DEF vars, pathVars, CallChecked
  <2> QED
    BY <2>1, <2>2, <2>3, <2>4, <2>5, <2>6, <2>7, <2>8 DEF PathNext
<1> QED
  BY <1>1, <1>2, PTL DEF PathSpec

\* A TPM command adds a try only for a PIN somebody typed: the authorization is
\* checked against the record, the record against the public area, and the
\* public area by the TPM against the private one.
THEOREM PathTriesAreTyped == PathSpec => TriesAreTyped
<1>1. CallChecked /\ [PathNext]_vars =>
        [tries' = tries + 1 /\ step = "execute" /\ step' # step => call.auth \in Pins]_tpmVars
  <2> SUFFICES ASSUME CallChecked, [PathNext]_vars,
                      tries' = tries + 1, step = "execute", step' # step
               PROVE  call.auth \in Pins
    OBVIOUS
  <2>1. Execute
    BY PathActsOnTpm DEF TpmAction, EsapiStep, tpmVars, Connect, BeginSign, BeginGenerate,
       OtherTries, TpmReset, StartSession, SetAttributes, FlushSession, SetAuth, GetName, Release
  <2>2. "AuthFail" \in CommandErrors
    BY <2>1 DEF Execute, CallChecked
  <2>3. command = "sign" /\ ~call.object.private.noDA
    BY <2>2 DEF CommandErrors, CallChecked
  <2>4. call.auth \in {NoAuth} \cup Pins /\ authorization_value(call.auth) # "NoPin"
    BY <2>3 DEF CallChecked
  <2> QED
    BY <2>4 DEF authorization_value
<1> QED
  BY <1>1, PathChecked, PTL DEF PathSpec, TriesAreTyped

-----------------------------------------------------------------------------
(* Folds.                                                                  *)

\* A set of numbers has a smallest one.
LEMMA Smallest ==
    ASSUME NEW I \in SUBSET Nat, I # {}
    PROVE  Min(I) \in I /\ \A j \in I : Min(I) <= j
<1>1. IsWellFoundedOn(OpToRel(<, Nat), Nat)
  BY NatLessThanWellFounded
<1>2. PICK x \in I : \A y \in I : ~(<<y, x>> \in OpToRel(<, Nat))
  BY <1>1, WFMin
<1>3. \A y \in I : ~(y < x)
  <2>1. \A a, b \in Nat : <<b, a>> \in OpToRel(<, Nat) <=> b < a
    BY DEF OpToRel
  <2> QED
    BY <1>2, <2>1, Zenon
<1>4. \A y \in I : x <= y
  BY <1>3
<1> QED
  BY <1>4 DEF Min

\* A set of indices has a largest one.
LEMMA Largest ==
    ASSUME NEW n \in Nat, NEW s \in SUBSET (1 .. n), s # {}
    PROVE  Max(s) \in s /\ \A j \in s : j <= Max(s)
<1> DEFINE U == {u \in Nat : \A j \in s : j <= u}
<1>1. n \in U
  OBVIOUS
<1>2. PICK m \in U : \A u \in U : m <= u
  <2> HIDE DEF U
  <2> QED
    BY <1>1, Smallest DEF U
<1>3. m \in s
  <2>1. \A j \in s : j \in Nat /\ 1 <= j /\ j <= m
    BY <1>2
  <2>2. SUFFICES ASSUME m \notin s PROVE FALSE
    OBVIOUS
  <2>3. \A j \in s : j <= m - 1
    BY <2>1, <2>2
  <2>4. m - 1 \in Nat
    <3>1. m \in Nat
      OBVIOUS
    <3>2. PICK j \in s : TRUE
      OBVIOUS
    <3> HIDE DEF U
    <3> QED
      BY <2>1, <3>1, <3>2
  <2>5. m - 1 \in U
    BY <2>3, <2>4
  <2> QED
    BY <1>2, <2>4, <2>5
<1> QED
  BY <1>2, <1>3 DEF Max

\* What is left of such a set without its largest member.
LEMMA WithoutLargest ==
    ASSUME NEW n \in Nat, NEW s \in SUBSET (1 .. n), s # {}
    PROVE  /\ s \ {Max(s)} \in SUBSET (1 .. n - 1)
           /\ Max(s) \in 1 .. n
<1>1. Max(s) \in s /\ \A j \in s : j <= Max(s)
  BY Largest
<1> DEFINE m == Max(s)
<1>2. m \in s /\ \A j \in s : j <= m
  BY <1>1
<1> HIDE DEF m
<1>3. \A j \in s \ {m} : j \in 1 .. n - 1
  BY <1>2
<1>4. s \ {m} \in SUBSET (1 .. n - 1) /\ m \in 1 .. n
  BY <1>2, <1>3
<1> QED
  BY <1>4 DEF m

\* The indices up to n have n as their largest.
LEMMA LargestOf ==
    ASSUME NEW k \in Nat \ {0}
    PROVE  Max(1 .. k) = k /\ (1 .. k) \ {Max(1 .. k)} = 1 .. k - 1
<1>0. 1 .. k \in SUBSET (1 .. k) /\ 1 .. k # {} /\ k \in Nat
  OBVIOUS
<1>1. Max(1 .. k) \in 1 .. k /\ \A j \in 1 .. k : j <= Max(1 .. k)
  BY <1>0, Largest, Zenon
<1>2. Max(1 .. k) = k
  BY <1>1
<1> QED
  BY <1>2

\* g is the recursive function by which a fold from base over the indices up to
\* n is defined, and h has its partial results.
FoldedBy(g, base, next, n) ==
    \A s \in SUBSET (1 .. n) :
      g[s] = IF s = {} THEN base ELSE next[<<g[s \ {Max(s)}], Max(s)>>]
FoldedIn(g, S, base, next, n) ==
    /\ g[{}] = base
    /\ \A s \in SUBSET (1 .. n) : s # {} /\ g[s \ {Max(s)}] \in S =>
         g[s] = next[<<g[s \ {Max(s)}], Max(s)>>]
PartialResults(h, base, next, n) ==
    h[0] = base /\ \A k \in 1 .. n : h[k] = next[<<h[k - 1], k>>]

\* The recursive function a fold is defined by exists.
LEMMA FoldExists ==
    ASSUME NEW S, NEW base \in S, NEW n \in Nat, NEW next \in [S \X (1 .. n) -> S]
    PROVE  \E g \in [SUBSET (1 .. n) -> S] : FoldedBy(g, base, next, n)
<1> USE DEF FoldedBy
<1> DEFINE Folds(g, k) == FoldedBy(g, base, next, k)
           Bad == {k \in 0 .. n : ~\E g \in [SUBSET (1 .. k) -> S] : Folds(g, k)}
<1>1. SUFFICES ASSUME Bad # {} PROVE FALSE
  <2>1. n \in 0 .. n
    OBVIOUS
  <2> QED
    BY <2>1, Zenon
<1>2. PICK m \in Bad : \A k \in Bad : m <= k
  <2>1. Bad \in SUBSET (0 .. n)
    BY Zenon
  <2>2. Bad \in SUBSET Nat
    BY <2>1
  <2> HIDE DEF Bad
  <2> QED
    BY <1>1, <2>2, Smallest
<1>3. m \in 0 .. n
  BY Zenon
<1>4. m # 0
  <2>1. ASSUME m = 0 PROVE FALSE
    <3> DEFINE g == [s \in SUBSET (1 .. 0) |-> base]
    <3>1. \A s \in SUBSET (1 .. 0) : s = {}
      OBVIOUS
    <3>2. g \in [SUBSET (1 .. 0) -> S] /\ Folds(g, 0)
      BY <3>1, Zenon
    <3> QED
      BY <2>1, <3>2, Zenon
  <2> QED
    BY <2>1
<1>5. m - 1 \in 0 .. n /\ m - 1 \notin Bad
  <2> HIDE DEF Bad
  <2> QED
    BY <1>2, <1>3, <1>4
<1>6. PICK g \in [SUBSET (1 .. m - 1) -> S] : Folds(g, m - 1)
  BY <1>5, Zenon
<1> DEFINE f == [s \in SUBSET (1 .. m) |->
                   IF s = {} THEN base ELSE next[<<g[s \ {Max(s)}], Max(s)>>]]
<1>7. \A s \in SUBSET (1 .. m - 1) : s \in SUBSET (1 .. m)
  BY <1>3
<1>8. \A s \in SUBSET (1 .. m) : s # {} =>
         s \ {Max(s)} \in SUBSET (1 .. m - 1) /\ Max(s) \in 1 .. n
  <2>1. m \in Nat /\ 1 .. m \subseteq 1 .. n
    BY <1>3
  <2> QED
    BY <2>1, WithoutLargest
<1>9. \A s \in SUBSET (1 .. m) : s # {} => f[s \ {Max(s)}] = g[s \ {Max(s)}]
  BY <1>6, <1>7, <1>8, Zenon
<1>10. \A s \in SUBSET (1 .. m) : s # {} => next[<<g[s \ {Max(s)}], Max(s)>>] \in S
  <2>1. \A s \in SUBSET (1 .. m) : s # {} => g[s \ {Max(s)}] \in S
    BY <1>8, Zenon
  <2>2. \A x \in S, k \in 1 .. n : next[<<x, k>>] \in S
    BY Zenon
  <2> QED
    BY <1>8, <2>1, <2>2, Zenon
<1>11. f \in [SUBSET (1 .. m) -> S]
  BY <1>10, Zenon
<1>12. Folds(f, m)
  BY <1>9, Zenon
<1> QED
  BY <1>11, <1>12, Zenon

\* A function like that is computed in steps.
LEMMA FoldSteps ==
    ASSUME NEW S, NEW base \in S, NEW n \in Nat, NEW next \in [S \X (1 .. n) -> S],
           NEW f, FoldedIn(f, S, base, next, n)
    PROVE  \E h \in [0 .. n -> S] : h[n] = f[1 .. n] /\ PartialResults(h, base, next, n)
<1> DEFINE h == [k \in 0 .. n |-> f[1 .. k]]
           Bad == {k \in 0 .. n : f[1 .. k] \notin S}
<1>1. f[1 .. 0] = base
  <2>1. 1 .. 0 = {}
    OBVIOUS
  <2> QED
    BY <2>1, Zenon DEF FoldedIn
<1>2. ASSUME NEW k \in 1 .. n, f[1 .. k - 1] \in S
      PROVE  f[1 .. k] = next[<<f[1 .. k - 1], k>>] /\ f[1 .. k] \in S
  <2>1. 1 .. k \in SUBSET (1 .. n) /\ 1 .. k # {} /\ k \in Nat \ {0}
    <3>1. k \in Nat \ {0} /\ k <= n
      OBVIOUS
    <3>2. 1 \in 1 .. k /\ \A i \in 1 .. k : i \in 1 .. n
      BY <3>1
    <3> QED
      BY <3>1, <3>2, Zenon
  <2>2. Max(1 .. k) = k /\ (1 .. k) \ {Max(1 .. k)} = 1 .. k - 1
    BY <2>1, LargestOf
  <2>3. f[1 .. k] = next[<<f[1 .. k - 1], k>>]
    BY <1>2, <2>1, <2>2, Zenon DEF FoldedIn
  <2> QED
    BY <1>2, <2>3, Zenon
<1>3. Bad = {}
  <2>1. SUFFICES ASSUME Bad # {} PROVE FALSE
    OBVIOUS
  <2>2. PICK m \in Bad : \A k \in Bad : m <= k
    <3>1. Bad \in SUBSET (0 .. n)
      BY Zenon
    <3>2. Bad \in SUBSET Nat
      BY <3>1
    <3> HIDE DEF Bad
    <3> QED
      BY <2>1, <3>2, Smallest
  <2>3. m \in 0 .. n /\ f[1 .. m] \notin S
    BY Zenon
  <2>4. m # 0
    BY <1>1, <2>3
  <2>5. m \in 1 .. n /\ m - 1 \in 0 .. n /\ m - 1 \notin Bad
    <3> HIDE DEF Bad
    <3> QED
      BY <2>2, <2>3, <2>4
  <2>6. f[1 .. m - 1] \in S
    BY <2>5, Zenon
  <2> QED
    BY <1>2, <2>3, <2>5, <2>6, Zenon
<1>4. \A k \in 0 .. n : f[1 .. k] \in S
  BY <1>3, Zenon
<1>5. h \in [0 .. n -> S]
  BY <1>4, Zenon
<1>6. h[0] = base /\ h[n] = f[1 .. n]
  <2>1. 0 \in 0 .. n /\ n \in 0 .. n
    OBVIOUS
  <2> QED
    BY <1>1, <2>1, Zenon
<1>7. \A k \in 1 .. n : h[k] = next[<<h[k - 1], k>>]
  <2>1. \A k \in 1 .. n : k \in 0 .. n /\ k - 1 \in 0 .. n
    OBVIOUS
  <2> QED
    BY <1>2, <1>4, <2>1, Zenon
<1> QED
  BY <1>5, <1>6, <1>7, Zenon DEF PartialResults

\* The number that bytes stand for, one byte after the other.
LEMMA NumberSteps ==
    ASSUME NEW n \in Nat, NEW bytes \in [1 .. n -> Nat]
    PROVE  \E h \in [0 .. n -> Nat] :
             /\ h[0] = 0 /\ h[n] = Number(bytes)
             /\ \A k \in 1 .. n : h[k] = 256 * h[k - 1] + bytes[k]
<1> DEFINE next == [x \in Nat \X (1 .. n) |-> 256 * x[1] + bytes[x[2]]]
           Eq(g) == g = [s \in SUBSET (1 .. n) |->
                           IF s = {} THEN 0 ELSE 256 * g[s \ {Max(s)}] + bytes[Max(s)]]
           iter == CHOOSE g : Eq(g)
<1>0. 0 \in Nat
  OBVIOUS
<1>1. \A x \in Nat, k \in 1 .. n : next[<<x, k>>] = 256 * x + bytes[k] /\ next[<<x, k>>] \in Nat
  OBVIOUS
<1>2. next \in [Nat \X (1 .. n) -> Nat]
  OBVIOUS
<1>3. \A s \in SUBSET (1 .. n) : s # {} =>
         s \ {Max(s)} \in SUBSET (1 .. n) /\ Max(s) \in 1 .. n
  <2>1. 1 .. n - 1 \subseteq 1 .. n
    OBVIOUS
  <2> QED
    BY <2>1, WithoutLargest
<1> HIDE DEF next
<1>4. \E g : Eq(g)
  <2>1. PICK g \in [SUBSET (1 .. n) -> Nat] : FoldedBy(g, 0, next, n)
    BY <1>0, <1>2, FoldExists
  <2>2. \A s \in SUBSET (1 .. n) :
          g[s] = IF s = {} THEN 0 ELSE 256 * g[s \ {Max(s)}] + bytes[Max(s)]
    <3> SUFFICES ASSUME NEW s \in SUBSET (1 .. n)
                 PROVE  g[s] = IF s = {} THEN 0 ELSE 256 * g[s \ {Max(s)}] + bytes[Max(s)]
      OBVIOUS
    <3>1. CASE s = {}
      BY <2>1, <3>1, Zenon DEF FoldedBy
    <3>2. CASE s # {}
      <4>1. Max(s) \in 1 .. n /\ g[s \ {Max(s)}] \in Nat
        BY <1>3, <2>1, <3>2, Zenon
      <4>2. g[s] = next[<<g[s \ {Max(s)}], Max(s)>>]
        BY <2>1, <3>2, Zenon DEF FoldedBy
      <4>3. next[<<g[s \ {Max(s)}], Max(s)>>] = 256 * g[s \ {Max(s)}] + bytes[Max(s)]
        BY <1>1, <4>1, Zenon
      <4> QED
        BY <3>2, <4>2, <4>3, Zenon
    <3> QED
      BY <3>1, <3>2, Zenon
  <2>3. g = [s \in SUBSET (1 .. n) |-> g[s]]
    BY <2>1, Zenon
  <2>4. [s \in SUBSET (1 .. n) |-> g[s]] =
          [s \in SUBSET (1 .. n) |->
             IF s = {} THEN 0 ELSE 256 * g[s \ {Max(s)}] + bytes[Max(s)]]
    BY <2>2, Zenon
  <2>5. Eq(g)
    BY <2>3, <2>4, Zenon
  <2> HIDE DEF Eq
  <2> QED
    BY <2>5, Zenon
<1>5. Eq(iter)
  BY <1>4, Zenon
<1>6. Number(bytes) = iter[1 .. n]
  <2>1. DOMAIN bytes = 1 .. n
    OBVIOUS
  <2> QED
    BY <2>1, Zenon DEF Number, FoldLeft, MapThenFoldSet
<1> HIDE DEF iter
<1>7. FoldedIn(iter, Nat, 0, next, n)
  <2>1. \A s \in SUBSET (1 .. n) :
          iter[s] = IF s = {} THEN 0 ELSE 256 * iter[s \ {Max(s)}] + bytes[Max(s)]
    BY <1>5, Zenon
  <2>2. iter[{}] = 0
    BY <2>1, Zenon
  <2>3. ASSUME NEW s \in SUBSET (1 .. n), s # {}, iter[s \ {Max(s)}] \in Nat
        PROVE  iter[s] = next[<<iter[s \ {Max(s)}], Max(s)>>]
    <3>1. iter[s] = 256 * iter[s \ {Max(s)}] + bytes[Max(s)]
      BY <2>1, <2>3, Zenon
    <3>2. Max(s) \in 1 .. n
      BY <1>3, <2>3, Zenon
    <3>3. next[<<iter[s \ {Max(s)}], Max(s)>>] = 256 * iter[s \ {Max(s)}] + bytes[Max(s)]
      BY <1>1, <2>3, <3>2, Zenon
    <3> QED
      BY <3>1, <3>3, Zenon
  <2> QED
    BY <2>2, <2>3, Zenon DEF FoldedIn
<1>8. PICK h \in [0 .. n -> Nat] : h[n] = iter[1 .. n] /\ PartialResults(h, 0, next, n)
  BY <1>0, <1>2, <1>7, FoldSteps
<1>9. \A k \in 1 .. n : h[k] = 256 * h[k - 1] + bytes[k]
  <2>1. \A k \in 1 .. n : h[k - 1] \in Nat
    OBVIOUS
  <2> QED
    BY <1>1, <1>8, <2>1, ZenonT(40) DEF PartialResults
<1> QED
  BY <1>6, <1>8, <1>9, Zenon DEF PartialResults

\* A parser reads the fields of its format one after the other.
ReadsInto(S, format, n) == \A x \in S, k \in 1 .. n : TakeField(x, format[k]) \in S
Reads(h, c, format, n) ==
    /\ h[0] = c /\ h[n] = Take(c, format)
    /\ \A k \in 1 .. n : h[k] = TakeField(h[k - 1], format[k])

\* So Take is the last of a sequence of reads.
LEMMA TakeSteps ==
    ASSUME NEW S, NEW c \in S, NEW n \in Nat, NEW format, DOMAIN format = 1 .. n,
           ReadsInto(S, format, n)
    PROVE  \E h \in [0 .. n -> S] : Reads(h, c, format, n)
<1> USE DEF ReadsInto
<1> DEFINE next == [x \in S \X (1 .. n) |-> TakeField(x[1], format[x[2]])]
           Eq(g) == g = [s \in SUBSET (1 .. n) |->
                           IF s = {} THEN c ELSE TakeField(g[s \ {Max(s)}], format[Max(s)])]
           iter == CHOOSE g : Eq(g)
<1>1. \A x \in S, k \in 1 .. n : next[<<x, k>>] = TakeField(x, format[k])
  OBVIOUS
<1>2. next \in [S \X (1 .. n) -> S]
  OBVIOUS
<1>3. \A s \in SUBSET (1 .. n) : s # {} =>
         s \ {Max(s)} \in SUBSET (1 .. n) /\ Max(s) \in 1 .. n
  <2>1. 1 .. n - 1 \subseteq 1 .. n
    OBVIOUS
  <2> QED
    BY <2>1, WithoutLargest
<1> HIDE DEF next
<1>4. \E g : Eq(g)
  <2>1. PICK g \in [SUBSET (1 .. n) -> S] : FoldedBy(g, c, next, n)
    BY <1>2, FoldExists
  <2>2. \A s \in SUBSET (1 .. n) :
          g[s] = IF s = {} THEN c ELSE TakeField(g[s \ {Max(s)}], format[Max(s)])
    BY <1>1, <1>3, <2>1, Zenon DEF FoldedBy
  <2> QED
    BY <2>2, Zenon
<1>5. Eq(iter)
  BY <1>4, Zenon
<1>6. Take(c, format) = iter[1 .. n]
  BY Zenon DEF Take, FoldLeft, MapThenFoldSet
<1> HIDE DEF iter
<1>7. FoldedIn(iter, S, c, next, n)
  BY <1>1, <1>3, <1>5, Zenon DEF FoldedIn
<1>8. PICK h \in [0 .. n -> S] : h[n] = iter[1 .. n] /\ PartialResults(h, c, next, n)
  BY <1>2, <1>7, FoldSteps
<1>9. \A k \in 1 .. n : h[k] = TakeField(h[k - 1], format[k])
  <2>1. \A k \in 1 .. n : h[k - 1] \in S
    OBVIOUS
  <2> QED
    BY <1>1, <1>8, <2>1, Zenon DEF PartialResults
<1> QED
  BY <1>6, <1>8, <1>9, Zenon DEF PartialResults, Reads

-----------------------------------------------------------------------------
(* Numbers and strings.                                                    *)

\* Four bytes, the most significant one first.
LEMMA NumberOfFour ==
    ASSUME NEW a \in Byte, NEW b \in Byte, NEW c \in Byte, NEW d \in Byte
    PROVE  Number(<<a, b, c, d>>) = ((a * 256 + b) * 256 + c) * 256 + d
<1> DEFINE bytes == <<a, b, c, d>>
<1>1. bytes \in [1 .. 4 -> Nat]
  BY DEF Byte
<1>2. bytes[1] = a /\ bytes[2] = b /\ bytes[3] = c /\ bytes[4] = d
  OBVIOUS
<1> HIDE DEF bytes
<1>3. PICK h \in [0 .. 4 -> Nat] :
        /\ h[0] = 0 /\ h[4] = Number(bytes)
        /\ \A k \in 1 .. 4 : h[k] = 256 * h[k - 1] + bytes[k]
  <2>1. 4 \in Nat
    OBVIOUS
  <2> QED
    BY <1>1, <2>1, NumberSteps, ZenonT(40)
<1>4. /\ h[1] = 256 * h[0] + bytes[1] /\ h[2] = 256 * h[1] + bytes[2]
      /\ h[3] = 256 * h[2] + bytes[3] /\ h[4] = 256 * h[3] + bytes[4]
  <2>1. h[1] = 256 * h[1 - 1] + bytes[1]
    BY <1>3
  <2>2. h[2] = 256 * h[2 - 1] + bytes[2]
    BY <1>3
  <2>3. h[3] = 256 * h[3 - 1] + bytes[3]
    BY <1>3
  <2>4. h[4] = 256 * h[4 - 1] + bytes[4]
    BY <1>3
  <2> QED
    BY <2>1, <2>2, <2>3, <2>4
<1>5. h[4] = ((a * 256 + b) * 256 + c) * 256 + d
  BY <1>2, <1>3, <1>4 DEF Byte
<1> QED
  BY <1>3, <1>5 DEF bytes

\* And back: the bytes of a number put together from bytes.
LEMMA BytesOfNumber ==
    ASSUME NEW a \in Byte, NEW b \in Byte, NEW c \in Byte, NEW d \in Byte
    PROVE  /\ ((a * 256 + b) * 256 + c) * 256 + d \in Nat
           /\ U32(((a * 256 + b) * 256 + c) * 256 + d) = <<a, b, c, d>>
<1> DEFINE n == ((a * 256 + b) * 256 + c) * 256 + d
<1>1. n % 256 = d /\ (n \div 256) % 256 = c
  BY DEF Byte
<1>2. (n \div 65536) % 256 = b
  <2>1. n \div 65536 = 256 * a + b
    BY DEF Byte
  <2> QED
    BY <2>1 DEF Byte
<1>3. (n \div 16777216) % 256 = a
  BY DEF Byte
<1>4. n \in Nat
  BY DEF Byte
<1> QED
  BY <1>1, <1>2, <1>3, <1>4 DEF U32

\* The numbers a u32 can hold.
FitsU32(n) == n \div 16777216 < 256

\* A u32 is read as the number it was written from.
LEMMA NumberOfU32 ==
    ASSUME NEW n \in Nat, FitsU32(n)
    PROVE  Number(U32(n)) = n /\ U32(n) \in Seq(Byte) /\ Len(U32(n)) = 4
<1> DEFINE a == (n \div 16777216) % 256
           b == (n \div 65536) % 256
           c == (n \div 256) % 256
           d == n % 256
<1>1. a \in Byte /\ b \in Byte /\ c \in Byte /\ d \in Byte
  BY DEF Byte
<1>2. n = ((a * 256 + b) * 256 + c) * 256 + d
  BY SMT DEF FitsU32
<1>3. U32(n) = <<a, b, c, d>>
  BY DEF U32
<1> HIDE DEF a, b, c, d
<1>4. Number(<<a, b, c, d>>) = n
  BY <1>1, <1>2, NumberOfFour
<1> QED
  BY <1>1, <1>3, <1>4

-----------------------------------------------------------------------------
(* Fields.                                                                 *)

Cursors == [ok : BOOLEAN, rest : Seq(Byte), fields : Seq(Seq(Byte) \cup Nat)]

\* A sequence cut in two.
LEMMA Cut ==
    ASSUME NEW s \in Seq(Byte), NEW k \in 0 .. Len(s)
    PROVE  /\ SubSeq(s, 1, k) \in Seq(Byte) /\ Len(SubSeq(s, 1, k)) = k
           /\ SubSeq(s, k + 1, Len(s)) \in Seq(Byte)
           /\ Len(SubSeq(s, k + 1, Len(s))) = Len(s) - k
           /\ s = SubSeq(s, 1, k) \o SubSeq(s, k + 1, Len(s))
<1> DEFINE p == SubSeq(s, 1, k)
           q == SubSeq(s, k + 1, Len(s))
<1>1. /\ p \in Seq(Byte) /\ Len(p) = k /\ \A i \in 1 .. k : p[i] = s[i]
      /\ q \in Seq(Byte) /\ Len(q) = Len(s) - k
      /\ \A i \in 1 .. Len(s) - k : q[i] = s[k + i]
  <2>1. k \in Nat /\ Len(s) \in Nat /\ k <= Len(s) /\ \A i \in 1 .. Len(s) : s[i] \in Byte
    BY LenProperties, ElementOfSeq
  <2>2. p \in Seq(Byte) /\ Len(p) = k /\ \A i \in 1 .. k : p[i] = s[i]
    BY <2>1
  <2>3. q \in Seq(Byte) /\ Len(q) = Len(s) - k
    BY <2>1
  <2>4. \A i \in 1 .. Len(s) - k : q[i] = s[k + i]
    BY <2>1
  <2> QED
    BY <2>2, <2>3, <2>4
<1> HIDE DEF p, q
<1>2. p \o q \in Seq(Byte) /\ Len(p \o q) = Len(s)
  <2>1. p \o q \in Seq(Byte) /\ Len(p \o q) = Len(p) + Len(q)
    BY <1>1, ConcatProperties, Zenon
  <2>2. Len(s) \in Nat
    BY LenProperties
  <2> QED
    BY <1>1, <2>1, <2>2
<1>3. \A i \in 1 .. Len(s) : (p \o q)[i] = s[i]
  <2> SUFFICES ASSUME NEW i \in 1 .. Len(s) PROVE (p \o q)[i] = s[i]
    OBVIOUS
  <2>1. CASE i <= k
    BY <1>1, <2>1
  <2>2. CASE ~(i <= k)
    <3>1. i - k \in 1 .. Len(s) - k /\ k + (i - k) = i
      BY <2>2
    <3>2. (p \o q)[i] = q[i - k]
      BY <1>1, <2>2
    <3> QED
      BY <1>1, <3>1, <3>2
  <2> QED
    BY <2>1, <2>2
<1>4. p \o q = s
  BY <1>2, <1>3, SeqEqual
<1> QED
  BY <1>1, <1>4 DEF p, q

\* Concatenations of bytes may be grouped as one likes.
LEMMA BytesAssociate ==
    ASSUME NEW s \in Seq(Byte), NEW t \in Seq(Byte), NEW u \in Seq(Byte)
    PROVE  /\ s \o t \in Seq(Byte) /\ s \o <<>> = s
           /\ (s \o t) \o u = s \o (t \o u)
<1>1. s \o t \in Seq(Byte)
  BY ConcatProperties, Zenon
<1>2. s \o <<>> = s
  BY ConcatEmptySeq, Zenon
<1>3. (s \o t) \o u = s \o (t \o u)
  BY ConcatAssociative
<1> QED
  BY <1>1, <1>2, <1>3

\* The parts of a request, from its end or from its beginning.
LEMMA Regrouped ==
    ASSUME NEW a \in Seq(Byte), NEW b \in Seq(Byte), NEW c \in Seq(Byte), NEW d \in Seq(Byte)
    PROVE  a \o (b \o (c \o (d \o <<>>))) = ((a \o b) \o c) \o d
<1>1. d \o <<>> = d
  BY BytesAssociate, Zenon
<1> DEFINE e == c \o d
           f == a \o b
<1>2. e \in Seq(Byte) /\ f \in Seq(Byte)
  BY BytesAssociate, Zenon
<1>3. (f \o c) \o d = f \o (c \o d)
  <2> HIDE DEF f
  <2> QED
    BY <1>2, BytesAssociate, SMTT(30)
<1>4. (a \o b) \o e = a \o (b \o e)
  <2> HIDE DEF e
  <2> QED
    BY <1>2, BytesAssociate, SMTT(30)
<1> QED
  BY <1>1, <1>3, <1>4, Zenon

\* A sequence that begins with another one.
Splits(s, p, q) ==
    /\ s \in Seq(Byte) /\ Len(s) = Len(p) + Len(q)
    /\ SubSeq(s, 1, Len(p)) = p /\ SubSeq(s, Len(p) + 1, Len(s)) = q

\* Both parts are found in their concatenation.
LEMMA Joined ==
    ASSUME NEW p \in Seq(Byte), NEW q \in Seq(Byte)
    PROVE  Splits(p \o q, p, q)
<1> DEFINE s == p \o q
<1>1. s \in Seq(Byte) /\ Len(s) = Len(p) + Len(q)
  OBVIOUS
<1>2. /\ \A i \in 1 .. Len(p) : s[i] = p[i]
      /\ \A i \in 1 .. Len(q) : s[Len(p) + i] = q[i]
  OBVIOUS
<1> HIDE DEF s
<1> DEFINE a == SubSeq(s, 1, Len(p))
           b == SubSeq(s, Len(p) + 1, Len(s))
<1>3. /\ a \in Seq(Byte) /\ Len(a) = Len(p) /\ \A i \in 1 .. Len(p) : a[i] = s[i]
      /\ b \in Seq(Byte) /\ Len(b) = Len(q)
      /\ \A i \in 1 .. Len(q) : b[i] = s[Len(p) + i]
  BY <1>1
<1> HIDE DEF a, b
<1>4. a = p
  BY <1>2, <1>3, SeqEqual
<1>5. b = q
  BY <1>2, <1>3, SeqEqual
<1> QED
  BY <1>1, <1>4, <1>5 DEF a, b, s, Splits

\* Integers and strings are written as bytes.
LEMMA EncodedBytes ==
    /\ \A n \in Nat : U32(n) \in Seq(Byte) /\ Len(U32(n)) = 4
    /\ \A v \in Seq(Byte) : PushString(v) \in Seq(Byte) /\ Len(PushString(v)) = 4 + Len(v)
<1>1. ASSUME NEW n \in Nat PROVE U32(n) \in Seq(Byte) /\ Len(U32(n)) = 4
  <2>1. /\ (n \div 16777216) % 256 \in Byte /\ (n \div 65536) % 256 \in Byte
        /\ (n \div 256) % 256 \in Byte /\ n % 256 \in Byte
    BY SMT DEF Byte
  <2> QED
    BY <2>1, SMT DEF U32
<1>2. ASSUME NEW v \in Seq(Byte)
      PROVE  PushString(v) \in Seq(Byte) /\ Len(PushString(v)) = 4 + Len(v)
  <2>1. U32(Len(v)) \in Seq(Byte) /\ Len(U32(Len(v))) = 4
    BY <1>1
  <2>2. U32(Len(v)) \o v \in Seq(Byte) /\ Len(U32(Len(v)) \o v) = Len(U32(Len(v))) + Len(v)
    BY <2>1, ConcatProperties
  <2> QED
    BY <2>1, <2>2, Zenon DEF PushString
<1> QED
  BY <1>1, <1>2

\* Four bytes are read as the number they encode.
LEMMA NumberTaken ==
    ASSUME NEW s \in Seq(Byte), Len(s) = 4
    PROVE  Number(s) \in Nat /\ U32(Number(s)) = s
<1>1. s[1] \in Byte /\ s[2] \in Byte /\ s[3] \in Byte /\ s[4] \in Byte
  <2>1. \A i \in 1 .. 4 : s[i] \in Byte
    BY ElementOfSeq
  <2> QED
    BY <2>1
<1>2. s = <<s[1], s[2], s[3], s[4]>>
  OBVIOUS
<1> DEFINE n == ((s[1] * 256 + s[2]) * 256 + s[3]) * 256 + s[4]
<1>3. Number(<<s[1], s[2], s[3], s[4]>>) = n
  BY <1>1, NumberOfFour
<1>4. n \in Nat /\ U32(n) = <<s[1], s[2], s[3], s[4]>>
  BY <1>1, BytesOfNumber
<1> HIDE DEF n
<1> QED
  BY <1>2, <1>3, <1>4

\* A sequence cut in three, after four bytes and after b more.
LEMMA CutTwice ==
    ASSUME NEW s \in Seq(Byte), NEW b \in Nat, 4 + b <= Len(s)
    PROVE  /\ SubSeq(s, 4 + b + 1, Len(s)) \in Seq(Byte)
           /\ s = (SubSeq(s, 1, 4) \o SubSeq(s, 5, 4 + b))
                     \o SubSeq(s, 4 + b + 1, Len(s))
<1> DEFINE p == SubSeq(s, 1, 4 + b)
<1>1. 4 + b \in 0 .. Len(s)
  OBVIOUS
<1>2. /\ p \in Seq(Byte) /\ Len(p) = 4 + b
      /\ SubSeq(s, 4 + b + 1, Len(s)) \in Seq(Byte)
      /\ s = p \o SubSeq(s, 4 + b + 1, Len(s))
  BY <1>1, Cut
<1>3. SubSeq(p, 1, 4) = SubSeq(s, 1, 4) /\ SubSeq(p, 5, 4 + b) = SubSeq(s, 5, 4 + b)
  OBVIOUS
<1> HIDE DEF p
<1>4. 4 \in 0 .. Len(p)
  BY <1>2
<1>5. p = SubSeq(p, 1, 4) \o SubSeq(p, 5, Len(p))
  BY <1>2, <1>4, Cut
<1> QED
  BY <1>2, <1>3, <1>5

\* A read of a string or an integer that succeeds takes just its encoding.
TookString(c, d, v) == c.rest = PushString(v) \o d.rest /\ d.fields = Append(c.fields, v)
TookInteger(c, d, x) == c.rest = U32(x) \o d.rest /\ d.fields = Append(c.fields, x)

\* A string: its length and that many bytes.
LEMMA StringTaken ==
    ASSUME NEW c \in Cursors, NEW limit \in Nat
    PROVE  /\ TakeField(c, String(limit)) \in Cursors
           /\ TakeField(c, String(limit)).ok =>
                c.ok /\ \E v \in Seq(Byte) : TookString(c, TakeField(c, String(limit)), v)
<1> DEFINE size == Number(SubSeq(c.rest, 1, 4))
           head == SubSeq(c.rest, 1, 4)
           body == SubSeq(c.rest, 5, 4 + size)
           tail == SubSeq(c.rest, 4 + size + 1, Len(c.rest))
           Fits == c.ok /\ Len(c.rest) >= 4 /\ size <= limit /\ Len(c.rest) >= 4 + size
           d == TakeField(c, String(limit))
<1>1. d = IF Fits THEN Advance(c, 4 + size, body) ELSE Failed(c)
  BY DEF TakeField, String
<1>2. CASE ~Fits
  <2>1. d \in Cursors /\ ~d.ok
    BY <1>1, <1>2 DEF Failed, Cursors
  <2> QED
    BY <2>1
<1>3. CASE Fits
  <2>1. c.rest \in Seq(Byte) /\ c.fields \in Seq(Seq(Byte) \cup Nat) /\ c.ok
    BY <1>3 DEF Cursors
  <2>2. /\ head \in Seq(Byte) /\ Len(head) = 4
        /\ \A i \in 1 .. 4 : head[i] = c.rest[i] /\ head[i] \in Byte
    BY <1>3, <2>1
  <2>3. size \in Nat /\ U32(size) = head
    BY <2>2, NumberTaken
  <2>4. body \in Seq(Byte) /\ Len(body) = size
    BY <1>3, <2>1, <2>3
  <2>5. tail \in Seq(Byte) /\ c.rest = (head \o body) \o tail
    BY <1>3, <2>1, <2>3, CutTwice
  <2>6. d = [ok |-> TRUE, rest |-> tail, fields |-> Append(c.fields, body)]
    BY <1>1, <1>3 DEF Advance
  <2> HIDE DEF head, body, tail, size, d
  <2>7. d \in Cursors
    BY <2>1, <2>4, <2>5, <2>6 DEF Cursors
  <2>8. c.rest = PushString(body) \o d.rest
    BY <2>3, <2>4, <2>5, <2>6 DEF PushString
  <2>9. TookString(c, d, body)
    BY <2>6, <2>8 DEF TookString
  <2> QED
    BY <2>1, <2>4, <2>7, <2>9 DEF d
<1> QED
  BY <1>2, <1>3

\* An integer: four bytes.
LEMMA IntegerTaken ==
    ASSUME NEW c \in Cursors
    PROVE  /\ TakeField(c, Integer) \in Cursors
           /\ TakeField(c, Integer).ok =>
                c.ok /\ \E x \in Nat : TookInteger(c, TakeField(c, Integer), x)
<1> DEFINE head == SubSeq(c.rest, 1, 4)
           tail == SubSeq(c.rest, 4 + 1, Len(c.rest))
           d == TakeField(c, Integer)
<1>1. d = IF c.ok /\ Len(c.rest) >= 4 THEN Advance(c, 4, Number(head)) ELSE Failed(c)
  <2>1. Integer.read = "u32"
    BY DEF Integer
  <2> QED
    BY <2>1 DEF TakeField
<1>2. CASE ~(c.ok /\ Len(c.rest) >= 4)
  <2>1. d \in Cursors /\ ~d.ok
    BY <1>1, <1>2 DEF Failed, Cursors
  <2> QED
    BY <2>1
<1>3. CASE c.ok /\ Len(c.rest) >= 4
  <2>1. c.rest \in Seq(Byte) /\ c.fields \in Seq(Seq(Byte) \cup Nat) /\ c.ok
    BY <1>3 DEF Cursors
  <2>2. /\ head \in Seq(Byte) /\ Len(head) = 4
        /\ tail \in Seq(Byte) /\ c.rest = head \o tail
    <3>1. 4 \in 0 .. Len(c.rest)
      BY <1>3, <2>1
    <3> QED
      BY <2>1, <3>1, Cut
  <2>3. d = [ok |-> TRUE, rest |-> tail, fields |-> Append(c.fields, Number(head))]
    BY <1>1, <1>3 DEF Advance
  <2> HIDE DEF head, tail, d
  <2>4. Number(head) \in Nat /\ U32(Number(head)) = head
    BY <2>2, NumberTaken
  <2>5. d \in Cursors
    BY <2>1, <2>2, <2>3, <2>4 DEF Cursors
  <2>6. TookInteger(c, d, Number(head))
    BY <2>2, <2>3, <2>4 DEF TookInteger
  <2> QED
    BY <2>1, <2>4, <2>5, <2>6 DEF d
<1> QED
  BY <1>2, <1>3

\* parse_request takes a packet for a sign request only if it is its encoding.
LEMMA SignRequestStrict ==
    ASSUME NEW p \in Seq(Byte), ParseRequest(p).kind = "sign"
    PROVE  p = <<13>> \o PushString(ParseRequest(p).key)
                      \o PushString(ParseRequest(p).data) \o U32(ParseRequest(p).flags)
<1> DEFINE c0 == Cursor(Tail(p))
           r == ParseRequest(p)
           field == String(MaxPacket)
<1>1. /\ p # <<>> /\ p[1] = 13 /\ Complete(Take(c0, SignFormat))
      /\ r = [kind |-> "sign", key |-> Take(c0, SignFormat).fields[1],
              data |-> Take(c0, SignFormat).fields[2], flags |-> Take(c0, SignFormat).fields[3]]
  BY Zenon DEF ParseRequest, Rejected
<1>2. c0 \in Cursors
  BY <1>1 DEF Cursor, Cursors
<1>3. \A x \in Cursors : TakeField(x, field) \in Cursors /\ TakeField(x, Integer) \in Cursors
  BY StringTaken, IntegerTaken, FormatsAssumption
<1>4. PICK h \in [0 .. 3 -> Cursors] : Reads(h, c0, SignFormat, 3)
  <2>1. 3 \in Nat /\ DOMAIN SignFormat = 1 .. 3
    BY DEF SignFormat
  <2>2. ReadsInto(Cursors, SignFormat, 3)
    <3>1. \A k \in 1 .. 3 : SignFormat[k] = field \/ SignFormat[k] = Integer
      BY DEF SignFormat
    <3> QED
      BY <1>3, <3>1, Zenon DEF ReadsInto
  <2> QED
    BY <1>2, <2>1, <2>2, TakeSteps
<1> DEFINE c1 == h[1]
           c2 == h[2]
           c3 == h[3]
<1>5. /\ c0 \in Cursors /\ c1 \in Cursors /\ c2 \in Cursors /\ c3 \in Cursors
      /\ c1 = TakeField(c0, field) /\ c2 = TakeField(c1, field) /\ c3 = TakeField(c2, Integer)
  <2>1. SignFormat[1] = field /\ SignFormat[2] = field /\ SignFormat[3] = Integer
    BY DEF SignFormat
  <2>2. h[1] = TakeField(h[1 - 1], SignFormat[1])
    BY <1>4 DEF Reads
  <2>3. h[2] = TakeField(h[2 - 1], SignFormat[2])
    BY <1>4 DEF Reads
  <2>4. h[3] = TakeField(h[3 - 1], SignFormat[3])
    BY <1>4 DEF Reads
  <2> HIDE DEF field, c0
  <2> QED
    BY <1>2, <1>4, <2>1, <2>2, <2>3, <2>4 DEF Reads
<1>6. c0.rest = Tail(p) /\ c0.fields = <<>>
  BY DEF Cursor
<1>7. c3 = Take(c0, SignFormat) /\ c3.ok /\ c3.rest = <<>>
  BY <1>1, <1>4 DEF Complete, Reads
<1> HIDE DEF c0, c1, c2, c3, r
<1>8. c2.ok /\ \E x \in Nat : TookInteger(c2, c3, x)
  BY <1>5, <1>7, IntegerTaken
<1>9. c1.ok /\ \E v \in Seq(Byte) : TookString(c1, c2, v)
  BY <1>5, <1>8, StringTaken, FormatsAssumption
<1>10. c0.ok /\ \E v \in Seq(Byte) : TookString(c0, c1, v)
  BY <1>5, <1>9, StringTaken, FormatsAssumption
<1>11. PICK x \in Nat : TookInteger(c2, c3, x)
  BY <1>8
<1>12. PICK v \in Seq(Byte) : TookString(c1, c2, v)
  BY <1>9
<1>13. PICK w \in Seq(Byte) : TookString(c0, c1, w)
  BY <1>10
<1>14. c3.fields[1] = w /\ c3.fields[2] = v /\ c3.fields[3] = x
  <2> DEFINE T == Seq(Byte) \cup Nat
  <2>1. /\ c0.fields \in Seq(T) /\ c1.fields \in Seq(T) /\ c2.fields \in Seq(T)
        /\ w \in T /\ v \in T /\ x \in T
    BY <1>5 DEF Cursors
  <2> HIDE DEF T
  <2>2. Len(c1.fields) = 1 /\ c1.fields[1] = w
    <3>1. Len(c0.fields) = 0
      BY <1>6
    <3>2. c1.fields = Append(c0.fields, w)
      BY <1>13 DEF TookString
    <3>3. Len(c1.fields) = Len(c0.fields) + 1 /\ c1.fields[Len(c0.fields) + 1] = w
      BY <2>1, <3>2
    <3> QED
      BY <3>1, <3>3
  <2>3. Len(c2.fields) = 2 /\ c2.fields[1] = w /\ c2.fields[2] = v
    <3>1. c2.fields = Append(c1.fields, v)
      BY <1>12 DEF TookString
    <3>2. /\ Len(c2.fields) = Len(c1.fields) + 1 /\ c2.fields[Len(c1.fields) + 1] = v
          /\ \A i \in 1 .. Len(c1.fields) : c2.fields[i] = c1.fields[i]
      BY <2>1, <3>1
    <3> QED
      BY <2>2, <3>2
  <2>4. c3.fields = Append(c2.fields, x)
    BY <1>11, Zenon DEF TookInteger
  <2>5. /\ c3.fields[Len(c2.fields) + 1] = x
        /\ \A i \in 1 .. Len(c2.fields) : c3.fields[i] = c2.fields[i]
    BY <2>1, <2>4
  <2> QED
    BY <2>3, <2>5
<1>15. r.key = w /\ r.data = v /\ r.flags = x
  BY <1>1, <1>7, <1>14
<1>16. p = <<13>> \o Tail(p)
  BY <1>1
<1>17. Tail(p) = PushString(w) \o (PushString(v) \o (U32(x) \o <<>>))
  BY <1>6, <1>7, <1>11, <1>12, <1>13 DEF TookString, TookInteger
<1>18. U32(x) \in Seq(Byte) /\ PushString(v) \in Seq(Byte) /\ PushString(w) \in Seq(Byte)
  BY EncodedBytes
<1>19. p = <<13>> \o PushString(w) \o PushString(v) \o U32(x)
  <2> DEFINE Nested(a, b, c, d) == a \o (b \o (c \o (d \o <<>>)))
             Flat(a, b, c, d) == ((a \o b) \o c) \o d
  <2>1. \A a, b, c, d \in Seq(Byte) : Nested(a, b, c, d) = Flat(a, b, c, d)
    BY Regrouped
  <2>2. p = Nested(<<13>>, PushString(w), PushString(v), U32(x))
    BY <1>16, <1>17
  <2>3. <<13>> \in Seq(Byte)
    <3>1. 13 \in Byte
      BY DEF Byte
    <3> QED
      BY <3>1
  <2> HIDE DEF Nested, Flat
  <2>4. p = Flat(<<13>>, PushString(w), PushString(v), U32(x))
    <3>1. Nested(<<13>>, PushString(w), PushString(v), U32(x))
            = Flat(<<13>>, PushString(w), PushString(v), U32(x))
      BY <1>18, <2>1, <2>3, ZenonT(40)
    <3> QED
      BY <2>2, <3>1
  <2> QED
    BY <2>4 DEF Flat
<1> QED
  BY <1>15, <1>19 DEF r

-----------------------------------------------------------------------------
(* Signatures.                                                             *)

\* The digits of a number begin at its first byte that is not zero.
LEMMA DigitsFrom ==
    ASSUME NEW z \in Seq(Byte), NEW k \in 1 .. Len(z), z[k] # 0,
           \A i \in 1 .. k - 1 : z[i] = 0
    PROVE  Digits(z) = SubSeq(z, k, Len(z))
<1> DEFINE I == {i \in 1 .. Len(z) : z[i] # 0}
<1>1. k \in I /\ I \in SUBSET Nat
  OBVIOUS
<1>2. \A i \in I : k <= i
  OBVIOUS
<1>3. Min(I) = k
  <2> HIDE DEF I
  <2>1. Min(I) \in I /\ \A j \in I : Min(I) <= j
    BY <1>1, Smallest
  <2>2. Min(I) \in Nat /\ Min(I) <= k /\ k <= Min(I)
    BY <1>1, <1>2, <2>1, Zenon
  <2> QED
    BY <2>2
<1>4. SelectInSeq(z, LAMBDA b : b # 0) = IF I # {} THEN Min(I) ELSE 0
  BY DEF SelectInSeq
<1>5. SelectInSeq(z, LAMBDA b : b # 0) = k
  <2> HIDE DEF I
  <2> QED
    BY <1>1, <1>3, <1>4
<1> QED
  BY <1>5 DEF Digits

\* Zeros have no digits.
LEMMA NoDigits ==
    ASSUME NEW z \in Seq(Byte), \A i \in 1 .. Len(z) : z[i] = 0
    PROVE  Digits(z) = <<>>
<1>1. {i \in 1 .. Len(z) : z[i] # 0} = {}
  OBVIOUS
<1>2. SelectInSeq(z, LAMBDA b : b # 0) = 0
  BY <1>1 DEF SelectInSeq
<1> QED
  BY <1>2 DEF Digits

\* Every number is all zeros or has a first digit.
LEMMA FirstDigit ==
    ASSUME NEW z \in Seq(Byte)
    PROVE  \/ \A i \in 1 .. Len(z) : z[i] = 0
           \/ \E k \in 1 .. Len(z) : z[k] # 0 /\ \A i \in 1 .. k - 1 : z[i] = 0
<1> DEFINE I == {i \in 1 .. Len(z) : z[i] # 0}
<1>1. CASE I = {}
  BY <1>1
<1>2. CASE I # {}
  <2>1. I \in SUBSET Nat
    OBVIOUS
  <2>2. PICK k \in I : \A j \in I : k <= j
    <3> HIDE DEF I
    <3> QED
      BY <1>2, <2>1, Smallest
  <2>3. \A i \in 1 .. k - 1 : z[i] = 0
    BY <2>2
  <2> QED
    BY <2>3
<1> QED
  BY <1>1, <1>2

\* Zeros in front change no number.
LEMMA DigitsPadded ==
    ASSUME NEW z \in Seq(Byte), NEW v \in Seq(Byte), \A i \in 1 .. Len(z) : z[i] = 0
    PROVE  z \o v \in Seq(Byte) /\ Digits(z \o v) = Digits(v)
<1> DEFINE s == z \o v
           n == Len(z)
<1>1. /\ s \in Seq(Byte) /\ n \in Nat /\ Len(s) = n + Len(v)
      /\ \A i \in 1 .. n : s[i] = 0
      /\ \A i \in 1 .. Len(v) : s[n + i] = v[i]
  OBVIOUS
<1> HIDE DEF s, n
<1>2. CASE \A i \in 1 .. Len(v) : v[i] = 0
  <2>1. \A i \in 1 .. Len(s) : s[i] = 0
    <3> SUFFICES ASSUME NEW i \in 1 .. Len(s) PROVE s[i] = 0
      OBVIOUS
    <3>1. CASE i <= n
      BY <1>1, <3>1
    <3>2. CASE ~(i <= n)
      <4>1. i - n \in 1 .. Len(v) /\ n + (i - n) = i
        BY <1>1, <3>2
      <4> QED
        BY <1>1, <1>2, <4>1
    <3> QED
      BY <3>1, <3>2
  <2>2. Digits(s) = <<>> /\ Digits(v) = <<>>
    BY <1>1, <1>2, <2>1, NoDigits
  <2> QED
    BY <1>1, <2>2 DEF s
<1>3. CASE \E k \in 1 .. Len(v) : v[k] # 0 /\ \A i \in 1 .. k - 1 : v[i] = 0
  <2>1. PICK k \in 1 .. Len(v) : v[k] # 0 /\ \A i \in 1 .. k - 1 : v[i] = 0
    BY <1>3
  <2> DEFINE m == n + k
  <2>2. m \in 1 .. Len(s) /\ s[m] # 0
    BY <1>1, <2>1
  <2>3. \A i \in 1 .. m - 1 : s[i] = 0
    <3> SUFFICES ASSUME NEW i \in 1 .. m - 1 PROVE s[i] = 0
      OBVIOUS
    <3>1. CASE i <= n
      BY <1>1, <3>1
    <3>2. CASE ~(i <= n)
      <4>1. i - n \in 1 .. k - 1 /\ i - n \in 1 .. Len(v) /\ n + (i - n) = i
        BY <1>1, <3>2
      <4> QED
        BY <1>1, <2>1, <4>1
    <3> QED
      BY <3>1, <3>2
  <2>4. Digits(v) = SubSeq(v, k, Len(v))
    BY <2>1, DigitsFrom
  <2> DEFINE a == SubSeq(s, m, Len(s))
             b == SubSeq(v, k, Len(v))
  <2>5. Digits(s) = a
    <3> HIDE DEF m
    <3> QED
      BY <1>1, <2>2, <2>3, DigitsFrom
  <2>6. /\ a \in Seq(Byte) /\ Len(a) = Len(v) - k + 1
        /\ \A i \in 1 .. Len(v) - k + 1 : a[i] = s[m + i - 1]
    BY <1>1, <2>2
  <2>7. /\ b \in Seq(Byte) /\ Len(b) = Len(v) - k + 1
        /\ \A i \in 1 .. Len(v) - k + 1 : b[i] = v[k + i - 1]
    OBVIOUS
  <2>8. \A i \in 1 .. Len(v) - k + 1 : s[m + i - 1] = v[k + i - 1]
    <3> SUFFICES ASSUME NEW i \in 1 .. Len(v) - k + 1 PROVE s[m + i - 1] = v[k + i - 1]
      OBVIOUS
    <3>1. k + i - 1 \in 1 .. Len(v) /\ m + i - 1 = n + (k + i - 1)
      BY <1>1
    <3> QED
      BY <1>1, <3>1
  <2> HIDE DEF a, b
  <2>9. a = b
    BY <2>6, <2>7, <2>8, SeqEqual
  <2> QED
    BY <1>1, <2>4, <2>5, <2>9 DEF s, b
<1> QED
  BY <1>2, <1>3, FirstDigit

\* The bytes of an mpint, and what is written of them.
Mpint(value) ==
    IF Digits(value) # <<>> /\ Digits(value)[1] >= 128 THEN <<0>> \o Digits(value)
    ELSE Digits(value)

\* push_mpint writes a number that is not negative and has the digits of value.
LEMMA MpintFaithful ==
    ASSUME NEW value \in Seq(Byte)
    PROVE  /\ PushMpint(value) = PushString(Mpint(value))
           /\ Mpint(value) \in Seq(Byte) /\ Digits(Mpint(value)) = Digits(value)
           /\ Mpint(value) = <<>> \/ Mpint(value)[1] < 128
<1> DEFINE d == Digits(value)
<1>1. PushMpint(value) = PushString(Mpint(value))
  BY Zenon DEF PushMpint, Mpint, Digits
<1>2. CASE \A i \in 1 .. Len(value) : value[i] = 0
  <2>1. d = <<>>
    BY <1>2, NoDigits
  <2>2. Mpint(value) = <<>>
    BY <2>1 DEF Mpint
  <2>3. Digits(<<>>) = <<>> /\ <<>> \in Seq(Byte)
    <3>1. <<>> \in Seq(Byte) /\ \A i \in 1 .. Len(<<>>) : <<>>[i] = 0
      OBVIOUS
    <3> QED
      BY <3>1, NoDigits
  <2> QED
    BY <1>1, <2>1, <2>2, <2>3
<1>3. CASE \E k \in 1 .. Len(value) : value[k] # 0 /\ \A i \in 1 .. k - 1 : value[i] = 0
  <2>1. PICK k \in 1 .. Len(value) : value[k] # 0 /\ \A i \in 1 .. k - 1 : value[i] = 0
    BY <1>3
  <2>2. d = SubSeq(value, k, Len(value))
    BY <2>1, DigitsFrom
  <2>3. d \in Seq(Byte) /\ Len(d) >= 1 /\ d[1] # 0 /\ d[1] \in Byte
    BY <2>1, <2>2
  <2> HIDE DEF d
  <2>4. Digits(d) = d
    <3>1. 1 \in 1 .. Len(d) /\ \A i \in 1 .. 1 - 1 : d[i] = 0
      BY <2>3
    <3>2. Digits(d) = SubSeq(d, 1, Len(d))
      BY <2>3, <3>1, DigitsFrom
    <3> QED
      BY <2>3, <3>2
  <2>5. CASE d[1] >= 128
    <3>1. Mpint(value) = <<0>> \o d
      BY <2>3, <2>5 DEF Mpint, d
    <3>2. <<0>> \in Seq(Byte) /\ Len(<<0>>) = 1 /\ \A i \in 1 .. Len(<<0>>) : <<0>>[i] = 0
      <4>1. 0 \in Byte
        BY DEF Byte
      <4> QED
        BY <4>1
    <3>3. <<0>> \o d \in Seq(Byte) /\ Digits(<<0>> \o d) = Digits(d)
      BY <2>3, <3>2, DigitsPadded
    <3>4. (<<0>> \o d)[1] = 0
      BY <2>3
    <3> QED
      BY <1>1, <2>4, <3>1, <3>3, <3>4 DEF d
  <2>6. CASE ~(d[1] >= 128)
    <3>1. Mpint(value) = d
      BY <2>3, <2>6 DEF Mpint, d
    <3>2. d[1] < 128
      <4>1. PICK x \in Byte : x = d[1]
        BY <2>3
      <4> QED
        BY <2>6, <4>1 DEF Byte
    <3> QED
      BY <1>1, <2>3, <2>4, <3>1, <3>2 DEF d
  <2> QED
    BY <2>5, <2>6
<1> QED
  BY <1>2, <1>3, FirstDigit

\* A part of a part.
LEMMA PartOfPart ==
    ASSUME NEW s \in Seq(Byte), NEW n \in 0 .. Len(s), NEW a \in 1 .. n, NEW b \in 0 .. n
    PROVE  SubSeq(SubSeq(s, 1, n), a, b) = SubSeq(s, a, b)
  OBVIOUS

\* Three sequences, the first of four bytes, are found in their concatenation.
SplitsInThree(s, u, v, rest) ==
    /\ s \in Seq(Byte) /\ Len(s) = 4 + Len(v) + Len(rest)
    /\ SubSeq(s, 1, 4) = u /\ SubSeq(s, 5, 4 + Len(v)) = v
    /\ SubSeq(s, 4 + Len(v) + 1, Len(s)) = rest

\* A length, a string and what follows them are found again.
LEMMA SplitThree ==
    ASSUME NEW u \in Seq(Byte), Len(u) = 4, NEW v \in Seq(Byte), NEW rest \in Seq(Byte),
           NEW s, s = (u \o v) \o rest
    PROVE  SplitsInThree(s, u, v, rest)
<1> DEFINE p == u \o v
           n == 4 + Len(v)
<1>0. Splits(p, u, v)
  BY Joined, Zenon
<1>1. p \in Seq(Byte) /\ Len(p) = n /\ SubSeq(p, 1, 4) = u /\ SubSeq(p, 5, n) = v
  <2> HIDE DEF p
  <2> QED
    BY <1>0 DEF Splits
<1>2. n \in Nat /\ n >= 4
  OBVIOUS
<1>3. s = p \o rest
  OBVIOUS
<1> HIDE DEF p, n
<1>4. /\ s \in Seq(Byte) /\ Len(s) = n + Len(rest)
      /\ SubSeq(s, 1, n) = p /\ SubSeq(s, n + 1, Len(s)) = rest
  <2>1. Splits(p \o rest, p, rest)
    BY <1>1, Joined, Zenon
  <2> QED
    BY <1>1, <1>3, <2>1 DEF Splits
<1>5. n \in 0 .. Len(s) /\ 1 \in 1 .. n /\ 4 \in 0 .. n
  BY <1>2, <1>4
<1>6. SubSeq(p, 1, 4) = SubSeq(s, 1, 4)
  BY <1>4, <1>5, PartOfPart
<1>7. SubSeq(p, 5, n) = SubSeq(s, 5, n)
  BY <1>2, <1>4
<1> QED
  BY <1>1, <1>4, <1>6, <1>7 DEF n, SplitsInThree

\* A string that was written is read back.
LEMMA StringRead ==
    ASSUME NEW c \in Cursors, c.ok, NEW limit \in Nat,
           NEW v \in Seq(Byte), NEW rest \in Seq(Byte), c.rest = PushString(v) \o rest,
           Len(v) <= limit, FitsU32(Len(v))
    PROVE  TakeField(c, String(limit))
             = [ok |-> TRUE, rest |-> rest, fields |-> Append(c.fields, v)]
<1> DEFINE size == Number(SubSeq(c.rest, 1, 4))
           body == SubSeq(c.rest, 5, 4 + size)
           tail == SubSeq(c.rest, 4 + size + 1, Len(c.rest))
<1>1. PICK u \in Seq(Byte) :
        u = U32(Len(v)) /\ Len(u) = 4 /\ Number(u) = Len(v) /\ Len(v) \in Nat
  BY NumberOfU32
<1>2. c.rest = (u \o v) \o rest
  BY <1>1 DEF PushString
<1>3. /\ c.rest \in Seq(Byte) /\ Len(c.rest) = 4 + Len(v) + Len(rest)
      /\ SubSeq(c.rest, 1, 4) = u /\ SubSeq(c.rest, 5, 4 + Len(v)) = v
      /\ SubSeq(c.rest, 4 + Len(v) + 1, Len(c.rest)) = rest
  <2>1. SplitsInThree(c.rest, u, v, rest)
    BY <1>1, <1>2, SplitThree
  <2> QED
    BY <2>1 DEF SplitsInThree
<1>4. size = Len(v) /\ body = v /\ tail = rest
  BY <1>1, <1>3
<1>5. c.ok /\ Len(c.rest) >= 4 /\ size <= limit /\ Len(c.rest) >= 4 + size
  BY <1>1, <1>3, <1>4, SMTT(30)
<1>6. TakeField(c, String(limit)) = Advance(c, 4 + size, body)
  BY <1>5 DEF TakeField, String
<1> HIDE DEF size, body, tail
<1> QED
  BY <1>4, <1>6 DEF Advance, tail

-----------------------------------------------------------------------------
(* The data path.                                                          *)

\* A packet is taken for a request only if it is its one encoding.
LEMMA RequestStrict ==
    ASSUME NEW p \in Packets, packet' = p, parsed' = ParseRequest(p)
    PROVE  ParseStrict'
<1>1. p \in Seq(Byte)
  BY PathAssumption
<1>2. ParseRequest(p).kind = "sign" => p = EncodeRequest(ParseRequest(p))
  BY <1>1, SignRequestStrict DEF EncodeRequest
<1>3. ParseRequest(p).kind = "identities" => p = <<11>>
  BY Zenon DEF ParseRequest, Rejected
<1> QED
  BY <1>2, <1>3 DEF ParseStrict

\* Whatever packets are sent, the agent acts on one only if it is the encoding
\* of the request it is taken for: no bytes are left over, no length is counted
\* twice, and no two packets ask for the same signature.
THEOREM PathParseStrict == PathSpec => []ParseStrict
<1>1. PathInit => ParseStrict
  BY DEF PathInit, ParseStrict, Rejected
<1>2. ParseStrict /\ [PathNext]_vars => ParseStrict'
  <2> SUFFICES ASSUME ParseStrict, [PathNext]_vars
               PROVE  ParseStrict'
    OBVIOUS
  <2>1. ASSUME NEW p \in Packets, Handle(p)
        PROVE  ParseStrict'
    <3>1. packet' = p /\ parsed' = ParseRequest(p)
      BY <2>1 DEF Handle
    <3> QED
      BY <3>1, RequestStrict
  <2>2. CASE UNCHANGED <<packet, parsed>>
    BY <2>2 DEF ParseStrict
  <2>3. ASSUME AskPin \/ PathConnect \/ SignWithKey \/ PathStep \/ CreateKey
                 \/ ((OtherTries \/ TpmReset) /\ UNCHANGED pathVars) \/ UNCHANGED vars
        PROVE  UNCHANGED <<packet, parsed>>
    BY <2>3 DEF AskPin, PathConnect, SignWithKey, PathStep, CreateKey, pathVars, vars
  <2> QED
    BY <2>1, <2>2, <2>3 DEF PathNext
<1> QED
  BY <1>1, <1>2, PTL DEF PathSpec

\* A length below the limit of a packet fits its four bytes.
LEMMA PacketsFit ==
    ASSUME NEW n \in Nat, n <= MaxPacket
    PROVE  FitsU32(n)
  BY FormatsAssumption, PacketAssumption, SMT DEF FitsU32

\* What one string, and two, look like once they were read.
ReadOne(c, v) == c = [ok |-> TRUE, rest |-> <<>>, fields |-> <<v>>]
ReadTwo(c, v, w) == c = [ok |-> TRUE, rest |-> <<>>, fields |-> <<v, w>>]

\* A string written alone is read back whole.
LEMMA OneStringRead ==
    ASSUME NEW v \in Seq(Byte), Len(v) <= MaxPacket
    PROVE  ReadOne(Take(Cursor(PushString(v)), <<String(MaxPacket)>>), v)
<1> DEFINE c == Cursor(PushString(v))
           format == <<String(MaxPacket)>>
<1>1. c \in Cursors /\ c.ok /\ c.rest = PushString(v) /\ c.fields = <<>>
  BY EncodedBytes DEF Cursor, Cursors
<1>2. c.rest = PushString(v) \o <<>>
  BY <1>1, EncodedBytes
<1> HIDE DEF c
<1>3. PICK h \in [0 .. 1 -> Cursors] : Reads(h, c, format, 1)
  <2>1. DOMAIN format = 1 .. 1 /\ 1 \in Nat
    OBVIOUS
  <2>2. ReadsInto(Cursors, format, 1)
    <3>1. \A k \in 1 .. 1 : format[k] = String(MaxPacket)
      OBVIOUS
    <3>2. \A x \in Cursors : TakeField(x, String(MaxPacket)) \in Cursors
      BY StringTaken, FormatsAssumption
    <3> QED
      BY <3>1, <3>2, Zenon DEF ReadsInto
  <2> QED
    BY <1>1, <2>1, <2>2, TakeSteps
<1>4. Take(c, format) = TakeField(c, String(MaxPacket))
  BY <1>3 DEF Reads
<1>5. Len(v) \in Nat /\ FitsU32(Len(v)) /\ MaxPacket \in Nat /\ <<>> \in Seq(Byte)
  BY PacketsFit, FormatsAssumption
<1>6. TakeField(c, String(MaxPacket))
        = [ok |-> TRUE, rest |-> <<>>, fields |-> Append(c.fields, v)]
  BY <1>1, <1>2, <1>5, StringRead
<1>7. Append(c.fields, v) = <<v>>
  BY <1>1
<1> QED
  BY <1>4, <1>6, <1>7 DEF ReadOne, c

\* The second field after the first.
LEMMA PairAppended ==
    ASSUME NEW S, NEW v \in S, NEW w \in S
    PROVE  Append(<<v>>, w) = <<v, w>>
<1> DEFINE a == Append(<<v>>, w)
           b == <<v, w>>
<1>1. <<v>> \in Seq(S) /\ Len(<<v>>) = 1 /\ <<v>>[1] = v
  OBVIOUS
<1>2. /\ a \in Seq(S) /\ Len(a) = 2 /\ a[1] = v /\ a[2] = w
  BY <1>1, AppendProperties
<1>3. b \in Seq(S) /\ Len(b) = 2 /\ b[1] = v /\ b[2] = w
  OBVIOUS
<1> HIDE DEF a, b
<1>4. \A i \in 1 .. Len(a) : a[i] = b[i]
  BY <1>2, <1>3
<1>5. a = b
  BY <1>2, <1>3, <1>4, SeqEqual
<1> QED
  BY <1>5 DEF a, b

\* Two strings in a row are read back, and nothing is left.
LEMMA TwoStringsRead ==
    ASSUME NEW v \in Seq(Byte), NEW w \in Seq(Byte), Len(v) <= MaxPacket, Len(w) <= MaxPacket
    PROVE  ReadTwo(Take(Cursor(PushString(v) \o PushString(w)),
                        <<String(MaxPacket), String(MaxPacket)>>), v, w)
<1> DEFINE c == Cursor(PushString(v) \o PushString(w))
           format == <<String(MaxPacket), String(MaxPacket)>>
<1>1. PushString(v) \in Seq(Byte) /\ PushString(w) \in Seq(Byte)
  BY EncodedBytes
<1>2. PushString(v) \o PushString(w) \in Seq(Byte)
  BY <1>1, ConcatProperties
<1>3. c \in Cursors /\ c.ok /\ c.rest = PushString(v) \o PushString(w) /\ c.fields = <<>>
  BY <1>2 DEF Cursor, Cursors
<1> HIDE DEF c
<1>4. PICK h \in [0 .. 2 -> Cursors] : Reads(h, c, format, 2)
  <2>1. DOMAIN format = 1 .. 2 /\ 2 \in Nat
    OBVIOUS
  <2>2. ReadsInto(Cursors, format, 2)
    <3>1. \A k \in 1 .. 2 : format[k] = String(MaxPacket)
      OBVIOUS
    <3>2. \A x \in Cursors : TakeField(x, String(MaxPacket)) \in Cursors
      BY StringTaken, FormatsAssumption
    <3> QED
      BY <3>1, <3>2, Zenon DEF ReadsInto
  <2> QED
    BY <1>3, <2>1, <2>2, TakeSteps
<1>5. /\ h[1] = TakeField(c, String(MaxPacket))
      /\ Take(c, format) = TakeField(h[1], String(MaxPacket)) /\ h[1] \in Cursors
  BY <1>4 DEF Reads
<1>6. /\ FitsU32(Len(v)) /\ FitsU32(Len(w)) /\ MaxPacket \in Nat /\ <<>> \in Seq(Byte)
  <2>1. Len(v) \in Nat /\ Len(w) \in Nat
    OBVIOUS
  <2> QED
    BY <2>1, PacketsFit, FormatsAssumption
<1>7. h[1] = [ok |-> TRUE, rest |-> PushString(w), fields |-> Append(c.fields, v)]
  BY <1>1, <1>3, <1>5, <1>6, StringRead
<1>8. h[1].ok /\ h[1].fields = <<v>> /\ h[1].rest = PushString(w) \o <<>>
  <2>1. Append(c.fields, v) = <<v>>
    BY <1>3
  <2>2. PushString(w) \o <<>> = PushString(w)
    BY <1>1
  <2> QED
    BY <1>7, <2>1, <2>2
<1>9. TakeField(h[1], String(MaxPacket))
        = [ok |-> TRUE, rest |-> <<>>, fields |-> Append(h[1].fields, w)]
  BY <1>5, <1>6, <1>8, StringRead
<1>10. Append(h[1].fields, w) = <<v, w>>
  <2>1. Append(<<v>>, w) = <<v, w>>
    BY PairAppended
  <2>2. h[1].fields = <<v>>
    BY <1>8
  <2> QED
    BY <2>1, <2>2, Zenon
<1> QED
  BY <1>5, <1>9, <1>10 DEF ReadTwo, c

\* The body of a response, after the length and the message number.
LEMMA AfterNumber ==
    ASSUME NEW u \in Seq(Byte), Len(u) = 4, NEW b \in Seq(Byte), NEW n \in Byte
    PROVE  LET s == u \o (<<n>> \o b) IN SubSeq(s, 6, Len(s)) = b
<1> DEFINE q == <<n>> \o b
           s == u \o q
           a == SubSeq(s, 6, Len(s))
<1>1. <<n>> \in Seq(Byte) /\ Len(<<n>>) = 1
  OBVIOUS
<1>2. Splits(q, <<n>>, b)
  BY <1>1, Joined
<1> HIDE DEF q
<1>3. q \in Seq(Byte) /\ Len(q) = 1 + Len(b) /\ b = SubSeq(q, 2, Len(q))
  BY <1>1, <1>2 DEF Splits
<1>4. Splits(s, u, q)
  BY <1>3, Joined
<1> HIDE DEF s
<1>5. s \in Seq(Byte) /\ Len(s) = 4 + Len(q) /\ q = SubSeq(s, 5, Len(s))
  BY <1>4 DEF Splits
<1>6. \A i \in 1 .. Len(b) : b[i] = q[1 + i] /\ q[1 + i] = s[5 + i]
  BY <1>3, <1>5
<1>7. a \in Seq(Byte) /\ Len(a) = Len(b) /\ \A i \in 1 .. Len(b) : a[i] = s[5 + i]
  BY <1>3, <1>5
<1> HIDE DEF a
<1>8. a = b
  BY <1>6, <1>7, SeqEqual
<1> QED
  BY <1>8 DEF a, s, q

\* The two halves of a raw signature.
Zeros(n) == [i \in 1 .. n |-> 0]

\* append_padded keeps the number and gives it the width of the curve.
LEMMA PaddedNumber ==
    ASSUME NEW v \in Seq(Byte), NEW width \in Nat, Len(v) <= width
    PROVE  /\ Zeros(width - Len(v)) \o v \in Seq(Byte)
           /\ Len(Zeros(width - Len(v)) \o v) = width
           /\ Digits(Zeros(width - Len(v)) \o v) = Digits(v)
<1> DEFINE n == width - Len(v)
           z == Zeros(n)
<1>1. n \in Nat /\ 0 \in Byte
  BY DEF Byte
<1>2. z \in Seq(Byte) /\ Len(z) = n /\ \A i \in 1 .. Len(z) : z[i] = 0
  BY <1>1 DEF Zeros
<1> HIDE DEF z
<1>3. z \o v \in Seq(Byte) /\ Digits(z \o v) = Digits(v)
  BY <1>2, DigitsPadded
<1>4. Len(z \o v) = n + Len(v)
  BY <1>2
<1> QED
  BY <1>3, <1>4 DEF z

\* The halves of a raw signature are the two numbers of the TPM.
LEMMA RawHalves ==
    ASSUME NEW r \in Seq(Byte), NEW s \in Seq(Byte), NEW width \in Nat,
           RawSignature(r, s, width) # Rejected
    PROVE  LET raw == RawSignature(r, s, width).bytes
           IN /\ SubSeq(raw, 1, width) \in Seq(Byte)
              /\ SubSeq(raw, width + 1, 2 * width) \in Seq(Byte)
              /\ Digits(SubSeq(raw, 1, width)) = Digits(r)
              /\ Digits(SubSeq(raw, width + 1, 2 * width)) = Digits(s)
<1> DEFINE a == Zeros(width - Len(r)) \o r
           b == Zeros(width - Len(s)) \o s
           raw == RawSignature(r, s, width).bytes
           y == Zeros(width - Len(r))
           z == Zeros(width - Len(s))
<1>1. Len(r) <= width /\ Len(s) <= width
  BY DEF RawSignature
<1>2. /\ a \in Seq(Byte) /\ Len(a) = width /\ Digits(a) = Digits(r)
      /\ b \in Seq(Byte) /\ Len(b) = width /\ Digits(b) = Digits(s)
  BY <1>1, PaddedNumber
<1>3. y \in Seq(Byte) /\ z \in Seq(Byte)
  <2>1. width - Len(r) \in Nat /\ width - Len(s) \in Nat /\ 0 \in Byte
    BY <1>1 DEF Byte
  <2> QED
    BY <2>1 DEF Zeros
<1>4. raw = (((<<>> \o y) \o r) \o z) \o s
  BY <1>1, Zenon DEF RawSignature, AppendPadded, Zeros, Rejected
<1> HIDE DEF y, z
<1>5. <<>> \o y = y
  BY <1>3
<1>6. ((y \o r) \o z) \o s = (y \o r) \o (z \o s)
  <2> DEFINE x == y \o r
  <2>1. x \in Seq(Byte)
    BY <1>3
  <2> HIDE DEF x
  <2> QED
    BY <1>3, <2>1, SMTT(30)
<1>7. raw = a \o b
  BY <1>4, <1>5, <1>6 DEF y, z
<1> HIDE DEF a, b, raw
<1>8. Splits(raw, a, b)
  BY <1>2, <1>7, Joined
<1>9. SubSeq(raw, 1, width) = a /\ SubSeq(raw, width + 1, 2 * width) = b
  BY <1>2, <1>8 DEF Splits
<1> QED
  BY <1>2, <1>9 DEF raw

\* The client gets a whole response, with these two numbers in it.
Received(got, keyType, numbers) == got.ok /\ got.type = keyType /\ got.numbers = numbers

\* A client reads the mpints of both halves out of the response, and no more.
LEMMA ResponseRead ==
    ASSUME NEW keyType \in Seq(Byte), NEW width \in Nat, NEW raw,
           SubSeq(raw, 1, width) \in Seq(Byte), SubSeq(raw, width + 1, 2 * width) \in Seq(Byte),
           EcdsaSignatureResponse(keyType, width, raw).kind = "packet"
    PROVE  Received(ReadSignature(EcdsaSignatureResponse(keyType, width, raw).bytes), keyType,
                    <<Mpint(SubSeq(raw, 1, width)), Mpint(SubSeq(raw, width + 1, 2 * width))>>)
<1> DEFINE a == SubSeq(raw, 1, width)
           b == SubSeq(raw, width + 1, 2 * width)
           numbers == PushMpint(a) \o PushMpint(b)
           blob == PushString(keyType) \o PushString(numbers)
           payload == <<14>> \o PushString(blob)
           bytes == U32(Len(payload)) \o payload
           Two == <<String(MaxPacket), String(MaxPacket)>>
<1>1. /\ EcdsaSignatureResponse(keyType, width, raw).bytes = bytes
      /\ ~(Len(payload) > MaxPacket)
  BY Zenon DEF EcdsaSignatureResponse, CheckedFrame, Frame, Rejected
<1>2. /\ PushMpint(a) = PushString(Mpint(a)) /\ PushMpint(b) = PushString(Mpint(b))
      /\ Mpint(a) \in Seq(Byte) /\ Mpint(b) \in Seq(Byte)
  BY MpintFaithful
<1>3. numbers = PushString(Mpint(a)) \o PushString(Mpint(b))
  BY <1>2
<1> HIDE DEF a, b, numbers
<1>4. numbers \in Seq(Byte) /\ Len(numbers) = (4 + Len(Mpint(a))) + (4 + Len(Mpint(b)))
  <2>1. /\ PushString(Mpint(a)) \in Seq(Byte) /\ Len(PushString(Mpint(a))) = 4 + Len(Mpint(a))
        /\ PushString(Mpint(b)) \in Seq(Byte) /\ Len(PushString(Mpint(b))) = 4 + Len(Mpint(b))
    BY <1>2, EncodedBytes
  <2>2. Splits(PushString(Mpint(a)) \o PushString(Mpint(b)),
               PushString(Mpint(a)), PushString(Mpint(b)))
    BY <2>1, Joined
  <2> QED
    BY <1>3, <2>1, <2>2 DEF Splits
<1>5. blob \in Seq(Byte) /\ Len(blob) = (4 + Len(keyType)) + (4 + Len(numbers))
  <2>1. /\ PushString(keyType) \in Seq(Byte) /\ Len(PushString(keyType)) = 4 + Len(keyType)
        /\ PushString(numbers) \in Seq(Byte) /\ Len(PushString(numbers)) = 4 + Len(numbers)
    BY <1>4, EncodedBytes
  <2>2. Splits(blob, PushString(keyType), PushString(numbers))
    BY <2>1, Joined
  <2> QED
    BY <2>1, <2>2 DEF Splits
<1>6. blob = PushString(keyType) \o PushString(numbers)
  OBVIOUS
<1> HIDE DEF blob
<1>7. /\ PushString(blob) \in Seq(Byte) /\ Len(PushString(blob)) = 4 + Len(blob)
      /\ 14 \in Byte /\ <<14>> \in Seq(Byte) /\ Len(<<14>>) = 1
  <2>1. 14 \in Byte
    BY DEF Byte
  <2>2. <<14>> \in Seq(Byte) /\ Len(<<14>>) = 1
    BY <2>1
  <2>3. PushString(blob) \in Seq(Byte) /\ Len(PushString(blob)) = 4 + Len(blob)
    BY <1>5, EncodedBytes
  <2> QED
    BY <2>1, <2>2, <2>3
<1>8. payload \in Seq(Byte) /\ Len(payload) = 1 + (4 + Len(blob))
  <2>1. Splits(payload, <<14>>, PushString(blob))
    BY <1>7, Joined
  <2> QED
    BY <1>7, <2>1 DEF Splits
<1>9. /\ Len(blob) <= MaxPacket /\ Len(keyType) <= MaxPacket /\ Len(numbers) <= MaxPacket
      /\ Len(Mpint(a)) <= MaxPacket /\ Len(Mpint(b)) <= MaxPacket
  <2>1. /\ Len(blob) \in Nat /\ Len(keyType) \in Nat /\ Len(numbers) \in Nat
        /\ Len(Mpint(a)) \in Nat /\ Len(Mpint(b)) \in Nat /\ MaxPacket \in Nat
    BY <1>2, <1>4, <1>5, FormatsAssumption
  <2>2. 1 + (4 + Len(blob)) <= MaxPacket
    BY <1>1, <1>8, <2>1
  <2> QED
    BY <1>4, <1>5, <2>1, <2>2
<1>10. SubSeq(bytes, 6, Len(bytes)) = PushString(blob)
  <2>1. U32(Len(payload)) \in Seq(Byte) /\ Len(U32(Len(payload))) = 4
    <3>1. Len(payload) \in Nat
      BY <1>8
    <3> QED
      BY <3>1, EncodedBytes
  <2> QED
    BY <1>7, <2>1, AfterNumber
<1> HIDE DEF bytes
<1> DEFINE outer == Take(Cursor(SubSeq(bytes, 6, Len(bytes))), <<String(MaxPacket)>>)
           parts == Take(Cursor(outer.fields[1]), Two)
           read == Take(Cursor(parts.fields[2]), Two)
<1>11. outer.fields[1] = blob
  <2>1. ReadOne(outer, blob)
    BY <1>5, <1>9, <1>10, OneStringRead
  <2> HIDE DEF outer
  <2> QED
    BY <2>1 DEF ReadOne
<1>12. Complete(parts) /\ parts.fields[1] = keyType /\ parts.fields[2] = numbers
  <2>1. parts = Take(Cursor(PushString(keyType) \o PushString(numbers)), Two)
    BY <1>6, <1>11
  <2>2. ReadTwo(parts, keyType, numbers)
    BY <1>4, <1>9, <2>1, TwoStringsRead
  <2> HIDE DEF parts
  <2> QED
    BY <2>2 DEF ReadTwo, Complete
<1>13. Complete(read) /\ read.fields = <<Mpint(a), Mpint(b)>>
  <2>1. read = Take(Cursor(PushString(Mpint(a)) \o PushString(Mpint(b))), Two)
    BY <1>3, <1>12
  <2>2. ReadTwo(read, Mpint(a), Mpint(b))
    BY <1>2, <1>9, <2>1, TwoStringsRead
  <2> HIDE DEF read
  <2> QED
    BY <2>2 DEF ReadTwo, Complete
<1>14. ReadSignature(bytes) = [type |-> parts.fields[1], ok |-> Complete(parts) /\ Complete(read),
                               numbers |-> read.fields]
  BY Zenon DEF ReadSignature
<1> HIDE DEF outer, parts, read
<1>15. Received(ReadSignature(bytes), keyType, <<Mpint(a), Mpint(b)>>)
  <2>1. (Complete(parts) /\ Complete(read)) = TRUE
    BY <1>12, <1>13, Zenon
  <2>2. ReadSignature(bytes) = [type |-> parts.fields[1], ok |-> TRUE, numbers |-> read.fields]
    BY <1>14, <2>1, Zenon
  <2> QED
    BY <1>12, <1>13, <2>2 DEF Received
<1> QED
  BY <1>1, <1>15 DEF a, b

\* The numbers a client reads are those of the TPM, and they are positive.
LEMMA ResponseFaithful ==
    ASSUME NEW r \in Seq(Byte), NEW s \in Seq(Byte), NEW width \in Nat,
           NEW keyType \in Seq(Byte), NEW response,
           RawSignature(r, s, width) # Rejected, response.kind = "packet",
           response = EcdsaSignatureResponse(keyType, width, RawSignature(r, s, width).bytes)
    PROVE  LET got == ReadSignature(response.bytes)
           IN /\ got.ok /\ got.type = keyType
              /\ \A i \in 1 .. 2 : /\ Digits(got.numbers[i]) = Digits(<<r, s>>[i])
                                   /\ got.numbers[i] = <<>> \/ got.numbers[i][1] < 128
<1> DEFINE raw == RawSignature(r, s, width).bytes
           a == SubSeq(raw, 1, width)
           b == SubSeq(raw, width + 1, 2 * width)
           got == ReadSignature(response.bytes)
<1>1. a \in Seq(Byte) /\ b \in Seq(Byte) /\ Digits(a) = Digits(r) /\ Digits(b) = Digits(s)
  BY RawHalves
<1>2. got.ok /\ got.type = keyType /\ got.numbers = <<Mpint(a), Mpint(b)>>
  <2>1. EcdsaSignatureResponse(keyType, width, raw).kind = "packet"
    BY Zenon
  <2> HIDE DEF raw
  <2>2. Received(ReadSignature(EcdsaSignatureResponse(keyType, width, raw).bytes), keyType,
                 <<Mpint(a), Mpint(b)>>)
    BY <1>1, <2>1, ResponseRead
  <2>3. got = ReadSignature(EcdsaSignatureResponse(keyType, width, raw).bytes)
    BY Zenon DEF raw
  <2> HIDE DEF a, b, got
  <2> QED
    BY <2>2, <2>3 DEF Received
<1> HIDE DEF a, b, got
<1>3. /\ Digits(Mpint(a)) = Digits(a) /\ Digits(Mpint(b)) = Digits(b)
      /\ Mpint(a) = <<>> \/ Mpint(a)[1] < 128
      /\ Mpint(b) = <<>> \/ Mpint(b)[1] < 128
  BY <1>1, MpintFaithful
<1>4. /\ got.numbers[1] = Mpint(a) /\ got.numbers[2] = Mpint(b)
      /\ <<r, s>>[1] = r /\ <<r, s>>[2] = s
  BY <1>2
<1>5. \A i \in 1 .. 2 : /\ Digits(got.numbers[i]) = Digits(<<r, s>>[i])
                        /\ got.numbers[i] = <<>> \/ got.numbers[i][1] < 128
  <2>1. \A i \in 1 .. 2 : i = 1 \/ i = 2
    OBVIOUS
  <2> QED
    BY <1>1, <1>3, <1>4, <2>1, Zenon
<1> QED
  BY <1>2, <1>5 DEF got

\* An answer that carries a signature was made from the numbers of the TPM.
LEMMA AnswerFaithful ==
    ASSUME NEW r \in Scalars, NEW s \in Scalars, key' = key, scalars' = <<r, s>>,
           reply' = LET width == ecdsa_component_size(AlgorithmOf(key))
                        raw == RawSignature(r, s, width)
                    IN IF raw = Rejected THEN Failure
                       ELSE EcdsaSignatureResponse(ssh_key_type(AlgorithmOf(key)), width, raw.bytes)
    PROVE  SignatureFaithful'
<1> DEFINE width == ecdsa_component_size(AlgorithmOf(key))
           keyType == ssh_key_type(AlgorithmOf(key))
           raw == RawSignature(r, s, width)
<1> SUFFICES ASSUME reply'.kind = "packet"
             PROVE  LET got == ReadSignature(reply'.bytes)
                    IN /\ got.ok /\ got.type = keyType
                       /\ \A i \in 1 .. 2 : /\ Digits(got.numbers[i]) = Digits(<<r, s>>[i])
                                            /\ got.numbers[i] = <<>> \/ got.numbers[i][1] < 128
  BY Zenon DEF SignatureFaithful
<1>1. r \in Seq(Byte) /\ s \in Seq(Byte)
  BY PathAssumption
<1>2. width \in Nat
  BY DEF ecdsa_component_size
<1>3. keyType \in Seq(Byte)
  <2>1. {50, 51, 52, 53, 54, 56} \subseteq Byte
    BY DEF Byte
  <2> QED
    BY <2>1 DEF ssh_key_type
<1>4. raw # Rejected /\ reply' = EcdsaSignatureResponse(keyType, width, raw.bytes)
  <2>1. Failure.kind # "packet"
    BY DEF Failure
  <2> QED
    BY <2>1, Zenon
<1> HIDE DEF width, keyType
<1> QED
  BY <1>1, <1>2, <1>3, <1>4, ResponseFaithful

\* The client gets the numbers the TPM made, whatever zeros and high bits they
\* begin with, for every pair of numbers, both curves and any history of calls.
THEOREM PathSignatureFaithful == PathSpec => []SignatureFaithful
<1>1. PathInit => SignatureFaithful
  BY DEF PathInit, SignatureFaithful, Failure
<1>2. SignatureFaithful /\ [PathNext]_vars => SignatureFaithful'
  <2> SUFFICES ASSUME SignatureFaithful, [PathNext]_vars
               PROVE  SignatureFaithful'
    OBVIOUS
  <2>1. CASE UNCHANGED <<reply, key, scalars>>
    BY <2>1 DEF SignatureFaithful
  <2>2. CASE reply' = Failure \/ reply' = Pending \/ scalars' = <<>>
    <3>1. Failure.kind # "packet" /\ Pending.kind # "packet"
      BY DEF Failure, Pending
    <3> QED
      BY <2>2, <3>1, Zenon DEF SignatureFaithful
  <2>3. ASSUME NEW p \in Packets, Handle(p)
        PROVE  scalars' = <<>>
    BY <2>3 DEF Handle
  <2>4. ASSUME AskPin \/ PathConnect \/ SignWithKey
        PROVE  reply' = Failure \/ UNCHANGED <<reply, key, scalars>>
    BY <2>4, Zenon DEF AskPin, PathConnect, SignWithKey, Fails
  <2>5. CASE PathStep
    <3>1. CASE UNCHANGED <<reply, key, given, scalars>>
      BY <2>1, <3>1
    <3>2. CASE Fails
      BY <2>2, <3>2 DEF Fails
    <3>3. ASSUME NEW r \in Scalars, NEW s \in Scalars, key' = key, scalars' = <<r, s>>,
                 reply' = LET width == ecdsa_component_size(AlgorithmOf(key))
                              raw == RawSignature(r, s, width)
                          IN IF raw = Rejected THEN Failure
                             ELSE EcdsaSignatureResponse(ssh_key_type(AlgorithmOf(key)),
                                                         width, raw.bytes)
          PROVE  SignatureFaithful'
      BY <3>3, AnswerFaithful
    <3> QED
      BY <2>5, <3>1, <3>2, <3>3, Zenon DEF PathStep
  <2>6. ASSUME CreateKey \/ ((OtherTries \/ TpmReset) /\ UNCHANGED pathVars) \/ UNCHANGED vars
        PROVE  UNCHANGED <<reply, key, scalars>>
    BY <2>6 DEF CreateKey, pathVars, vars
  <2> QED
    BY <2>1, <2>2, <2>3, <2>4, <2>5, <2>6 DEF PathNext
<1> QED
  BY <1>1, <1>2, PTL DEF PathSpec
=============================================================================
