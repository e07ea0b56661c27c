----------------------------- MODULE TpmSession -----------------------------
(***************************************************************************)
(* EsapiTpm: what generate and sign leave behind in the TPM.  Each call is *)
(* a sequence of ESAPI calls, any of which may fail, inside salted HMAC    *)
(* sessions (with_encrypted_session).  One thread at a time uses the       *)
(* EsapiTpm; the dictionary-attack counter is shared with other programs.  *)
(*                                                                         *)
(* The TPM itself (Execute, the counter) is external.                      *)
(***************************************************************************)
EXTENDS Integers

CONSTANTS Pins,       \* non-empty PINs
          MaxTries,   \* TPM_PT_MAX_AUTH_FAIL
          MaxFaults   \* bound: failing ESAPI calls that are not TPM commands

Algorithms == {"EcdsaNistP256", "EcdsaNistP384"}
NoPolicy == "none"

ecc_curve(a) == IF a = "EcdsaNistP256" THEN "NistP256" ELSE "NistP384"
hash_algorithm(a) == IF a = "EcdsaNistP256" THEN "Sha256" ELSE "Sha384"
digest_size(a) == IF a = "EcdsaNistP256" THEN 32 ELSE 48

\* TpmAuthorization: None, or Pin of some bytes, which may be none.
NoAuth == "None"
EmptyPin == "empty"

ASSUME TpmAssumption ==
    /\ {NoAuth, EmptyPin} \cap Pins = {}
    /\ MaxTries \in Nat \ {0} /\ MaxFaults \in Nat

VARIABLES
    step,      \* where the call is; "idle" between calls
    call,      \* the operation, its arguments, and what it has made so far
    command,   \* the command of the current session: "create", "load", "sign"
    parent,    \* Option<EsapiTpm>: "none", "live", or "lost" to a TPM reset
    objects,   \* transient objects in the TPM besides the parent
    sessions,  \* sessions in the TPM
    failure,   \* the error the call will return, or "none"
    tries,     \* TPM_PT_LOCKOUT_COUNTER
    faults,    \* auxiliary: ESAPI calls that failed outside a TPM command
    first,     \* auxiliary: what failed first in the call
    outcome    \* what the last call returned

tpmVars == <<step, call, command, parent, objects, sessions, failure, tries,
             faults, first, outcome>>

NoCall == [op |-> "none"]

TpmInit ==
    /\ step = "idle" /\ call = NoCall /\ command = "none"
    /\ parent = "none" /\ objects = 0 /\ sessions = 0
    /\ failure = "none" /\ first = "none" /\ outcome = "none"
    /\ tries = 0 /\ faults = 0

-----------------------------------------------------------------------------
(* Pure parts.                                                             *)

\* A public area: curve, hash of its ECDSA scheme, the noDA attribute, and
\* whether it can be unmarshalled and all other attributes are those of a
\* signing key that cannot leave the TPM.
create_public(a, policy) ==
    [curve |-> ecc_curve(a), hash |-> hash_algorithm(a),
     noDA |-> policy = "NoPin", fixed |-> TRUE]

\* Fault: the noDA attribute is not compared with the recorded policy.
validate_public_IgnoresNoDA(public, a, policy) ==
    /\ public.fixed
    /\ public.curve = ecc_curve(a) /\ public.hash = hash_algorithm(a)

validate_public(public, a, policy) ==
    /\ public.fixed
    /\ public.noDA = (policy = "NoPin")
    /\ public.curve = ecc_curve(a) /\ public.hash = hash_algorithm(a)

\* authorization_value: the policy an authorization implies; an empty PIN is
\* refused rather than taken for no PIN.
authorization_value(auth) ==
    IF auth = NoAuth THEN "NoPin" ELSE IF auth = EmptyPin THEN NoPolicy ELSE "TpmPin"

TssErrors == {"AuthFail", "BadAuth", "Lockout", "Policy", "PolicyFail", "other"}

map_tss_error(e) ==
    CASE e \in {"AuthFail", "BadAuth"} -> "AuthorizationFailed"
      [] e = "Lockout" -> "DictionaryAttackLockout"
      [] e \in {"Policy", "PolicyFail"} -> "PolicyFailed"
      [] OTHER -> "Transport"

-----------------------------------------------------------------------------
(* A call returns, or remembers its first error and goes on.               *)

Return(result) ==
    /\ outcome' = result
    /\ step' = "idle" /\ call' = NoCall /\ command' = "none" /\ failure' = "none"

Note(e) == first' = IF first = "none" THEN e ELSE first

\* An ESAPI call that fails on the host's side of the TPM, `?` after it.
HostFault(e) == /\ faults < MaxFaults
                /\ faults' = faults + 1
                /\ Note(e) /\ Return(e)

-----------------------------------------------------------------------------
(* Calls.                                                                  *)

\* connect: a failure drops the Context, and what it held with it.
Connect ==
    /\ step = "idle" /\ parent = "none"
    /\ \/ parent' = "live" /\ first' = "none" /\ outcome' = "none"
       \/ \E e \in {"Unavailable"} \cup {map_tss_error(c) : c \in TssErrors} :
            first' = e /\ outcome' = e /\ UNCHANGED parent
    /\ UNCHANGED <<step, call, command, objects, sessions, failure, tries, faults>>

\* sign: the digest, the authorization and the stored object are checked
\* before the TPM is asked anything.
BeginSign(o, a, digest, auth) ==
    /\ step = "idle" /\ parent # "none"
    /\ LET refusal == IF digest_size(digest) # digest_size(a) THEN "InvalidObject"
                      ELSE IF authorization_value(auth) # o.policy THEN "InvalidAuthorization"
                      ELSE IF o.parent # "ours" \/ ~validate_public(o.public, a, o.policy)
                      THEN "InvalidObject"
                      ELSE "none"
       IN IF refusal = "none"
          THEN /\ step' = "start" /\ command' = "load"
               /\ call' = [op |-> "sign", object |-> o, algorithm |-> a, auth |-> auth]
               /\ first' = "none"
               /\ UNCHANGED <<failure, outcome>>
          ELSE first' = refusal /\ Return(refusal)
    /\ UNCHANGED <<parent, objects, sessions, tries, faults>>

\* generate: get_capability, then the authorization decides the policy.
BeginGenerate(a, auth) ==
    /\ step = "idle" /\ parent # "none"
    /\ LET policy == authorization_value(auth)
       IN \/ /\ policy # NoPolicy
             /\ step' = "start" /\ command' = "create"
             /\ call' = [op |-> "generate", algorithm |-> a, auth |-> auth,
                         object |-> [public |-> create_public(a, policy),
                                     private |-> create_public(a, policy),
                                     auth |-> auth, parent |-> "ours", policy |-> policy]]
             /\ first' = "none"
             /\ UNCHANGED <<failure, outcome>>
          \/ \E e \in {"UnsupportedAlgorithm", "Transport"} : first' = e /\ Return(e)
          \/ /\ policy = NoPolicy
             /\ first' = "InvalidAuthorization" /\ Return("InvalidAuthorization")
    /\ UNCHANGED <<parent, objects, sessions, tries, faults>>

-----------------------------------------------------------------------------
(* with_encrypted_session *)

\* What follows a session whose command failed with e: sign still releases
\* the key it loaded, every other command returns.
AfterFailure(e) ==
    /\ Note(e)
    /\ IF command = "sign"
       THEN /\ step' = "release" /\ failure' = e
            /\ UNCHANGED <<call, command, outcome>>
       ELSE Return(e)

\* What follows a session whose command succeeded.  The public area of a new
\* key is validated before the key is loaded.
AfterSuccess ==
    \/ /\ command = "create"
       /\ validate_public(call.object.public, call.algorithm, call.object.policy)
       /\ step' = "start" /\ command' = "load"
       /\ UNCHANGED <<call, failure, first, outcome>>
    \/ /\ command = "create"
       /\ ~validate_public(call.object.public, call.algorithm, call.object.policy)
       /\ Note("InvalidObject") /\ Return("InvalidObject")
    \/ /\ command # "create"
       /\ step' = IF command = "sign" THEN "release"
                  ELSE IF call.op = "sign" THEN "set_auth" ELSE "get_name"
       /\ UNCHANGED <<call, command, failure, first, outcome>>

\* start_auth_session, which a lost parent cannot salt.
StartSession ==
    /\ step = "start"
    /\ \/ /\ parent = "live"
          /\ sessions' = sessions + 1
          /\ step' = "attributes"
          /\ UNCHANGED <<call, command, failure, first, outcome>>
       \/ AfterFailure("Transport") /\ UNCHANGED sessions
    /\ UNCHANGED <<parent, objects, tries, faults>>

\* tr_sess_set_attributes: its `?` leaves the session behind.
SetAttributes ==
    /\ step = "attributes"
    /\ \/ /\ step' = "execute"
          /\ UNCHANGED <<call, command, failure, first, outcome, faults>>
       \/ /\ faults < MaxFaults /\ faults' = faults + 1
          /\ AfterFailure("Transport")
    /\ UNCHANGED <<parent, objects, sessions, tries>>

\* Whether the TPM carries the command out, and with which error if not.  Only
\* sign uses the authorization of the key, and only a key without noDA counts.
Locked(public) == ~public.noDA /\ tries >= MaxTries
Authorized(o, auth) == o.auth = auth

CommandErrors ==
    LET o == call.object
    IN CASE command = "create" -> {"Policy", "other"}
         [] command = "load" -> {"other"}
         [] OTHER -> IF Locked(o.private) THEN {"Lockout", "other"}
                     ELSE IF ~Authorized(o, call.auth)
                     THEN {IF o.private.noDA THEN "BadAuth" ELSE "AuthFail", "other"}
                     ELSE {"other"}

CommandSucceeds ==
    LET o == call.object
    IN CASE command = "create" -> TRUE
         [] command = "load" -> o.public = o.private
         [] OTHER -> ~Locked(o.private) /\ Authorized(o, call.auth)

\* execute_with_session: the command itself.
Execute ==
    /\ step = "execute"
    /\ step' = "flush"
    /\ \/ /\ parent = "live" /\ CommandSucceeds
          /\ objects' = IF command = "load" THEN objects + 1 ELSE objects
          /\ UNCHANGED <<failure, first, tries>>
       \/ \E e \in IF parent = "live" THEN CommandErrors ELSE {"other"} :
            /\ failure' = map_tss_error(e) /\ Note(map_tss_error(e))
            /\ tries' = IF e = "AuthFail" THEN tries + 1 ELSE tries
            /\ UNCHANGED objects
    /\ UNCHANGED <<call, command, parent, sessions, faults, outcome>>

\* flush_context fails, after a reset because there is nothing to flush.
FlushFails == \/ parent = "live" /\ faults < MaxFaults /\ faults' = faults + 1
              \/ parent = "lost" /\ UNCHANGED faults

\* Fault: the error of the flush hides the error of the command.
FlushSession_HidesError ==
    /\ step = "flush"
    /\ \/ /\ parent = "live" /\ sessions' = sessions - 1
          /\ IF failure = "none" THEN AfterSuccess ELSE AfterFailure(failure)
          /\ UNCHANGED faults
       \/ /\ FlushFails
          /\ AfterFailure("Transport")
          /\ UNCHANGED sessions
    /\ UNCHANGED <<parent, objects, tries>>

\* flush_context of the session, whatever the command did.  The error of the
\* command comes before the error of the flush.  A load whose session cannot
\* be flushed returns the error and leaves the object, too.
FlushSession ==
    /\ step = "flush"
    /\ \/ /\ parent = "live" /\ sessions' = sessions - 1
          /\ IF failure = "none" THEN AfterSuccess ELSE AfterFailure(failure)
          /\ UNCHANGED faults
       \/ /\ FlushFails
          /\ AfterFailure(IF failure = "none" THEN "Transport" ELSE failure)
          /\ UNCHANGED sessions
    /\ UNCHANGED <<parent, objects, tries>>

-----------------------------------------------------------------------------
(* Around the sessions.                                                    *)

\* sign: tr_set_auth, the digest and the ticket; each `?` leaves the object.
SetAuth ==
    /\ step = "set_auth"
    /\ \/ /\ step' = "start" /\ command' = "sign"
          /\ UNCHANGED <<call, failure, first, outcome, faults>>
       \/ HostFault("Transport")
    /\ UNCHANGED <<parent, objects, sessions, tries>>

\* generate: tr_get_name; its `?` leaves the object.
GetName ==
    /\ step = "get_name"
    /\ \/ step' = "release" /\ UNCHANGED <<call, command, failure, first, outcome, faults>>
       \/ HostFault("Transport")
    /\ UNCHANGED <<parent, objects, sessions, tries>>

\* Fault: the key stays loaded when signing failed.
Release_OnlyOnSuccess ==
    /\ step = "release"
    /\ IF failure = "none" THEN objects' = objects - 1 /\ Return(call.op)
       ELSE UNCHANGED objects /\ Return(failure)
    /\ UNCHANGED <<parent, sessions, tries, faults, first>>

\* flush_context of the key, after a failed sign as well.
Release ==
    /\ step = "release"
    /\ \/ /\ parent = "live" /\ objects' = objects - 1
          /\ Return(IF failure = "none" THEN call.op ELSE failure)
          /\ UNCHANGED <<faults, first>>
       \/ /\ FlushFails
          /\ Note("Transport")
          /\ Return(IF failure = "none" THEN "Transport" ELSE failure)
          /\ UNCHANGED objects
    /\ UNCHANGED <<parent, sessions, tries>>

\* The environment: other programs spend and the clock restores tries, and a
\* TPM reset (resume from suspend) loses the parent, objects and sessions.
OtherTries == /\ tries' \in {tries - 1, tries + 1} \cap (0 .. MaxTries)
              /\ UNCHANGED <<step, call, command, parent, objects, sessions, failure,
                             faults, first, outcome>>

TpmReset == /\ parent = "live"
            /\ parent' = "lost" /\ objects' = 0 /\ sessions' = 0
            /\ UNCHANGED <<step, call, command, failure, tries, faults, first, outcome>>

EsapiStep == \/ StartSession \/ SetAttributes \/ Execute \/ FlushSession
             \/ SetAuth \/ GetName \/ Release

-----------------------------------------------------------------------------
(* Properties.                                                             *)

\* What failures cost: between calls, the TPM holds at most one object and one
\* session for every flush and every call on the host's side (tr_set_auth,
\* tr_get_name, tr_sess_set_attributes) that failed.  An error the TPM answers a
\* command with, a wrong PIN or a lockout, leaves nothing behind.
LeaksBounded == step = "idle" => objects <= faults /\ sessions <= faults

\* sign has the object loaded that it is to release.
Loaded == /\ step # "idle" /\ call.op = "sign" /\ parent = "live"
          /\ \/ step \in {"set_auth", "release"} \/ command = "sign"
             \/ command = "load" /\ step = "flush" /\ failure = "none"

\* "Always release the transient object, including after failed PIN
\* authorization": sign returns with its object loaded only after it tried to
\* flush it.
AlwaysReleased == [][Loaded /\ step' = "idle" => step = "release"]_tpmVars

\* The caller learns what failed first: a failing flush never turns a wrong
\* PIN or a lockout into a transport error.
FirstErrorReported ==
    step = "idle" => \/ first = outcome
                     \/ first = "none" /\ outcome \in {"sign", "generate"}

\* Only a PIN somebody typed spends a dictionary-attack try: a key record whose
\* policy is not that of its object never reaches the TPM.
TriesAreTyped ==
    [][tries' = tries + 1 /\ step = "execute" /\ step' # step => call.auth \in Pins]_tpmVars
=============================================================================
