------------------------------ MODULE SignPath ------------------------------
(***************************************************************************)
(* The data path of AgentRuntime::handle: the bytes of a packet and of the *)
(* stored records go in, TPM2_Sign is called through EsapiTpm::sign, and   *)
(* the bytes of a response come out.  Agent models the same handler with   *)
(* its threads and abstracts the data; here there is one request at a time *)
(* and the data is bytes.  `keyvisor key create` uses the EsapiTpm, too,   *)
(* in a process of its own.                                                *)
(***************************************************************************)
EXTENDS TpmSession, Formats

CONSTANTS Packets,  \* payloads clients send
          Records,  \* the files of the key store, bytes each, in list's order
          Scalars,  \* r and s of ECDSA signatures, as the TPM returns them
          Blob(_),  \* external: the public area a TPM2B_PUBLIC blob holds
          Secret(_) \* external: the public area and authorization of a private blob

ASSUME PathAssumption == Packets \subseteq Seq(Byte) /\ Scalars \subseteq Seq(Byte)

VARIABLES
    program,   \* the process that owns the EsapiTpm: "agent" or "create"
    packet,    \* the packet handled last
    parsed,    \* what parse_request made of it
    key,       \* the StoredKey of the signature under way, or NoRecord
    given,     \* its TpmAuthorization, or Nothing before the prompt
    scalars,   \* auxiliary: the r and s the TPM returned
    reply      \* the response to the packet: a packet, "failure" or "pending"

pathVars == <<program, packet, parsed, key, given, scalars, reply>>
vars == <<tpmVars, pathVars>>

NoRecord == [id |-> <<>>]
Failure == [kind |-> "failure"]
Pending == [kind |-> "pending"]
Nothing == "nothing"

\* Both numbers have the width of the curve.
ecdsa_component_size(a) == IF a = "EcdsaNistP256" THEN 32 ELSE 48
ssh_key_type(a) == IF a = "EcdsaNistP256" THEN <<50, 53, 54>> ELSE <<51, 56, 52>>

PathInit == /\ TpmInit
            /\ program \in {"agent", "create"}
            /\ packet = <<>> /\ parsed = Rejected /\ key = NoRecord /\ given = Nothing
            /\ scalars = <<>> /\ reply = Failure

\* KeyStore::list: one record that cannot be decoded fails the whole listing.
Keys == [i \in DOMAIN Records |-> DecodeRecord(Records[i])]
Listable == \A i \in DOMAIN Keys : Keys[i] # Rejected
FindKey(public) == SelectInSeq(Keys, LAMBDA k : k.publicKey = public)

AlgorithmOf(k) == IF k.algorithm = 1 THEN "EcdsaNistP256" ELSE "EcdsaNistP384"
PolicyOf(k) == IF k.policy = 1 THEN "NoPin" ELSE "TpmPin"
ObjectOf(k) == [public |-> Blob(k.public), private |-> Secret(k.private).public,
                auth |-> Secret(k.private).auth,
                parent |-> IF k.parent = <<1>> THEN "ours" ELSE "other",
                policy |-> PolicyOf(k)]

\* handle up to sign_with_key: parse, list, and find the key.
Handle(p) ==
    LET r == ParseRequest(p)
        at == IF Listable /\ r.kind = "sign" THEN FindKey(r.key) ELSE 0
    IN /\ program = "agent" /\ step = "idle" /\ reply # Pending
       /\ packet' = p /\ parsed' = r /\ scalars' = <<>>
       /\ IF r.kind = "sign" /\ r.flags = 0 /\ at # 0
          THEN key' = Keys[at] /\ reply' = Pending
          ELSE /\ key' = NoRecord
               /\ reply' = IF r.kind = "identities" /\ Listable
                           THEN IdentitiesResponse(
                                  [i \in DOMAIN Keys |-> [public |-> Keys[i].publicKey,
                                                          name |-> Keys[i].name]])
                           ELSE Failure
       /\ UNCHANGED <<tpmVars, program, given>>

\* The request ends without a signature.
Fails == reply' = Failure /\ key' = NoRecord /\ given' = Nothing

\* sign_with_key: the policy of the record decides whether a PIN is asked for;
\* the prompt may end without one, and the client may be gone after it.
AskPin ==
    /\ reply = Pending /\ step = "idle" /\ given = Nothing
    /\ \/ /\ given' \in IF PolicyOf(key) = "NoPin" THEN {NoAuth} ELSE Pins
          /\ UNCHANGED <<reply, key>>
       \/ Fails
    /\ UNCHANGED <<tpmVars, program, packet, parsed, scalars>>

\* The TPM is connected to on first use, and never again.
PathConnect ==
    /\ reply = Pending /\ given # Nothing /\ Connect
    /\ IF parent' = "none" THEN Fails ELSE UNCHANGED <<reply, key, given>>
    /\ UNCHANGED <<program, packet, parsed, scalars>>

SignWithKey ==
    /\ reply = Pending /\ given # Nothing
    /\ BeginSign(ObjectOf(key), AlgorithmOf(key), AlgorithmOf(key), given)
    /\ IF step' = "idle" THEN Fails ELSE UNCHANGED <<reply, key, given>>
    /\ UNCHANGED <<program, packet, parsed, scalars>>

\* The end of sign and of sign_with_key: on success r and s, padded to the
\* width of the curve, become the response, unless the client is gone.
PathStep ==
    /\ program = "agent"
    /\ EsapiStep
    /\ \/ /\ step' # "idle"
          /\ UNCHANGED <<reply, key, given, scalars>>
       \/ /\ step' = "idle"
          /\ Fails
          /\ UNCHANGED scalars
       \/ /\ step' = "idle" /\ outcome' = "sign"
          /\ \E r, s \in Scalars :
               LET width == ecdsa_component_size(AlgorithmOf(key))
                   raw == RawSignature(r, s, width)
               IN /\ scalars' = <<r, s>>
                  /\ reply' = IF raw = Rejected THEN Failure
                              ELSE EcdsaSignatureResponse(ssh_key_type(AlgorithmOf(key)),
                                                          width, raw.bytes)
          /\ given' = Nothing
          /\ UNCHANGED key
    /\ UNCHANGED <<program, packet, parsed>>

\* create_key connects, generates one key and ends.
CreateKey ==
    /\ program = "create"
    /\ \/ outcome = "none" /\ Connect
       \/ /\ outcome = "none"
          /\ \E a \in Algorithms, auth \in {NoAuth} \cup Pins : BeginGenerate(a, auth)
       \/ EsapiStep
    /\ UNCHANGED pathVars

PathNext ==
    \/ \E p \in Packets : Handle(p)
    \/ AskPin \/ PathConnect \/ SignWithKey \/ PathStep \/ CreateKey
    \/ (OtherTries \/ TpmReset) /\ UNCHANGED pathVars

PathSpec == PathInit /\ [][PathNext]_vars

-----------------------------------------------------------------------------
(* Properties.                                                             *)

\* The format of a sign request, written down from the side of a client.
EncodeRequest(r) == <<13>> \o PushString(r.key) \o PushString(r.data) \o U32(r.flags)

\* "Strict consumption avoids accepting ambiguous packets": a packet is taken
\* for a request only if it is the one encoding of that request.
ParseStrict ==
    /\ parsed.kind = "sign" => packet = EncodeRequest(parsed)
    /\ parsed.kind = "identities" => packet = <<11>>

Digits(value) == LET start == SelectInSeq(value, LAMBDA b : b # 0)
                 IN IF start = 0 THEN <<>> ELSE SubSeq(value, start, Len(value))

\* What an OpenSSH client reads out of a response: two signed numbers.
ReadSignature(bytes) ==
    LET Two == <<String(MaxPacket), String(MaxPacket)>>
        blob == Take(Cursor(SubSeq(bytes, 6, Len(bytes))), <<String(MaxPacket)>>)
        parts == Take(Cursor(blob.fields[1]), Two)
        numbers == Take(Cursor(parts.fields[2]), Two)
    IN [type |-> parts.fields[1], ok |-> Complete(parts) /\ Complete(numbers),
        numbers |-> numbers.fields]

\* The client gets the numbers the TPM made, both positive, whatever zeros and
\* high bits they start with.
SignatureFaithful ==
    reply.kind = "packet" /\ scalars # <<>> =>
      LET got == ReadSignature(reply.bytes)
      IN /\ got.ok /\ got.type = ssh_key_type(AlgorithmOf(key))
         /\ \A i \in 1 .. 2 : /\ Digits(got.numbers[i]) = Digits(scalars[i])
                              /\ got.numbers[i] = <<>> \/ got.numbers[i][1] < 128
=============================================================================
