------------------------------ MODULE Formats ------------------------------
(***************************************************************************)
(* The byte formats of Keyvisor as functions on sequences of bytes: SSH    *)
(* agent packets (protocol.rs), key records (lib.rs), the signing history  *)
(* (history.rs) and, as a sequence of lines, the configuration             *)
(* (config.rs).  Every rejection is Rejected: the callers treat all errors *)
(* alike.                                                                  *)
(***************************************************************************)
EXTENDS Integers, Sequences, SequencesExt

CONSTANTS MaxPacket,   \* MAX_PACKET_LENGTH
          MaxText,     \* MAX_TEXT_LEN
          MaxBlob,     \* MAX_BLOB_LEN
          MaxEntries,  \* MAX_ENTRIES of history.rs
          MinTimeout, MaxTimeout  \* range of authorization-timeout-seconds

ASSUME FormatsAssumption ==
    /\ {MaxPacket, MaxText, MaxBlob, MaxEntries} \subseteq Nat
    /\ MinTimeout \in Nat /\ MaxTimeout \in Nat /\ MinTimeout <= MaxTimeout

\* The length of a packet is sent as a u32.
ASSUME PacketAssumption == MaxPacket \div 16777216 < 256

Byte == 0 .. 255

Rejected == [kind |-> "rejected"]

\* u32::to_be_bytes, u64::to_be_bytes and the number big-endian bytes stand for.
U32(n) == <<(n \div 16777216) % 256, (n \div 65536) % 256, (n \div 256) % 256, n % 256>>
U64(n) == <<0, 0, 0, 0>> \o U32(n)
Number(bytes) == FoldLeft(LAMBDA n, b : 256 * n + b, 0, bytes)

-----------------------------------------------------------------------------
(* Reading.  A cursor holds the input that is left and the fields read so  *)
(* far; once a read fails, every later one does.  A format is the sequence *)
(* of the reads of a parser.                                               *)

Cursor(bytes) == [ok |-> TRUE, rest |-> bytes, fields |-> <<>>]
Failed(c) == [c EXCEPT !.ok = FALSE]

\* n bytes; a big-endian u32; a length, at most limit, and that many bytes; the
\* same, where the bytes must be UTF-8; one byte that must be one of the tags.
Bytes(n) == [read |-> "bytes", length |-> n]
Integer == [read |-> "u32"]
String(limit) == [read |-> "string", limit |-> limit]
Text(limit) == [read |-> "text", limit |-> limit]
Tag(tags) == [read |-> "tag", tags |-> tags]

\* String::from_utf8, for texts without a character of several bytes.
Utf8(bytes) == \A i \in DOMAIN bytes : bytes[i] < 128

\* The cursor after its next n bytes became the field value.
Advance(c, n, value) ==
    [ok |-> TRUE, rest |-> SubSeq(c.rest, n + 1, Len(c.rest)),
     fields |-> Append(c.fields, value)]

TakeField(c, field) ==
    LET Has(n) == c.ok /\ Len(c.rest) >= n
        Part(a, b) == SubSeq(c.rest, a, b)
        size == Number(Part(1, 4))
    IN CASE field.read = "bytes" /\ Has(field.length) ->
              Advance(c, field.length, Part(1, field.length))
         [] field.read = "u32" /\ Has(4) -> Advance(c, 4, size)
         [] /\ field.read \in {"string", "text"}
            /\ Has(4) /\ size <= field.limit /\ Has(4 + size)
            /\ field.read = "text" => Utf8(Part(5, 4 + size)) ->
              Advance(c, 4 + size, Part(5, 4 + size))
         [] field.read = "tag" /\ Has(1) /\ c.rest[1] \in field.tags ->
              Advance(c, 1, c.rest[1])
         [] OTHER -> Failed(c)

Take(cursor, format) == FoldLeft(TakeField, cursor, format)

\* The whole input was read.
Complete(c) == c.ok /\ c.rest = <<>>

PushString(value) == U32(Len(value)) \o value

-----------------------------------------------------------------------------
(* protocol.rs *)

SignFormat == <<String(MaxPacket), String(MaxPacket), Integer>>

\* Fault: bytes after the flags are ignored.
ParseRequest_AllowsTrailing(packet) ==
    LET c == Take(Cursor(Tail(packet)), SignFormat)
    IN IF packet = <<>> \/ Len(packet) > MaxPacket THEN Rejected
       ELSE IF packet = <<11>> THEN [kind |-> "identities"]
       ELSE IF packet[1] = 13 /\ c.ok
            THEN [kind |-> "sign", key |-> c.fields[1], data |-> c.fields[2],
                  flags |-> c.fields[3]]
            ELSE Rejected

\* parse_request: one message type, its fields and nothing after them.
ParseRequest(packet) ==
    LET c == Take(Cursor(Tail(packet)), SignFormat)
    IN IF packet = <<>> \/ Len(packet) > MaxPacket THEN Rejected
       ELSE IF packet = <<11>> THEN [kind |-> "identities"]
       ELSE IF packet[1] = 13 /\ Complete(c)
            THEN [kind |-> "sign", key |-> c.fields[1], data |-> c.fields[2],
                  flags |-> c.fields[3]]
            ELSE Rejected

Frame(payload) == U32(Len(payload)) \o payload

\* checked_frame, after push_string has refused to grow a payload past the limit.
CheckedFrame(payload) ==
    IF Len(payload) > MaxPacket THEN Rejected ELSE [kind |-> "packet", bytes |-> Frame(payload)]

IdentitiesResponse(keys) ==
    CheckedFrame(<<12>> \o U32(Len(keys))
      \o FlattenSeq([i \in DOMAIN keys |-> PushString(keys[i].public) \o PushString(keys[i].name)]))

\* Fault: the high bit is not looked at.
PushMpint_NoSign(value) ==
    LET first == SelectInSeq(value, LAMBDA b : b # 0)
    IN PushString(IF first = 0 THEN <<>> ELSE SubSeq(value, first, Len(value)))

\* push_mpint: no leading zeros, and a zero before a byte with the high bit.
PushMpint(value) ==
    LET first == SelectInSeq(value, LAMBDA b : b # 0)
        digits == IF first = 0 THEN <<>> ELSE SubSeq(value, first, Len(value))
    IN PushString(IF digits # <<>> /\ digits[1] >= 128 THEN <<0>> \o digits ELSE digits)

\* ecdsa_signature_response: two fixed-width components become two mpints,
\* inside a string after the key type, inside a string.
EcdsaSignatureResponse(keyType, width, raw) ==
    IF Len(raw) # 2 * width THEN Rejected
    ELSE CheckedFrame(<<14>> \o PushString(
           PushString(keyType)
             \o PushString(PushMpint(SubSeq(raw, 1, width))
                             \o PushMpint(SubSeq(raw, width + 1, 2 * width)))))

-----------------------------------------------------------------------------
(* esapi.rs *)

\* append_padded: left-pad a TPM number to the width of the curve.
AppendPadded(output, value, width) ==
    output \o [i \in 1 .. width - Len(value) |-> 0] \o value

\* The two scalars of TPM2_Sign as fixed-width bytes.
RawSignature(r, s, width) ==
    IF Len(r) > width \/ Len(s) > width THEN Rejected
    ELSE [kind |-> "raw", bytes |-> AppendPadded(AppendPadded(<<>>, r, width), s, width)]

-----------------------------------------------------------------------------
(* lib.rs *)

RecordMagic == <<75, 69, 89, 86, 83, 82, 0, 1>>

ValidRecord(k) ==
    /\ Len(k.id) \in 1 .. MaxText /\ Len(k.name) \in 1 .. MaxText
    /\ \A blob \in {k.publicKey, k.public, k.private, k.parent} : Len(blob) \in 1 .. MaxBlob

EncodeRecord(k) ==
    RecordMagic \o PushString(k.id) \o PushString(k.name)
      \o <<k.algorithm, k.policy>>
      \o PushString(k.publicKey) \o PushString(k.public)
      \o PushString(k.private) \o PushString(k.parent)

\* read_text and read_blob, the two tags between them.
RecordFormat ==
    <<Bytes(Len(RecordMagic)), Text(MaxText), Text(MaxText), Tag({1, 2}), Tag({1, 2}),
      String(MaxBlob), String(MaxBlob), String(MaxBlob), String(MaxBlob)>>

\* decode: magic, fields, two tags that are 1 or 2, no trailing bytes, and
\* validate_record.  The one policy tag is the policy of summary and object.
DecodeRecord(bytes) ==
    LET c == Take(Cursor(bytes), RecordFormat)
        k == [id |-> c.fields[2], name |-> c.fields[3],
              algorithm |-> c.fields[4], policy |-> c.fields[5],
              publicKey |-> c.fields[6], public |-> c.fields[7],
              private |-> c.fields[8], parent |-> c.fields[9]]
    IN IF Complete(c) /\ c.fields[1] = RecordMagic /\ ValidRecord(k) THEN k ELSE Rejected

-----------------------------------------------------------------------------
(* history.rs *)

HistoryMagic == <<75, 69, 89, 72, 83, 84, 0, 1>>

ValidEntry(e) == Len(e.id) \in 1 .. MaxText /\ Len(e.name) \in 1 .. MaxText

EncodeEntry(e) == U64(e.time) \o PushString(e.id) \o PushString(e.name) \o <<e.policy, e.outcome>>

EncodeHistory(entries) ==
    HistoryMagic \o U32(Len(entries))
      \o FlattenSeq([i \in DOMAIN entries |-> EncodeEntry(entries[i])])

EntryFormat == <<Bytes(8), Text(MaxText), Text(MaxText), Tag({1, 2}), Tag({1, 2})>>

\* The i-th entry, whose five fields follow the magic and the count.
EntryAt(fields, i) ==
    LET at == 2 + 5 * (i - 1)
    IN [time |-> Number(fields[at + 1]), id |-> fields[at + 2], name |-> fields[at + 3],
        policy |-> fields[at + 4], outcome |-> fields[at + 5]]

DecodeHistory(bytes) ==
    LET h == Take(Cursor(bytes), <<Bytes(Len(HistoryMagic)), Integer>>)
        count == IF h.ok /\ h.fields[2] <= MaxEntries THEN h.fields[2] ELSE 0
        c == FoldLeft(Take, h, [i \in 1 .. count |-> EntryFormat])
        entries == [i \in 1 .. count |-> EntryAt(c.fields, i)]
    IN IF /\ h.ok /\ h.fields[1] = HistoryMagic /\ h.fields[2] = count
          /\ Complete(c)
          /\ \A i \in 1 .. count : ValidEntry(entries[i])
       THEN [kind |-> "history", entries |-> entries]
       ELSE Rejected

-----------------------------------------------------------------------------
(* config.rs.  A line is MAGIC, or a name and the text after the "=".      *)

ConfigMagic == <<"KEYVISOR-CONFIG-1">>
SettingNames == {"authorization-timeout-seconds", "history-enabled"}
DefaultConfig == [n \in SettingNames |->
                    IF n = "history-enabled" THEN TRUE ELSE MaxTimeout]

\* Config::set accepts the text of a value.  A number stands for the texts that
\* parse to it, a Boolean for "true" or "false".
ValidValue(name, value) ==
    \/ name = "authorization-timeout-seconds" /\ value \in MinTimeout .. MaxTimeout
    \/ name = "history-enabled" /\ value \in BOOLEAN

EncodeConfig(config) ==
    <<ConfigMagic,
      <<"authorization-timeout-seconds", config["authorization-timeout-seconds"]>>,
      <<"history-enabled", config["history-enabled"]>> >>

\* parse: every setting exactly once, in any order, and nothing else.
ParseConfig(lines) ==
    LET settings == Tail(lines)
        valueOf == [n \in SettingNames |->
                      (CHOOSE i \in DOMAIN settings : settings[i][1] = n)]
    IN IF /\ lines # <<>> /\ lines[1] = ConfigMagic
          /\ \A i \in DOMAIN settings : /\ Len(settings[i]) = 2
                                        /\ settings[i][1] \in SettingNames
                                        /\ ValidValue(settings[i][1], settings[i][2])
          /\ \A n \in SettingNames :
               \E i \in DOMAIN settings :
                 /\ settings[i][1] = n
                 /\ \A j \in DOMAIN settings : settings[j][1] = n => j = i
       THEN [kind |-> "config", config |-> [n \in SettingNames |-> settings[valueOf[n]][2]]]
       ELSE Rejected
=============================================================================
