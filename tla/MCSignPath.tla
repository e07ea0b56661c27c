----------------------------- MODULE MCSignPath -----------------------------
(* Six records, four of them with parts that do not belong together, and   *)
(* packets around the limits of the format.                                *)
EXTENDS SignPath

Public(noDA) == [curve |-> "NistP256", hash |-> "Sha256", noDA |-> noDA, fixed |-> TRUE]

\* Blob 1 is the public area of a free key, 2 of a PIN key, 3 of nothing.
MCBlob(b) == IF b = <<3>> THEN [Public(FALSE) EXCEPT !.fixed = FALSE] ELSE Public(b = <<1>>)
MCSecret(b) == [public |-> Public(b = <<1>>), auth |-> IF b = <<1>> THEN NoAuth ELSE "p1"]

Record(id, policy, public, private, parentName) ==
    EncodeRecord([id |-> <<id>>, name |-> <<65>>, algorithm |-> 1, policy |-> policy,
                  publicKey |-> <<id>>, public |-> public, private |-> private,
                  parent |-> parentName])
MCRecords == <<Record(1, 1, <<1>>, <<1>>, <<1>>),  \* a free key
               Record(2, 2, <<2>>, <<2>>, <<1>>),  \* a PIN key
               Record(3, 1, <<2>>, <<2>>, <<1>>),  \* a PIN key recorded as free
               Record(4, 1, <<1>>, <<2>>, <<1>>),  \* the blobs of two keys
               Record(5, 2, <<3>>, <<2>>, <<1>>),  \* no public area
               Record(6, 2, <<2>>, <<2>>, <<2>>)>> \* the blobs of another TPM

Sign(k, data, flags) == EncodeRequest([key |-> k, data |-> data, flags |-> flags])
MCPackets ==
    {Sign(<<k>>, <<7>>, 0) : k \in 1 .. 7} \cup {Sign(<<1>>, <<>>, 1), <<11>>, <<11, 0>>, <<5>>}
      \cup Prefixes(Sign(<<1>>, <<7>>, 0))
      \cup {Sign(<<1>>, <<7>>, 0) \o <<0>>, Sign(<<1, 2>>, [i \in 1 .. 200 |-> 7], 0)}

\* Short, long, too long, with leading zeros and with the high bit set.
Ones(n) == [i \in 1 .. n |-> 255]
MCScalars == {<<>>, <<1>>, <<128>>, <<0, 0, 9>>, Ones(32), <<0>> \o Ones(31), Ones(33)}
=============================================================================
