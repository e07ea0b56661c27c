---------------------------- MODULE MCExecWrapper ----------------------------
(* PINs of two or three bytes: entries around the limits, with every line  *)
(* end, and bytes that must be escaped.                                    *)
EXTENDS ExecWrapper

Entry(n) == [i \in 1 .. n |-> 120]
Ends == {<<>>, <<LF>>, <<CR, LF>>}
MCLines == {Entry(n) \o e : n \in 0 .. (MaxPin + 2), e \in Ends} \cup {<<120, CR, 120, LF>>}
MCSecrets == {Entry(n) : n \in 1 .. (MaxPin + 1)} \cup {<<120, Percent>>, <<Percent, 52, 49>>}
MCStdins == {a \o b : a \in {Entry(2) \o <<LF>>, Entry(2) \o <<CR, LF>>, Entry(5) \o <<LF>>},
                      b \in {<<>>, Entry(2), Entry(3) \o <<LF>>, Entry(2) \o <<LF>>}}

\* The hypothesis of the proof that a PIN is used whole.
ASSUME AssuanRoundTrips
=============================================================================
