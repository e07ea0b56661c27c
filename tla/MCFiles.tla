------------------------------ MODULE MCFiles ------------------------------
EXTENDS Files, TLC

Symmetry == Permutations(Clis)

\* Valid values and, for the timeout, one that is not.
MCValues == [n \in SettingNames |-> IF n = "history-enabled" THEN {FALSE} ELSE {1, 4}]
MCEntries == {[time |-> 7, id |-> <<65>>, name |-> <<66>>, policy |-> 1, outcome |-> 1],
              [time |-> 9, id |-> <<65>>, name |-> <<>>, policy |-> 2, outcome |-> 2]}

\* The hypothesis of the proof that both files can always be loaded.
ASSUME HistoryRoundTrips
=============================================================================
