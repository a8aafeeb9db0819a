---------------------------- MODULE MC_CTFHeaderFix ----------------------------
(* Two runs of the table (11 and 13) and one outside it (12), headers with *)
(* and without a recorded time, before and after the run's first orbit.    *)
EXTENDS CTFHeaderFix

MCTab == << [run |-> 11, orbit |-> 4, ts0 |-> 100],
            [run |-> 13, orbit |-> 20, ts0 |-> 500] >>

MCHeaders ==
  { Header(11, 6, 0, 7, {"ITS", "TPC"}), Header(11, 9, 0, 8, {"ITS"}),
    Header(12, 3, 0, 2, {"ITS", "TPC"}), Header(13, 25, 40, 5, {"ITS", "TPC"}),
    Header(13, 21, 0, 9, {"ITS", "TPC"}) }

\* Headers in the tree order of one run's TFs: orbits increase.
MCHeadersEarly == MCHeaders \cup { Header(11, 2, 0, 6, {"ITS", "TPC"}) }

Ordered(s) == \A i \in 1..(Len(s) - 1) : s[i].run = s[i + 1].run => s[i].orbit < s[i + 1].orbit

MCDetOrder == <<"ITS", "TPC">>

MCEntries == { s \in [1..3 -> MCHeaders] : Ordered(s) }
MCEntriesEarly == { s \in [1..2 -> MCHeadersEarly] : Ordered(s) }
=============================================================================
