--------------------------- MODULE MC_CTFSelection ---------------------------
(***************************************************************************)
(* Small instance of CTFSelection.  Orbits are 5 bits wide (0..31), values *)
(* above 50 are timestamps, an orbit lasts 0.4 ms.  Run 1 has a run info   *)
(* without a TF length, run 2 is an old run (no snapping, TFs of 4 orbits  *)
(* from orbit 3), run 3 a recent one (snapping, TFs of 8 orbits).          *)
(***************************************************************************)
EXTENDS CTFSelection, SequencesExt

MCRunInfo ==
  (1 :> [runNumber |-> 1, sor |-> 60, orbitSOR |-> 8, orbitsPerTF |-> 0]) @@
  (2 :> [runNumber |-> 2, sor |-> 60, orbitSOR |-> 3, orbitsPerTF |-> 4]) @@
  (3 :> [runNumber |-> 3, sor |-> 60, orbitSOR |-> 8, orbitsPerTF |-> 8])

\* Triplets: orbit ranges of runs 2 and 3 (one at the top of the counter),
\* timestamp ranges of runs 2 and 3, a range of the run without a TF
\* length, an inverted range and a range with mixed units.
MCLines ==
  { Triplet(2, 5, 9), Triplet(2, 30, 31), Triplet(3, 12, 20),
    Triplet(2, 62, 63), Triplet(3, 61, 64), Triplet(1, 5, 6),
    Triplet(2, 9, 5), Triplet(3, 5, 70), Other("comment") }

MCFiles == BoundedSeq(MCLines, 2)

\* TFs of each run, the old run's last one crossing the top of the counter.
MCTFs == {TF(2, 3), TF(2, 29), TF(3, 8), TF(3, 24), TF(1, 8)}
MCTFSeqs == BoundedSeq(MCTFs, 3)
=============================================================================
