----------------------------- MODULE CTFHeaderFix -----------------------------
(***************************************************************************)
(* The header path of CTFReaderSpec::processTF (src/Detectors/CTF/        *)
(* workflow/src/CTFReaderSpec.cxx): each CTF entry's header is read, its   *)
(* creation time imposed from "impose-run-start-timstamp" or, when zero,   *)
(* repaired by tryToFixCTFHeader from the pilot-beam run-start table, its  *)
(* tfCounter replaced by the local count of accepted TFs when asked; the   *)
(* header is sent, then processDetector makes one output per requested     *)
(* detector (or throws for a missing one), and the accepted count grows.   *)
(*                                                                         *)
(* One processTF call is one step.  Whether the IR-frame selection accepts *)
(* the TF is a choice here (CTFSelection models that decision).  The       *)
(* orbit counter is an unsigned integer of OrbitBits bits (32 in the       *)
(* code), and an orbit lasts OrbitUS/1000 ms, scaled with the width so     *)
(* that a wrapped difference stays a plausible number of milliseconds.     *)
(***************************************************************************)
EXTENDS Integers, Sequences

CONSTANTS
  Entries,      \* the sequences of CTF headers the tree entries may hold
  RunStartTab,  \* tf0Data: rows [run, firstTForbit, tstampMS0] by run
  DetOrder,     \* the detectors processDetector is called for, in order
  DetMask,      \* mInput.detMask
  ImposeMS,     \* possible mImposeRunStartMS values
  OrbitUS,      \* LHCOrbitMUS, in thousandths of a ms
  OrbitBits     \* width of firstTForbit

OrbitMod == 2^OrbitBits

\* The CTFHeader fields the reader uses: run, firstTForbit (uint32),
\* creationTime and tfCounter (unsigned), the detectors present.
HeaderT == [run : Nat, orbit : 0..(OrbitMod - 1), ctime : Nat, tfc : Nat,
            dets : SUBSET STRING]

\* A row of tf0Data: run, firstTForbit, tstampMS0.
TabRow == [run : Nat, orbit : 0..(OrbitMod - 1), ts0 : Nat]

\* The constants as the code gives them: tf0Data is a table of unsigned
\* rows sorted by run, each run once; the tree's headers are CTFHeaders.
\* (2^n > 0 needs an induction the provers do not do, hence the second
\* conjunct.)
ASSUME CTFHeaderFixAssumption ==
  /\ OrbitBits \in Nat \ {0}
  /\ OrbitMod \in Nat \ {0}   \* follows from the above; stated for the provers
  /\ OrbitUS \in Nat \ {0}
  /\ ImposeMS \subseteq Nat
  /\ RunStartTab \in Seq(TabRow)
  /\ RunStartTab # <<>>
  /\ \A i, j \in DOMAIN RunStartTab : i < j => RunStartTab[i].run < RunStartTab[j].run
  /\ DetOrder \in Seq(STRING)
  /\ Entries \subseteq Seq(HeaderT)

\* A CTFHeader: run, firstTForbit, creationTime, tfCounter, detectors present.
Header(r, o, c, n, d) == [run |-> r, orbit |-> o, ctime |-> c, tfc |-> n, dets |-> d]

\* Conversions of a product with a double to an integer.
TruncDiv(a, b) == a \div b
CeilDiv(a, b) == -((-a) \div b)

\* Mutant: a table row is taken for the first run at or above the header's.
RowMatchesLB(h, row) == row.run >= h.run

\* if (ctfHeader.run == tf0.run)
RowMatches(h, row) == row.run = h.run

\* tryToFixCTFHeader: for a run inside the table's range, the first row of
\* that run gives tstampMS0 plus the orbits elapsed since its first TF,
\* rounded up; the difference of the two uint32 orbits wraps.
TryToFixCTFHeader(h) ==
  LET rows == {i \in DOMAIN RunStartTab : RowMatches(h, RunStartTab[i])}
  IN  IF /\ h.run >= RunStartTab[1].run
         /\ h.run <= RunStartTab[Len(RunStartTab)].run
         /\ rows # {}
      THEN LET t   == RunStartTab[CHOOSE i \in rows : \A j \in rows : i <= j]
               off == CeilDiv(((h.orbit - t.orbit) % OrbitMod) * OrbitUS, 1000)
           IN  [h EXCEPT !.ctime = t.ts0 + (IF off > 0 THEN off ELSE 0)]
      ELSE h

\* processTF lines 398-407: impose, repair, renumber.
FixedHeader(h, impose, local, acc) ==
  LET h1 == IF impose > 0
              THEN [h EXCEPT !.ctime = impose + TruncDiv(h.orbit * OrbitUS, 1000)]
              ELSE h
      h2 == IF h1.ctime = 0 THEN TryToFixCTFHeader(h1) ELSE h1
  IN  IF local THEN [h2 EXCEPT !.tfc = acc] ELSE h2

\* Mutant: allowMissingDetectors is not consulted.
FirstMissingIgnoresAllow(h, allowMissing) ==
  LET bad == {i \in DOMAIN DetOrder : DetOrder[i] \in DetMask /\ DetOrder[i] \notin h.dets}
  IN  IF bad = {} THEN 0 ELSE CHOOSE i \in bad : \A j \in bad : i <= j

\* processDetector for each requested detector in turn: the first one
\* missing from the header throws unless missing detectors are allowed.
FirstMissing(h, allowMissing) ==
  LET bad == {i \in DOMAIN DetOrder :
                DetOrder[i] \in DetMask /\ DetOrder[i] \notin h.dets /\ ~allowMissing}
  IN  IF bad = {} THEN 0 ELSE CHOOSE i \in bad : \A j \in bad : i <= j

\* The outputs made by the calls up to index k (all when k = 0), label and
\* payload or empty: the missing detector's empty output is made before
\* the throw.
MadeBefore(h, k) ==
  {[det |-> DetOrder[i], full |-> DetOrder[i] \in h.dets] :
     i \in {j \in DOMAIN DetOrder : (k = 0 \/ j <= k) /\ DetOrder[j] \in DetMask}}

VARIABLES
  entries,           \* the headers of the tree entries, in order
  mImposeRunStartMS,
  mUseLocalTFCounter,
  allowMissing,      \* mInput.allowMissingDetectors
  next,              \* index of the next entry (mCurrTreeEntry + 1)
  mCTFCounterAcc,
  sent,              \* the headers sent: as read, as sent, the detector outputs made
  status             \* "run", "fatal" (an exception left processTF), "done"

vars == <<entries, mImposeRunStartMS, mUseLocalTFCounter, allowMissing, next,
          mCTFCounterAcc, sent, status>>

TypeOK ==
  /\ next \in 1..(Len(entries) + 1)
  /\ mCTFCounterAcc \in 0..Len(entries)
  /\ status \in {"run", "fatal", "done"}

Init ==
  /\ entries \in Entries
  /\ mImposeRunStartMS \in ImposeMS
  /\ mUseLocalTFCounter \in BOOLEAN
  /\ allowMissing \in BOOLEAN
  /\ next = 1
  /\ mCTFCounterAcc = 0
  /\ sent = <<>>
  /\ status = "run"

\* Mutant: a rejected TF is counted too.
RejectCounterInc(c) == c + 1

\* return false before the counter is incremented.
RejectCounter(c) == c

\* processTF for a TF the selection rejects: nothing is sent.
ProcessTFRejected ==
  /\ status = "run" /\ next <= Len(entries)
  /\ mCTFCounterAcc' = RejectCounter(mCTFCounterAcc)
  /\ next' = next + 1
  /\ UNCHANGED <<entries, mImposeRunStartMS, mUseLocalTFCounter, allowMissing, sent, status>>

\* processTF for an accepted TF: send the repaired header, make each
\* requested detector's output, count it; a missing detector throws after
\* the header and the earlier outputs were made.
ProcessTFAccepted ==
  /\ status = "run" /\ next <= Len(entries)
  /\ LET h == FixedHeader(entries[next], mImposeRunStartMS, mUseLocalTFCounter, mCTFCounterAcc)
         k == FirstMissing(h, allowMissing)
     IN  /\ sent' = Append(sent, [src |-> entries[next], hdr |-> h, outs |-> MadeBefore(h, k), ok |-> k = 0])
         /\ IF k = 0 THEN /\ mCTFCounterAcc' = mCTFCounterAcc + 1
                          /\ next' = next + 1 /\ UNCHANGED status
            ELSE /\ status' = "fatal" /\ UNCHANGED <<mCTFCounterAcc, next>>
  /\ UNCHANGED <<entries, mImposeRunStartMS, mUseLocalTFCounter, allowMissing>>

\* The tree is exhausted.
Finish ==
  /\ status = "run" /\ next > Len(entries)
  /\ status' = "done"
  /\ UNCHANGED <<entries, mImposeRunStartMS, mUseLocalTFCounter, allowMissing, next,
                 mCTFCounterAcc, sent>>

Next == ProcessTFRejected \/ ProcessTFAccepted \/ Finish

Spec == Init /\ [][Next]_vars
-----------------------------------------------------------------------------
(* Properties.                                                             *)

TabRuns == {RunStartTab[i].run : i \in DOMAIN RunStartTab}
Row(r) == RunStartTab[CHOOSE i \in DOMAIN RunStartTab : RunStartTab[i].run = r]

\* The header of the k-th sent TF as the tree entry held it.
Orig(k) == sent[k].src

\* A creation time is only ever set from the imposed run start, the source,
\* or the table row of the header's own run: a zero time of a run the
\* table does not know stays zero, a repaired one is never before its
\* run's recorded start, and a recorded time is kept unless one is imposed.
NeverFabricated ==
  \A k \in DOMAIN sent :
    LET h == sent[k].hdr  o == Orig(k)
    IN  mImposeRunStartMS = 0 =>
          /\ o.ctime # 0 => h.ctime = o.ctime
          /\ o.ctime = 0 /\ h.run \notin TabRuns => h.ctime = 0
          /\ o.ctime = 0 /\ h.run \in TabRuns => h.ctime >= Row(h.run).ts0

\* Renumbering with the local counter gives the accepted TFs 0, 1, 2, ...
\* in the order they are sent, whatever the selection rejected in between.
LocalCountersConsecutive ==
  mUseLocalTFCounter => \A k \in DOMAIN sent : sent[k].hdr.tfc = k - 1

\* A TF completes only with an output for every requested detector,
\* filled exactly when the header lists it; a requested detector missing
\* from the header stops the reader unless missing ones are allowed.
DetectorOutputsExact ==
  \A k \in DOMAIN sent :
    LET h == sent[k].hdr
    IN  /\ sent[k].ok <=> (allowMissing \/ \A d \in DetMask : d \in h.dets)
        /\ sent[k].ok => sent[k].outs = {[det |-> d, full |-> d \in h.dets] : d \in DetMask}

\* Two TFs of one run whose times were repaired from the table keep the
\* order of their orbits: a TF that starts earlier was not created later
\* (the clamp of tryToFixCTFHeader sends a TF before the recorded first
\* one to the run start).
RepairedTimesMonotone ==
  \A i, j \in DOMAIN sent :
    LET a == sent[i].hdr  b == sent[j].hdr
    IN  /\ mImposeRunStartMS = 0 /\ a.run = b.run /\ a.run \in TabRuns
        /\ Orig(i).ctime = 0 /\ Orig(j).ctime = 0 /\ a.orbit <= b.orbit
        => a.ctime <= b.ctime
=============================================================================
