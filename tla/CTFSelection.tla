----------------------------- MODULE CTFSelection -----------------------------
(***************************************************************************)
(* Selection of time frames by run/time ranges in the CTF reader           *)
(* (src/Detectors/CTF/workflow/src/CTFReaderSpec.cxx): loadRunTimeSpans     *)
(* reads the triplet file at init, runTimeRangesToIRFrameSelector turns     *)
(* the ranges of one run into the IR frames of the selector, and processTF  *)
(* rebuilds the selector when the run changes and asks it whether each TF   *)
(* is accepted.                                                             *)
(*                                                                         *)
(* Lines of the file are abstract: a triplet with its parsed numbers, or a  *)
(* line the loop passes over (blank, comment, fewer than three tokens, a    *)
(* token stoi/stol rejects).  Times are milliseconds and orbits integers,   *)
(* both scaled down: the orbit counter is OrbitBits wide (uint32_t in the   *)
(* code), the epoch above which a value is a timestamp is ISTimeStamp, an   *)
(* orbit lasts OrbitUS/1000 ms.  Interaction records keep their orbit only: *)
(* frames and query windows both start at bc 0 and end at the last bc of    *)
(* their last orbit, so their overlap is the overlap of orbit intervals.    *)
(* The IRFrameSelector is not in the source tree; it is modelled from its   *)
(* contract (closed-interval overlap, isSet, clear, setOwnList).            *)
(***************************************************************************)
EXTENDS Integers, Sequences

CONSTANTS
  Runs,          \* run numbers that occur in the file and in the TFs
  RunInfo,       \* run -> AggregatedRunInfo: [runNumber, sor, orbitSOR, orbitsPerTF]
  RunThreshold,  \* runs above it snap ranges to TF boundaries (523897)
  ISTimeStamp,   \* values above it are timestamps in ms (1514761200000)
  OrbitUS,       \* length of an orbit in us, times 1000 per ms (LHCOrbitMUS)
  OrbitBits,     \* width of an orbit number (32)
  Files,         \* the run/time-span files init may be given
  TFSeqs         \* the sequences of CTF headers [run, orbit] the reader meets

\* The lines a file may hold: a triplet of a known run with two parsed
\* numbers, or a line the loop passes over.
Lines == [kind : {"triplet"}, run : Runs, rmin : Int, rmax : Int]
           \cup [kind : {"blank", "comment", "short", "unparsable"}]

ASSUME CTFSelectionAssumption ==
  /\ Runs \subseteq Nat \ {0}
  /\ RunThreshold \in Nat
  /\ ISTimeStamp \in Nat
  /\ OrbitUS \in Nat \ {0}
  /\ OrbitBits \in Nat \ {0}
  /\ 2^OrbitBits \in Nat \ {0}   \* (no prover knows ^)
  /\ \A r \in Runs : RunInfo[r].sor \in Nat /\ RunInfo[r].orbitSOR \in Nat
                     /\ RunInfo[r].orbitsPerTF \in Nat
  /\ Files \subseteq Seq(Lines)
  /\ TFSeqs \subseteq Seq([run : Runs, orbit : 0..2^OrbitBits - 1])

Top == 2^OrbitBits - 1                 \* 0xffffffff

\* Lines of the run/time-span file.
Triplet(r, a, b) == [kind |-> "triplet", run |-> r, rmin |-> a, rmax |-> b]
Other(k) == [kind |-> k]   \* "blank", "comment", "short", "unparsable"
TF(r, o) == [run |-> r, orbit |-> o]

\* values above ISTimeStamp are timestamps (convmn, convmx)
Unit(v) == IF v > ISTimeStamp THEN 1 ELSE 0

\* C++ conversion of a double to long: truncation toward zero.
Trunc(a, b) == IF a >= 0 THEN a \div b ELSE -((-a) \div b)

Clamp(v) == IF v < 0 THEN 0 ELSE v

VARIABLES
  pc,               \* "load", "stream", "done", "fatal" (LOGP(fatal) aborts)
  file, tfs,        \* the inputs
  cntl,             \* lines of the file read so far
  mRunTimeRanges,   \* run -> sequence of <<rmin, rmax>>
  mConvRunTimeRangesToOrbits,
  mTFLength,
  mRunNumberPrev,
  mIRFrameSelector, \* [isSet, frames]: the frames as [min, max] orbits
  skipSkimmedOutTF, invertIRFramesSelection,  \* mInput options
  accepted          \* processTF's verdict on each TF read so far

vars == <<pc, file, tfs, cntl, mRunTimeRanges, mConvRunTimeRangesToOrbits,
          mTFLength, mRunNumberPrev, mIRFrameSelector, skipSkimmedOutTF,
          invertIRFramesSelection, accepted>>

Frames == [min : 0..Top, max : 0..Top]

\* The table is only appended to; every stored range went through the checks.
TypeOK ==
  /\ pc \in {"load", "stream", "done", "fatal"}
  /\ mRunTimeRanges \in [Runs -> Seq(Int \X Int)]
  /\ mConvRunTimeRangesToOrbits \in {-1, 0, 1}
  /\ mTFLength \in Nat \ {0}
  /\ mRunNumberPrev \in {-1} \cup Runs
  /\ mIRFrameSelector \in [isSet : BOOLEAN, frames : SUBSET Frames]
  /\ accepted \in Seq(BOOLEAN)

\* The member initialisers; init() loads the file (no IR-frames file given).
Init ==
  /\ pc = "load"
  /\ file \in Files
  /\ tfs \in TFSeqs
  /\ cntl = 0
  /\ mRunTimeRanges = [r \in Runs |-> <<>>]
  /\ mConvRunTimeRangesToOrbits = -1
  /\ mTFLength = 128
  /\ mRunNumberPrev = -1
  /\ mIRFrameSelector = [isSet |-> FALSE, frames |-> {}]
  /\ skipSkimmedOutTF \in BOOLEAN
  /\ invertIRFramesSelection \in BOOLEAN
  /\ accepted = <<>>
-----------------------------------------------------------------------------
(* loadRunTimeSpans: one iteration of the getline loop per step.           *)

CurLine == file[cntl + 1]

\* Mutant: the unit check of later lines compares only rmin.
TripletOKMinOnly(l) ==
  /\ l.rmin <= l.rmax
  /\ IF mConvRunTimeRangesToOrbits = -1
       THEN Unit(l.rmin) = Unit(l.rmax)
       ELSE mConvRunTimeRangesToOrbits = Unit(l.rmin)

\* The checks a triplet passes before it is stored: increasing limits, and
\* units agreeing with each other (first triplet) or with the inferred unit.
TripletOK(l) ==
  /\ l.rmin <= l.rmax
  /\ IF mConvRunTimeRangesToOrbits = -1
       THEN Unit(l.rmin) = Unit(l.rmax)
       ELSE /\ mConvRunTimeRangesToOrbits = Unit(l.rmin)
            /\ mConvRunTimeRangesToOrbits = Unit(l.rmax)

LoadUnchanged == UNCHANGED <<file, tfs, mTFLength, mRunNumberPrev,
                   mIRFrameSelector, skipSkimmedOutTF,
                   invertIRFramesSelection, accepted>>

\* Blank and comment lines are skipped; malformed ones log and continue.
LoadSkip ==
  /\ pc = "load" /\ cntl < Len(file)
  /\ CurLine.kind # "triplet"
  /\ cntl' = cntl + 1
  /\ UNCHANGED <<pc, mRunTimeRanges, mConvRunTimeRangesToOrbits>>
  /\ LoadUnchanged

\* A triplet that passes the checks fixes the unit and is appended.
LoadTriplet ==
  /\ pc = "load" /\ cntl < Len(file)
  /\ CurLine.kind = "triplet"
  /\ TripletOK(CurLine)
  /\ cntl' = cntl + 1
  /\ mConvRunTimeRangesToOrbits' =
       IF mConvRunTimeRangesToOrbits = -1 THEN Unit(CurLine.rmin)
       ELSE mConvRunTimeRangesToOrbits
  /\ mRunTimeRanges' = [mRunTimeRanges EXCEPT ![CurLine.run] =
                          Append(@, <<CurLine.rmin, CurLine.rmax>>)]
  /\ UNCHANGED pc
  /\ LoadUnchanged

\* rmin > rmax, or mixed units: LOGP(fatal).
LoadReject ==
  /\ pc = "load" /\ cntl < Len(file)
  /\ CurLine.kind = "triplet"
  /\ ~TripletOK(CurLine)
  /\ pc' = "fatal"
  /\ UNCHANGED <<cntl, mRunTimeRanges, mConvRunTimeRangesToOrbits>>
  /\ LoadUnchanged

\* End of file: init() returns and the reader starts streaming.
LoadDone ==
  /\ pc = "load" /\ cntl = Len(file)
  /\ pc' = "stream"
  /\ UNCHANGED <<cntl, mRunTimeRanges, mConvRunTimeRangesToOrbits>>
  /\ LoadUnchanged
-----------------------------------------------------------------------------
(* runTimeRangesToIRFrameSelector and the selection step of processTF.     *)

\* orbitSOR + (t - sor) / (LHCOrbitMUS * 0.001), assigned to a long.
ToOrbit(t, ri) == Trunc(ri.orbitSOR * OrbitUS + (t - ri.sor) * 1000, OrbitUS)

\* The IR frame of one range of run r: conversion if the table holds
\* timestamps, clamp at 0, snap outward to TF boundaries for recent runs,
\* and uint32_t of each end.
Frame(r, rng) ==
  LET ri   == RunInfo[r]
      L    == ri.orbitsPerTF
      conv(v) == IF mConvRunTimeRangesToOrbits > 0 THEN ToOrbit(v, ri) ELSE v
      mn   == Clamp(conv(rng[1]))
      mx   == Clamp(conv(rng[2]))
      smn  == IF r > RunThreshold THEN (mn \div L) * L ELSE mn
      smx  == IF r > RunThreshold THEN (mx \div L + 1) * L - 1 ELSE mx
  IN  [min |-> smn % (Top + 1), max |-> smx % (Top + 1)]

\* Mutant: a run info without a TF length is taken.
RunInfoBadNoLength(r) == RunInfo[r].runNumber # r

\* The lookup failed or gave no TF length: LOGP(fatal).
RunInfoBad(r) == RunInfo[r].runNumber # r \/ RunInfo[r].orbitsPerTF < 1

\* The selector after clear() and, for a run with ranges, setOwnList of
\* their frames.
RunTimeRangesToIRFrameSelector(r) ==
  IF mRunTimeRanges[r] = <<>> THEN [isSet |-> FALSE, frames |-> {}]
  ELSE [isSet |-> TRUE,
        frames |-> {Frame(r, mRunTimeRanges[r][i]) : i \in DOMAIN mRunTimeRanges[r]}]

\* IRFrameSelector::getMatchingFrames: the frames whose closed interval
\* meets the query's.
Overlaps(a, b) == a.min <= b.max /\ b.min <= a.max
GetMatchingFrames(sel, q) == {f \in sel.frames : Overlaps(f, q)}

\* The last orbit of the TF's window, saturated at 0xffffffff.
QueryEnd(first, len) ==
  IF first < Top - (len - 1) THEN first + (len - 1) ELSE Top

\* Does processTF go on with this TF (given the selector and TF length)?
Acceptance(sel, len, tf) ==
  \/ ~sel.isSet
  \/ ~skipSkimmedOutTF
  \/ (GetMatchingFrames(sel, [min |-> tf.orbit,
                              max |-> QueryEnd(tf.orbit, len)]) # {})
       # invertIRFramesSelection

CurTF == tfs[Len(accepted) + 1]

\* Mutant: the selector is only rebuilt while it is unset.
RebuildsUnlessSet(tf) ==
  /\ \E r \in Runs : mRunTimeRanges[r] # <<>>
  /\ ~mIRFrameSelector.isSet

\* The selector is rebuilt when ranges were loaded and the run changed.
Rebuilds(tf) ==
  /\ \E r \in Runs : mRunTimeRanges[r] # <<>>
  /\ tf.run # mRunNumberPrev

StreamUnchanged == UNCHANGED <<file, tfs, cntl, mRunTimeRanges,
                     mConvRunTimeRangesToOrbits, skipSkimmedOutTF,
                     invertIRFramesSelection>>

\* processTF with the selector as it is (no rebuild), or after a rebuild
\* for a run without ranges (clear() and return: every TF processed), or
\* after a rebuild for a run with ranges and a valid run info.
ProcessTF ==
  /\ pc = "stream" /\ Len(accepted) < Len(tfs)
  /\ LET tf == CurTF
         r  == tf.run
         sel == IF Rebuilds(tf) THEN RunTimeRangesToIRFrameSelector(r)
                ELSE mIRFrameSelector
         len == IF Rebuilds(tf) /\ mRunTimeRanges[r] # <<>>
                  THEN RunInfo[r].orbitsPerTF ELSE mTFLength
     IN  /\ ~(Rebuilds(tf) /\ mRunTimeRanges[r] # <<>> /\ RunInfoBad(r))
         /\ mIRFrameSelector' = sel
         /\ mTFLength' = len
         /\ mRunNumberPrev' = r
         /\ accepted' = Append(accepted, Acceptance(sel, len, tf))
  /\ UNCHANGED pc
  /\ StreamUnchanged

\* The run of the TF has ranges but no usable run info: LOGP(fatal).
ProcessTFFatal ==
  /\ pc = "stream" /\ Len(accepted) < Len(tfs)
  /\ Rebuilds(CurTF)
  /\ mRunTimeRanges[CurTF.run] # <<>>
  /\ RunInfoBad(CurTF.run)
  /\ pc' = "fatal"
  /\ UNCHANGED <<mIRFrameSelector, mTFLength, mRunNumberPrev, accepted>>
  /\ StreamUnchanged

\* No more TFs: the reader stops.
StreamDone ==
  /\ pc = "stream" /\ Len(accepted) = Len(tfs)
  /\ pc' = "done"
  /\ UNCHANGED <<mIRFrameSelector, mTFLength, mRunNumberPrev, accepted>>
  /\ StreamUnchanged

Next ==
  \/ LoadSkip \/ LoadTriplet \/ LoadReject \/ LoadDone
  \/ ProcessTF \/ ProcessTFFatal \/ StreamDone

\* A single-threaded pass over the file, then over the TFs; it ends in
\* "done" or "fatal".
Spec == Init /\ [][Next]_vars
-----------------------------------------------------------------------------
(* Properties.                                                             *)

\* The orbit in which instant t of run r falls.
ExactOrbit(t, r) ==
  RunInfo[r].orbitSOR + ((t - RunInfo[r].sor) * 1000) \div OrbitUS

\* A stored range in orbits, without clamp, snap or cast.
RangeOrbits(r, rng) ==
  IF mConvRunTimeRangesToOrbits = 1
    THEN [min |-> ExactOrbit(rng[1], r), max |-> ExactOrbit(rng[2], r)]
    ELSE [min |-> rng[1], max |-> rng[2]]

\* The verdict the selection policy asks for: a TF of a run without ranges
\* is processed; otherwise, with skip-unselected on, it is processed iff
\* its orbits meet a range of its run, XOR the inversion flag.
Expected(tf) ==
  LET rs   == mRunTimeRanges[tf.run]
      last == tf.orbit + RunInfo[tf.run].orbitsPerTF - 1
      span == [min |-> tf.orbit, max |-> IF last > Top THEN Top ELSE last]
  IN  \/ rs = <<>>
      \/ ~skipSkimmedOutTF
      \/ (\E i \in DOMAIN rs : Overlaps(RangeOrbits(tf.run, rs[i]), span))
           # invertIRFramesSelection

\* Every TF processTF has seen was accepted or rejected as its own run's
\* ranges ask, through the rebuild on a run change, the unit conversion,
\* the snap to TF boundaries, the uint32 casts and the saturated window.
SelectedIffOverlaps ==
  \A i \in DOMAIN accepted : accepted[i] = Expected(tfs[i])

\* The triplets of the file, and those of one run as <<rmin, rmax>> pairs.
Trips == SelectSeq(file, LAMBDA l : l.kind = "triplet")
RunTrips(r) == SelectSeq(Trips, LAMBDA l : l.run = r)
TableOf(r) == [i \in DOMAIN RunTrips(r) |-> <<RunTrips(r)[i].rmin, RunTrips(r)[i].rmax>>]

\* The file is unusable: a triplet with rmin > rmax, or a value whose unit
\* differs from that of the first triplet's rmin.
FileBad ==
  \E i \in DOMAIN Trips :
     \/ Trips[i].rmin > Trips[i].rmax
     \/ Unit(Trips[i].rmin) # Unit(Trips[1].rmin)
     \/ Unit(Trips[i].rmax) # Unit(Trips[1].rmin)

\* loadRunTimeSpans aborts exactly on an unusable file, and otherwise
\* leaves each run the triplets of the file for it, in file order.
LoadVerdict ==
  /\ pc \in {"stream", "done"} => ~FileBad /\ \A r \in Runs : mRunTimeRanges[r] = TableOf(r)
  /\ pc = "fatal" /\ cntl < Len(file) => FileBad
=============================================================================
