-------------------------- MODULE CTFSelectionProofs --------------------------
(***************************************************************************)
(* Proofs about the run/time-span table and the IRFrame selector of the    *)
(* CTF reader, for every value of the constants that satisfies             *)
(* CTFSelectionAssumption.                                                  *)
(***************************************************************************)
EXTENDS CTFSelection, TLAPS

USE CTFSelectionAssumption

\* The inductive invariant: the type, and the inputs and cursors that the
\* actions read (the file, the TFs, the line and TF positions, the options).
IInv ==
  /\ TypeOK
  /\ file \in Files
  /\ tfs \in TFSeqs
  /\ cntl \in 0..Len(file)
  /\ Len(accepted) <= Len(tfs)
  /\ skipSkimmedOutTF \in BOOLEAN
  /\ invertIRFramesSelection \in BOOLEAN

\* An element of a sequence at an index of its domain is in its set.
LEMMA SeqElem ==
  ASSUME NEW S, NEW s \in Seq(S), NEW i \in 1..Len(s)
  PROVE  s[i] \in S
  OBVIOUS

\* The counter's largest value 0xffffffff is a natural number.
LEMMA TopNat == Top \in Nat
  BY DEF Top

\* Each IR frame built from a stored range is a pair of uint32 values,
\* provided the run's TF length is at least 1 (else processTF aborts).
LEMMA FrameType ==
  ASSUME NEW r \in Runs, NEW rng \in Int \X Int,
         mConvRunTimeRangesToOrbits \in {-1, 0, 1},
         RunInfo[r].orbitsPerTF >= 1
  PROVE  Frame(r, rng) \in Frames
  <1> DEFINE ri == RunInfo[r]
             L  == ri.orbitsPerTF
             conv(v) == IF mConvRunTimeRangesToOrbits > 0 THEN ToOrbit(v, ri) ELSE v
             mn == Clamp(conv(rng[1]))
             mx == Clamp(conv(rng[2]))
             smn == IF r > RunThreshold THEN (mn \div L) * L ELSE mn
             smx == IF r > RunThreshold THEN (mx \div L + 1) * L - 1 ELSE mx
  <1>1. Top \in Nat
    BY TopNat
  <1>2. rng[1] \in Int /\ rng[2] \in Int
    OBVIOUS
  <1>3. L \in Nat /\ L >= 1 /\ ri.sor \in Nat /\ ri.orbitSOR \in Nat
    OBVIOUS
  <1>4. \A t \in Int : ToOrbit(t, ri) \in Int
    <2> SUFFICES ASSUME NEW t \in Int PROVE ToOrbit(t, ri) \in Int
      OBVIOUS
    <2>1. ri.orbitSOR * OrbitUS \in Int /\ (t - ri.sor) * 1000 \in Int
      BY <1>3
    <2>2. \A a \in Int : Trunc(a, OrbitUS) \in Int
      BY DEF Trunc
    <2>3. ri.orbitSOR * OrbitUS + (t - ri.sor) * 1000 \in Int
      BY <1>3, <2>1 DEF ri
    <2>4. Trunc(ri.orbitSOR * OrbitUS + (t - ri.sor) * 1000, OrbitUS) \in Int
      BY <2>2, <2>3, Zenon
    <2>. QED
      BY <2>4, Zenon DEF ToOrbit
  <1>5. mn \in Int /\ mx \in Int
    BY <1>2, <1>4 DEF Clamp
  <1>6. \A a, b \in Int : a * b \in Int
    OBVIOUS
  <1>7. smn \in Int /\ smx \in Int
    <2>1. (mn \div L) \in Int /\ (mx \div L + 1) \in Int
      BY <1>3, <1>5
    <2>. QED
      BY <1>3, <1>5, <1>6, <2>1
  <1>8. smn % (Top + 1) \in 0..Top /\ smx % (Top + 1) \in 0..Top
    BY <1>1, <1>7
  <1>9. Frame(r, rng) = [min |-> smn % (Top + 1), max |-> smx % (Top + 1)]
    BY DEF Frame
  <1>. QED
    BY <1>8, <1>9 DEF Frames

\* runTimeRangesToIRFrameSelector leaves a selector of uint32 frames.
LEMMA SelectorType ==
  ASSUME NEW r \in Runs,
         mRunTimeRanges \in [Runs -> Seq(Int \X Int)],
         mConvRunTimeRangesToOrbits \in {-1, 0, 1},
         mRunTimeRanges[r] # <<>> => RunInfo[r].orbitsPerTF >= 1
  PROVE  RunTimeRangesToIRFrameSelector(r) \in [isSet : BOOLEAN, frames : SUBSET Frames]
  <1>1. CASE mRunTimeRanges[r] = <<>>
    BY <1>1 DEF RunTimeRangesToIRFrameSelector
  <1>2. CASE mRunTimeRanges[r] # <<>>
    <2>1. \A i \in DOMAIN mRunTimeRanges[r] : Frame(r, mRunTimeRanges[r][i]) \in Frames
      <3> SUFFICES ASSUME NEW i \in DOMAIN mRunTimeRanges[r]
                   PROVE  Frame(r, mRunTimeRanges[r][i]) \in Frames
        OBVIOUS
      <3>1. mRunTimeRanges[r][i] \in Int \X Int
        <4>1. mRunTimeRanges[r] \in Seq(Int \X Int)
          BY Zenon
        <4>2. i \in 1..Len(mRunTimeRanges[r])
          BY <4>1
        <4>. QED
          BY <4>1, <4>2, SeqElem
      <3>2. RunInfo[r].orbitsPerTF >= 1
        BY <1>2
      <3>. QED
        BY <3>1, <3>2, FrameType
    <2>. QED
      BY <1>2, <2>1 DEF RunTimeRangesToIRFrameSelector
  <1>. QED
    BY <1>1, <1>2

\* The initial states satisfy the invariant.
LEMMA InitIInv == Init => IInv
  <1> SUFFICES ASSUME Init PROVE IInv
    OBVIOUS
  <1>1. file \in Seq(Lines)
    BY DEF Init
  <1>. QED
    BY <1>1 DEF Init, IInv, TypeOK, Frames

\* Every step of loadRunTimeSpans and processTF keeps the invariant.
LEMMA NextIInv == IInv /\ [Next]_vars => IInv'
  <1> SUFFICES ASSUME IInv, [Next]_vars PROVE IInv'
    OBVIOUS
  <1>0. file \in Seq(Lines) /\ tfs \in Seq([run : Runs, orbit : 0..Top])
    BY DEF IInv, Top
  <1>1. CASE LoadSkip
    BY <1>1 DEF LoadSkip, LoadUnchanged, IInv, TypeOK
  <1>2. CASE LoadTriplet
    <2>1. CurLine \in [kind : {"triplet"}, run : Runs, rmin : Int, rmax : Int]
      <3>1. cntl \in 0..Len(file) /\ cntl < Len(file)
        BY <1>2 DEF LoadTriplet, IInv
      <3>2. CurLine \in Lines
        BY <1>0, <3>1 DEF CurLine
      <3>3. CurLine.kind = "triplet"
        BY <1>2 DEF LoadTriplet
      <3>4. \A l \in [kind : {"blank", "comment", "short", "unparsable"}] : l.kind # "triplet"
        OBVIOUS
      <3>. QED
        BY <3>2, <3>3, <3>4, Zenon DEF Lines
    <2>2. mConvRunTimeRangesToOrbits' \in {-1, 0, 1}
      BY <1>2 DEF LoadTriplet, Unit, IInv, TypeOK
    <2>3. mRunTimeRanges' \in [Runs -> Seq(Int \X Int)]
      <3>1. <<CurLine.rmin, CurLine.rmax>> \in Int \X Int
        BY <2>1
      <3>2. mRunTimeRanges[CurLine.run] \in Seq(Int \X Int)
        BY <2>1 DEF IInv, TypeOK
      <3>3. Append(mRunTimeRanges[CurLine.run], <<CurLine.rmin, CurLine.rmax>>) \in Seq(Int \X Int)
        BY <3>1, <3>2
      <3>. QED
        BY <1>2, <2>1, <3>3 DEF LoadTriplet, IInv, TypeOK
    <2>. QED
      BY <1>2, <2>2, <2>3 DEF LoadTriplet, LoadUnchanged, IInv, TypeOK
  <1>3. CASE LoadReject
    BY <1>3 DEF LoadReject, LoadUnchanged, IInv, TypeOK
  <1>4. CASE LoadDone
    BY <1>4 DEF LoadDone, LoadUnchanged, IInv, TypeOK
  <1>5. CASE ProcessTF
    <2> DEFINE tf == CurTF
               r  == tf.run
               sel == IF Rebuilds(tf) THEN RunTimeRangesToIRFrameSelector(r)
                      ELSE mIRFrameSelector
               len == IF Rebuilds(tf) /\ mRunTimeRanges[r] # <<>>
                        THEN RunInfo[r].orbitsPerTF ELSE mTFLength
    <2>1. Len(accepted) < Len(tfs)
      BY <1>5 DEF ProcessTF
    <2>2. tf \in [run : Runs, orbit : 0..Top]
      <3>1. Len(accepted) + 1 \in 1..Len(tfs)
        BY <2>1 DEF IInv, TypeOK
      <3>2. tfs[Len(accepted) + 1] \in [run : Runs, orbit : 0..Top]
        <4>1. tfs \in Seq([run : Runs, orbit : 0..Top])
          BY <1>0
        <4>. QED
          BY <3>1, <4>1, SeqElem
      <3>. QED
        BY <3>2, Zenon DEF tf, CurTF
    <2>3. ~(Rebuilds(tf) /\ mRunTimeRanges[r] # <<>> /\ RunInfoBad(r))
      BY <1>5 DEF ProcessTF
    <2>4. Rebuilds(tf) /\ mRunTimeRanges[r] # <<>> => RunInfo[r].orbitsPerTF >= 1
      <3>1. r \in Runs
        BY <2>2 DEF r
      <3>2. RunInfo[r].orbitsPerTF \in Nat
        BY <3>1
      <3>3. Rebuilds(tf) /\ mRunTimeRanges[r] # <<>> => ~RunInfoBad(r)
        BY <2>3, Zenon
      <3>. QED
        BY <3>2, <3>3 DEF RunInfoBad
    <2>5. sel \in [isSet : BOOLEAN, frames : SUBSET Frames]
      BY <2>2, <2>4, SelectorType DEF sel, r, IInv, TypeOK
    <2>6. len \in Nat \ {0}
      <3>1. RunInfo[r].orbitsPerTF \in Nat /\ mTFLength \in Nat \ {0}
        BY <2>2 DEF r, IInv, TypeOK
      <3>. QED
        BY <2>4, <3>1 DEF len
    <2>7. Acceptance(sel, len, tf) \in BOOLEAN
      BY DEF Acceptance
    <2>8. /\ mIRFrameSelector' = sel
          /\ mTFLength' = len
          /\ mRunNumberPrev' = r
          /\ accepted' = Append(accepted, Acceptance(sel, len, tf))
      BY <1>5 DEF ProcessTF, tf, r, sel, len
    <2>9. accepted' \in Seq(BOOLEAN) /\ Len(accepted') <= Len(tfs)
      BY <2>1, <2>7, <2>8 DEF IInv, TypeOK
    <2>. QED
      BY <1>5, <2>2, <2>5, <2>6, <2>8, <2>9 DEF ProcessTF, StreamUnchanged, IInv, TypeOK
  <1>6. CASE ProcessTFFatal
    BY <1>6 DEF ProcessTFFatal, StreamUnchanged, IInv, TypeOK
  <1>7. CASE StreamDone
    BY <1>7 DEF StreamDone, StreamUnchanged, IInv, TypeOK
  <1>8. CASE UNCHANGED vars
    BY <1>8 DEF vars, IInv, TypeOK
  <1>. QED
    BY <1>1, <1>2, <1>3, <1>4, <1>5, <1>6, <1>7, <1>8 DEF Next

\* Type correctness of the run/time-span table and the selector: through
\* loadRunTimeSpans and every processTF, with rebuilds on run changes, the
\* table holds integer pairs, the unit flag is -1, 0 or 1, the TF length is
\* at least 1, the selector's frames are uint32 intervals and every verdict
\* is a Boolean.
THEOREM TypeCorrect == Spec => []TypeOK
  <1>1. Init => IInv
    BY InitIInv
  <1>2. IInv /\ [Next]_vars => IInv'
    BY NextIInv
  <1>3. IInv => TypeOK
    BY DEF IInv
  <1>. QED
    BY <1>1, <1>2, <1>3, PTL DEF Spec
-----------------------------------------------------------------------------
(* The selector processTF judges a TF with is that of the TF's own run.    *)

\* Once a TF has been processed and the file gave ranges to some run, the
\* selector and mTFLength are those runTimeRangesToIRFrameSelector builds
\* for the run of the last TF: the rebuild on a run change
\* (CTFReaderSpec.cxx:417) never leaves the previous run's frames or TF
\* length in place.  Before the first TF mRunNumberPrev is still -1.
SelectorOfRun ==
  /\ pc = "load" => mRunNumberPrev = -1
  /\ mRunNumberPrev # -1 /\ (\E r \in Runs : mRunTimeRanges[r] # <<>>) =>
       /\ mIRFrameSelector = RunTimeRangesToIRFrameSelector(mRunNumberPrev)
       /\ mRunTimeRanges[mRunNumberPrev] # <<>> =>
            mTFLength = RunInfo[mRunNumberPrev].orbitsPerTF

\* The selector a run gets depends only on the table and the unit flag, so
\* over a step that keeps both, the run recorded next gets the same one.
LEMMA SelectorStable ==
  ASSUME NEW q \in Runs,
         mRunNumberPrev' = q,
         mRunTimeRanges' = mRunTimeRanges,
         mConvRunTimeRangesToOrbits' = mConvRunTimeRangesToOrbits
  PROVE  /\ RunTimeRangesToIRFrameSelector(mRunNumberPrev)' = RunTimeRangesToIRFrameSelector(q)
         /\ (mRunTimeRanges[mRunNumberPrev] # <<>>)' = (mRunTimeRanges[q] # <<>>)
         /\ RunInfo[mRunNumberPrev'].orbitsPerTF = RunInfo[q].orbitsPerTF
         /\ (\E s \in Runs : mRunTimeRanges[s] # <<>>)' = \E s \in Runs : mRunTimeRanges[s] # <<>>
  BY DEF RunTimeRangesToIRFrameSelector, Frame

\* The initial state has processed no TF.
LEMMA InitSelectorOfRun == Init => SelectorOfRun
  BY DEF Init, SelectorOfRun

\* Every step keeps the selector that of the last TF's run.
LEMMA NextSelectorOfRun ==
  IInv /\ SelectorOfRun /\ [Next]_vars => SelectorOfRun'
  <1> SUFFICES ASSUME IInv, SelectorOfRun, [Next]_vars PROVE SelectorOfRun'
    OBVIOUS
  <1>1. CASE LoadSkip \/ LoadTriplet \/ LoadReject \/ LoadDone
    <2>1. pc = "load" /\ mRunNumberPrev' = mRunNumberPrev
      BY <1>1 DEF LoadSkip, LoadTriplet, LoadReject, LoadDone, LoadUnchanged
    <2>2. mRunNumberPrev' = -1
      BY <2>1 DEF SelectorOfRun
    <2>. QED
      BY <2>2 DEF SelectorOfRun
  <1>2. CASE ProcessTF
    <2> DEFINE tf == CurTF
               r  == tf.run
               sel == IF Rebuilds(tf) THEN RunTimeRangesToIRFrameSelector(r)
                      ELSE mIRFrameSelector
               len == IF Rebuilds(tf) /\ mRunTimeRanges[r] # <<>>
                        THEN RunInfo[r].orbitsPerTF ELSE mTFLength
    <2>1. /\ mIRFrameSelector' = sel
          /\ mTFLength' = len
          /\ mRunNumberPrev' = r
          /\ pc' = "stream"
          /\ mRunTimeRanges' = mRunTimeRanges
          /\ mConvRunTimeRangesToOrbits' = mConvRunTimeRangesToOrbits
      BY <1>2 DEF ProcessTF, StreamUnchanged, tf, r, sel, len
    <2>2. r \in Runs
      <3>1. Len(accepted) < Len(tfs) /\ Len(accepted) + 1 \in 1..Len(tfs)
        BY <1>2 DEF ProcessTF, IInv, TypeOK
      <3>2. tfs \in Seq([run : Runs, orbit : 0..Top])
        BY DEF IInv, Top
      <3>3. tfs[Len(accepted) + 1] \in [run : Runs, orbit : 0..Top]
        BY <3>1, <3>2, SeqElem
      <3>. QED
        BY <3>3 DEF r, tf, CurTF
    <2>3. /\ RunTimeRangesToIRFrameSelector(mRunNumberPrev)' = RunTimeRangesToIRFrameSelector(r)
          /\ (mRunTimeRanges[mRunNumberPrev] # <<>>)' = (mRunTimeRanges[r] # <<>>)
          /\ RunInfo[mRunNumberPrev'].orbitsPerTF = RunInfo[r].orbitsPerTF
          /\ (\E s \in Runs : mRunTimeRanges[s] # <<>>)' = \E s \in Runs : mRunTimeRanges[s] # <<>>
      BY <2>1, <2>2, SelectorStable
    <2>4. mRunNumberPrev' # -1
      BY <2>1, <2>2
    <2>5. CASE Rebuilds(tf)
      <3>1. mIRFrameSelector' = RunTimeRangesToIRFrameSelector(mRunNumberPrev)'
        BY <2>1, <2>3, <2>5 DEF sel
      <3>2. (mRunTimeRanges[mRunNumberPrev] # <<>>)' =>
              mTFLength' = RunInfo[mRunNumberPrev'].orbitsPerTF
        BY <2>1, <2>3, <2>5 DEF len
      <3>. QED
        BY <2>1, <3>1, <3>2 DEF SelectorOfRun
    <2>6. CASE ~Rebuilds(tf)
      <3>1. CASE \A q \in Runs : mRunTimeRanges[q] = <<>>
        BY <2>1, <3>1 DEF SelectorOfRun
      <3>2. CASE \E q \in Runs : mRunTimeRanges[q] # <<>>
        <4>1. r = mRunNumberPrev
          BY <2>6, <3>2 DEF Rebuilds
        <4>2. mRunNumberPrev # -1
          BY <2>2, <4>1
        <4>3. /\ mIRFrameSelector = RunTimeRangesToIRFrameSelector(mRunNumberPrev)
              /\ mRunTimeRanges[mRunNumberPrev] # <<>> =>
                   mTFLength = RunInfo[mRunNumberPrev].orbitsPerTF
          BY <3>2, <4>2 DEF SelectorOfRun
        <4>4. mIRFrameSelector' = RunTimeRangesToIRFrameSelector(mRunNumberPrev)'
          BY <2>1, <2>3, <2>6, <4>1, <4>3 DEF sel
        <4>5. (mRunTimeRanges[mRunNumberPrev] # <<>>)' =>
                mTFLength' = RunInfo[mRunNumberPrev'].orbitsPerTF
          BY <2>1, <2>3, <2>6, <4>1, <4>3 DEF len
        <4>. QED
          BY <2>1, <4>4, <4>5 DEF SelectorOfRun
      <3>. QED
        BY <3>1, <3>2
    <2>. QED
      BY <2>5, <2>6
  <1>3. CASE ProcessTFFatal \/ StreamDone
    <2>1. /\ mIRFrameSelector' = mIRFrameSelector
          /\ mTFLength' = mTFLength
          /\ mRunNumberPrev' = mRunNumberPrev
          /\ pc' = "fatal" \/ pc' = "done"
          /\ mRunTimeRanges' = mRunTimeRanges
          /\ mConvRunTimeRangesToOrbits' = mConvRunTimeRangesToOrbits
      BY <1>3 DEF ProcessTFFatal, StreamDone, StreamUnchanged
    <2>2. mRunNumberPrev # -1 => mRunNumberPrev \in Runs
      BY DEF IInv, TypeOK
    <2>. QED
      BY <2>1, <2>2, SelectorStable DEF SelectorOfRun
  <1>4. CASE UNCHANGED vars
    <2>1. mRunNumberPrev # -1 => mRunNumberPrev \in Runs
      BY DEF IInv, TypeOK
    <2>. QED
      BY <1>4, <2>1, SelectorStable DEF vars, SelectorOfRun
  <1>. QED
    BY <1>1, <1>2, <1>3, <1>4 DEF Next

\* processTF never judges a TF with a stale selector: after every step, the
\* selector and the TF length in use are those built for the run of the
\* last TF processed, as long as the file gave ranges to some run.
THEOREM SelectorNeverStale == Spec => []SelectorOfRun
  <1>1. Init => IInv /\ SelectorOfRun
    BY InitIInv, InitSelectorOfRun
  <1>2. IInv /\ SelectorOfRun /\ [Next]_vars => IInv' /\ SelectorOfRun'
    BY NextIInv, NextSelectorOfRun
  <1>. QED
    BY <1>1, <1>2, PTL DEF Spec
====
