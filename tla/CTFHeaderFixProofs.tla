-------------------------- MODULE CTFHeaderFixProofs --------------------------
(***************************************************************************)
(* Proofs about the header path of CTFReaderSpec::processTF.  The         *)
(* inductive invariant IInv says that every header sent is FixedHeader of  *)
(* the tree entry it was read from, with the counter value it had when it  *)
(* was accepted (k - 1 for the k-th), and that the outputs and the verdict *)
(* recorded with it are those processDetector gives for that header.  The  *)
(* properties are then facts about the header operators alone.            *)
(***************************************************************************)
EXTENDS CTFHeaderFix, WellFoundedInduction, TLAPS

\* What processTF records for a header: the outputs made and the verdict.
SentT == [src : HeaderT, hdr : HeaderT, outs : SUBSET [det : STRING, full : BOOLEAN],
          ok : BOOLEAN]

\* The k-th sent header was produced from its source with counter k - 1.
SentOK(k) ==
  LET s == sent[k]
      m == FirstMissing(s.hdr, allowMissing)
  IN  /\ s.hdr = FixedHeader(s.src, mImposeRunStartMS, mUseLocalTFCounter, k - 1)
      /\ s.outs = MadeBefore(s.hdr, m)
      /\ s.ok = (m = 0)

\* The detectors processTF calls processDetector for.
Called == {DetOrder[i] : i \in DOMAIN DetOrder}

IInv ==
  /\ entries \in Entries
  /\ mImposeRunStartMS \in ImposeMS
  /\ mUseLocalTFCounter \in BOOLEAN
  /\ allowMissing \in BOOLEAN
  /\ next \in 1..(Len(entries) + 1)
  /\ mCTFCounterAcc \in Nat
  /\ mCTFCounterAcc <= next - 1
  /\ status \in {"run", "fatal", "done"}
  /\ sent \in Seq(SentT)
  /\ Len(sent) = mCTFCounterAcc + (IF status = "fatal" THEN 1 ELSE 0)
  /\ \A k \in 1..Len(sent) : SentOK(k)

-----------------------------------------------------------------------------
(* Lemmas about the operators.                                            *)

\* A nonempty set of naturals has a least element (from the
\* well-foundedness of < on Nat).
LEMMA MinExists ==
  ASSUME NEW S \in SUBSET Nat, S # {}
  PROVE  \E m \in S : \A k \in S : m <= k
<1>1. \E x \in S : \A y \in S : ~(<<y, x>> \in OpToRel(<, Nat))
  BY NatLessThanWellFounded, WFMin
<1>2. PICK x \in S : \A y \in S : ~(<<y, x>> \in OpToRel(<, Nat))
  BY <1>1
<1>3. \A y \in S : ~(y < x)
  BY <1>2 DEF OpToRel
<1>. QED
  BY <1>3
\* The rows of tf0Data are typed rows.
LEMMA TabType ==
  /\ DOMAIN RunStartTab = 1..Len(RunStartTab)
  /\ Len(RunStartTab) \in Nat \ {0}
  /\ \A i \in DOMAIN RunStartTab : RunStartTab[i] \in TabRow
BY CTFHeaderFixAssumption

\* tryToFixCTFHeader only sets the creation time, to an unsigned value.
LEMMA TryToFixType ==
  ASSUME NEW h \in HeaderT
  PROVE  \E c \in Nat : TryToFixCTFHeader(h) = [h EXCEPT !.ctime = c]
<1> DEFINE rows == {i \in DOMAIN RunStartTab : RowMatches(h, RunStartTab[i])}
           guard == /\ h.run >= RunStartTab[1].run
                    /\ h.run <= RunStartTab[Len(RunStartTab)].run
                    /\ rows # {}
<1>1. CASE guard
  <2>1. rows \in SUBSET Nat /\ rows # {}
    BY <1>1, TabType
  <2>2. \E i \in rows : \A j \in rows : i <= j
    BY <2>1, MinExists
  <2> DEFINE i0 == CHOOSE i \in rows : \A j \in rows : i <= j
             t  == RunStartTab[i0]
             off == CeilDiv(((h.orbit - t.orbit) % OrbitMod) * OrbitUS, 1000)
  <2>3. i0 \in DOMAIN RunStartTab
    BY <2>2
  <2>4. t \in TabRow
    BY <2>3, TabType
  <2>5. off \in Int
    <3>1. h.orbit \in Int /\ t.orbit \in Int
      BY <2>4 DEF HeaderT, TabRow
    <3>2. ((h.orbit - t.orbit) % OrbitMod) * OrbitUS \in Int
      BY <3>1, CTFHeaderFixAssumption
    <3>. QED
      BY <3>2 DEF CeilDiv
  <2>6. t.ts0 + (IF off > 0 THEN off ELSE 0) \in Nat
    BY <2>4, <2>5 DEF TabRow
  <2>7. TryToFixCTFHeader(h) = [h EXCEPT !.ctime = t.ts0 + (IF off > 0 THEN off ELSE 0)]
    BY <1>1 DEF TryToFixCTFHeader
  <2>. QED
    BY <2>6, <2>7
<1>2. CASE ~guard
  <2>1. TryToFixCTFHeader(h) = h
    BY <1>2 DEF TryToFixCTFHeader
  <2>2. h = [h EXCEPT !.ctime = h.ctime]
    BY DEF HeaderT
  <2>. QED
    BY <2>1, <2>2 DEF HeaderT
<1>. QED
  BY <1>1, <1>2
\* The header processTF sends is a CTFHeader of the same run with the same
\* detectors, numbered by the local counter when asked.
LEMMA FixedHeaderType ==
  ASSUME NEW h \in HeaderT, NEW impose \in Nat, NEW local \in BOOLEAN, NEW acc \in Nat
  PROVE  /\ FixedHeader(h, impose, local, acc) \in HeaderT
         /\ FixedHeader(h, impose, local, acc).run = h.run
         /\ FixedHeader(h, impose, local, acc).dets = h.dets
         /\ local => FixedHeader(h, impose, local, acc).tfc = acc
<1> DEFINE h1 == IF impose > 0
                   THEN [h EXCEPT !.ctime = impose + TruncDiv(h.orbit * OrbitUS, 1000)]
                   ELSE h
           h2 == IF h1.ctime = 0 THEN TryToFixCTFHeader(h1) ELSE h1
<1>1. h1 \in HeaderT /\ h1.run = h.run /\ h1.dets = h.dets
  <2>1. impose + TruncDiv(h.orbit * OrbitUS, 1000) \in Nat
    BY CTFHeaderFixAssumption DEF HeaderT, TruncDiv
  <2>. QED
    BY <2>1 DEF HeaderT
<1>2. h2 \in HeaderT /\ h2.run = h.run /\ h2.dets = h.dets
  <2>1. CASE h1.ctime = 0
    <3>1. PICK c \in Nat : TryToFixCTFHeader(h1) = [h1 EXCEPT !.ctime = c]
      BY <1>1, TryToFixType
    <3>. QED
      BY <1>1, <2>1, <3>1 DEF HeaderT
  <2>2. CASE h1.ctime # 0
    BY <1>1, <2>2
  <2>. QED
    BY <2>1, <2>2
<1>3. FixedHeader(h, impose, local, acc) = IF local THEN [h2 EXCEPT !.tfc = acc] ELSE h2
  BY DEF FixedHeader
<1>. QED
  BY <1>2, <1>3 DEF HeaderT
\* Each run has one row of tf0Data: the rows matching it are that one.
LEMMA RowUnique ==
  ASSUME NEW r0 \in DOMAIN RunStartTab
  PROVE  /\ {i \in DOMAIN RunStartTab : RunStartTab[i].run = RunStartTab[r0].run} = {r0}
         /\ Row(RunStartTab[r0].run) = RunStartTab[r0]
<1>1. \A i \in DOMAIN RunStartTab : RunStartTab[i].run = RunStartTab[r0].run => i = r0
  <2>. TAKE i \in DOMAIN RunStartTab
  <2>1. i < r0 \/ r0 < i \/ i = r0
    BY TabType
  <2>. QED
    BY <2>1, CTFHeaderFixAssumption, TabType DEF TabRow
<1>. QED
  BY <1>1 DEF Row

\* For a run of the table the repaired time is never before the run's
\* recorded start.
LEMMA TryToFixFromRow ==
  ASSUME NEW h \in HeaderT, NEW r0 \in DOMAIN RunStartTab, RunStartTab[r0].run = h.run
  PROVE  TryToFixCTFHeader(h).ctime >= RunStartTab[r0].ts0
<1> DEFINE rows == {i \in DOMAIN RunStartTab : RowMatches(h, RunStartTab[i])}
           t  == RunStartTab[CHOOSE i \in rows : \A j \in rows : i <= j]
           off == CeilDiv(((h.orbit - t.orbit) % OrbitMod) * OrbitUS, 1000)
<1>1. rows = {r0}
  BY RowUnique DEF RowMatches
<1>2. t = RunStartTab[r0]
  <2>1. r0 \in Nat
    BY TabType
  <2>2. (CHOOSE i \in rows : \A j \in rows : i <= j) = r0
    BY <1>1, <2>1
  <2>. QED
    BY <2>2
<1>3. h.run >= RunStartTab[1].run /\ h.run <= RunStartTab[Len(RunStartTab)].run
  <2> DEFINE L == Len(RunStartTab)
  <2>1. 1 \in DOMAIN RunStartTab /\ L \in DOMAIN RunStartTab
    BY TabType
  <2>2. RunStartTab[1].run \in Nat /\ RunStartTab[r0].run \in Nat /\ RunStartTab[L].run \in Nat
    BY <2>1, TabType DEF TabRow
  <2>3. 1 < r0 => RunStartTab[1].run < RunStartTab[r0].run
    BY <2>1, CTFHeaderFixAssumption
  <2>4. r0 < L => RunStartTab[r0].run < RunStartTab[L].run
    BY <2>1, CTFHeaderFixAssumption
  <2>5. (r0 = 1 \/ 1 < r0) /\ (r0 = L \/ r0 < L)
    BY TabType
  <2>. QED
    BY <2>2, <2>3, <2>4, <2>5
<1>4. TryToFixCTFHeader(h) = [h EXCEPT !.ctime = t.ts0 + (IF off > 0 THEN off ELSE 0)]
  BY <1>1, <1>3 DEF TryToFixCTFHeader
<1>5. off \in Int
  <2>1. h.orbit \in Int /\ t.orbit \in Int
    BY <1>2, TabType DEF HeaderT, TabRow
  <2>2. ((h.orbit - t.orbit) % OrbitMod) * OrbitUS \in Int
    BY <2>1, CTFHeaderFixAssumption
  <2>. QED
    BY <2>2 DEF CeilDiv
<1>6. t.ts0 \in Nat
  BY <1>2, TabType DEF TabRow
<1>. QED
  BY <1>2, <1>4, <1>5, <1>6 DEF HeaderT
\* Without an imposed start, FixedHeader keeps a recorded creation time,
\* leaves a zero one of a run the table does not know at zero, and repairs
\* one of a known run to no earlier than the run's recorded start.
LEMMA FixedHeaderNeverFabricated ==
  ASSUME NEW h \in HeaderT, NEW local \in BOOLEAN, NEW acc \in Nat
  PROVE  LET f == FixedHeader(h, 0, local, acc)
         IN  /\ h.ctime # 0 => f.ctime = h.ctime
             /\ h.ctime = 0 /\ f.run \notin TabRuns => f.ctime = 0
             /\ h.ctime = 0 /\ f.run \in TabRuns => f.ctime >= Row(f.run).ts0
<1> DEFINE h2 == IF h.ctime = 0 THEN TryToFixCTFHeader(h) ELSE h
           f == FixedHeader(h, 0, local, acc)
<1>1. f.ctime = h2.ctime /\ f.run = h.run
  <2>1. f = IF local THEN [h2 EXCEPT !.tfc = acc] ELSE h2
    BY DEF FixedHeader
  <2>2. PICK c \in Nat : TryToFixCTFHeader(h) = [h EXCEPT !.ctime = c]
    BY TryToFixType
  <2>. QED
    BY <2>1, <2>2 DEF HeaderT
<1>2. h.ctime # 0 => f.ctime = h.ctime
  BY <1>1
<1>3. h.ctime = 0 /\ f.run \notin TabRuns => f.ctime = 0
  <2>. SUFFICES ASSUME h.ctime = 0, f.run \notin TabRuns PROVE f.ctime = 0
    OBVIOUS
  <2>1. {i \in DOMAIN RunStartTab : RowMatches(h, RunStartTab[i])} = {}
    BY <1>1 DEF TabRuns, RowMatches
  <2>2. TryToFixCTFHeader(h) = h
    BY <2>1 DEF TryToFixCTFHeader
  <2>. QED
    BY <1>1, <2>2
<1>4. h.ctime = 0 /\ f.run \in TabRuns => f.ctime >= Row(f.run).ts0
  <2>. SUFFICES ASSUME h.ctime = 0, f.run \in TabRuns PROVE f.ctime >= Row(f.run).ts0
    OBVIOUS
  <2>1. PICK r0 \in DOMAIN RunStartTab : RunStartTab[r0].run = h.run
    BY <1>1 DEF TabRuns
  <2>2. Row(h.run) = RunStartTab[r0]
    BY <2>1, RowUnique
  <2>3. TryToFixCTFHeader(h).ctime >= RunStartTab[r0].ts0
    BY <2>1, TryToFixFromRow
  <2>. QED
    BY <1>1, <2>2, <2>3
<1>. QED
  BY <1>2, <1>3, <1>4
\* When every requested detector is one processTF calls processDetector
\* for, the call sequence completes exactly when missing detectors are
\* allowed or none is missing, and then it has made one output per
\* requested detector, filled exactly when the header lists it.
LEMMA FirstMissingVerdict ==
  ASSUME NEW h \in HeaderT, NEW am \in BOOLEAN, DetMask \subseteq Called
  PROVE  LET k == FirstMissing(h, am)
         IN  /\ (k = 0) <=> (am \/ \A d \in DetMask : d \in h.dets)
             /\ k = 0 => MadeBefore(h, k) = {[det |-> d, full |-> d \in h.dets] : d \in DetMask}
<1> DEFINE bad == {i \in DOMAIN DetOrder :
                     DetOrder[i] \in DetMask /\ DetOrder[i] \notin h.dets /\ ~am}
           k == FirstMissing(h, am)
<1>1. DOMAIN DetOrder = 1..Len(DetOrder)
  BY CTFHeaderFixAssumption
<1>2. bad = {} <=> (am \/ \A d \in DetMask : d \in h.dets)
  BY <1>1 DEF Called
<1>3. bad # {} => k # 0
  <2>. SUFFICES ASSUME bad # {} PROVE k # 0
    OBVIOUS
  <2>1. bad \in SUBSET Nat
    BY <1>1
  <2>2. \E i \in bad : \A j \in bad : i <= j
    BY <2>1, MinExists
  <2>3. k \in bad
    BY <2>2 DEF FirstMissing
  <2>. QED
    BY <2>3, <1>1
<1>4. bad = {} => k = 0
  BY DEF FirstMissing
<1>5. MadeBefore(h, 0) = {[det |-> d, full |-> d \in h.dets] : d \in DetMask}
  BY DEF MadeBefore, Called
<1>. QED
  BY <1>2, <1>3, <1>4, <1>5
\* The outputs processDetector makes are labelled records.
LEMMA MadeBeforeType ==
  ASSUME NEW h \in HeaderT, NEW k \in Nat
  PROVE  MadeBefore(h, k) \in SUBSET [det : STRING, full : BOOLEAN]
<1> SUFFICES ASSUME NEW x \in MadeBefore(h, k) PROVE x \in [det : STRING, full : BOOLEAN]
  OBVIOUS
<1>1. PICK i \in DOMAIN DetOrder : x = [det |-> DetOrder[i], full |-> DetOrder[i] \in h.dets]
  BY DEF MadeBefore
<1>2. DetOrder[i] \in STRING
  BY CTFHeaderFixAssumption
<1>. QED
  BY <1>1, <1>2

\* The index of the first missing detector is a natural number.
LEMMA FirstMissingType ==
  ASSUME NEW h \in HeaderT, NEW am \in BOOLEAN
  PROVE  FirstMissing(h, am) \in Nat
<1> DEFINE bad == {i \in DOMAIN DetOrder :
                     DetOrder[i] \in DetMask /\ DetOrder[i] \notin h.dets /\ ~am}
<1>1. bad \in SUBSET Nat
  BY CTFHeaderFixAssumption
<1>2. CASE bad = {}
  BY <1>2 DEF FirstMissing
<1>3. CASE bad # {}
  <2>1. \E i \in bad : \A j \in bad : i <= j
    BY <1>1, <1>3, MinExists
  <2>. QED
    BY <1>1, <2>1 DEF FirstMissing
<1>. QED
  BY <1>2, <1>3

-----------------------------------------------------------------------------
(* The inductive invariant.                                                *)

LEMMA InitIInv == Init => IInv
BY CTFHeaderFixAssumption DEF Init, IInv

\* A processTF step that sends appends one record that satisfies SentOK
\* for its index, and leaves the earlier ones as they were.
LEMMA AcceptedIInv == IInv /\ ProcessTFAccepted => IInv'
<1> SUFFICES ASSUME IInv, ProcessTFAccepted PROVE IInv'
  OBVIOUS
<1> DEFINE src == entries[next]
           h == FixedHeader(src, mImposeRunStartMS, mUseLocalTFCounter, mCTFCounterAcc)
           m == FirstMissing(h, allowMissing)
           rec == [src |-> src, hdr |-> h, outs |-> MadeBefore(h, m), ok |-> m = 0]
<1>1. status = "run" /\ next \in 1..Len(entries)
  BY DEF ProcessTFAccepted, IInv
<1>2. src \in HeaderT
  BY <1>1, CTFHeaderFixAssumption DEF IInv
<1>3. h \in HeaderT
  BY <1>2, FixedHeaderType, CTFHeaderFixAssumption DEF IInv
<1>4. m \in Nat
  BY <1>3, FirstMissingType DEF IInv
<1>5. rec \in SentT
  BY <1>2, <1>3, <1>4, MadeBeforeType DEF SentT, IInv
<1>6. sent' = Append(sent, rec) /\ Len(sent) = mCTFCounterAcc
  BY <1>1 DEF ProcessTFAccepted, IInv
<1>7. sent' \in Seq(SentT) /\ Len(sent') = Len(sent) + 1
  BY <1>5, <1>6 DEF IInv
<1>8. \A k \in 1..Len(sent') : SentOK(k)'
  <2>. TAKE k \in 1..Len(sent')
  <2>1. CASE k <= Len(sent)
    <3>1. sent'[k] = sent[k]
      BY <1>6, <2>1 DEF IInv
    <3>2. UNCHANGED <<mImposeRunStartMS, mUseLocalTFCounter, allowMissing>>
      BY DEF ProcessTFAccepted
    <3>. QED
      BY <2>1, <3>1, <3>2 DEF IInv, SentOK
  <2>2. CASE k = Len(sent) + 1
    <3>1. sent'[k] = rec
      BY <1>6, <2>2 DEF IInv
    <3>2. UNCHANGED <<mImposeRunStartMS, mUseLocalTFCounter, allowMissing>>
      BY DEF ProcessTFAccepted
    <3>. QED
      BY <1>6, <2>2, <3>1, <3>2 DEF SentOK
  <2>. QED
    BY <1>7, <2>1, <2>2
<1>9. CASE m = 0
  <2>1. mCTFCounterAcc' = mCTFCounterAcc + 1 /\ next' = next + 1 /\ status' = "run"
    BY <1>1, <1>9 DEF ProcessTFAccepted
  <2>. QED
    BY <1>1, <1>6, <1>7, <1>8, <2>1 DEF ProcessTFAccepted, IInv
<1>10. CASE m # 0
  <2>1. mCTFCounterAcc' = mCTFCounterAcc /\ next' = next /\ status' = "fatal"
    BY <1>10 DEF ProcessTFAccepted
  <2>. QED
    BY <1>1, <1>6, <1>7, <1>8, <2>1 DEF ProcessTFAccepted, IInv
<1>. QED
  BY <1>9, <1>10

LEMMA NextIInv == IInv /\ [Next]_vars => IInv'
<1> SUFFICES ASSUME IInv, [Next]_vars PROVE IInv'
  OBVIOUS
<1>1. CASE ProcessTFRejected
  BY <1>1 DEF ProcessTFRejected, RejectCounter, IInv, SentOK
<1>2. CASE ProcessTFAccepted
  BY <1>2, AcceptedIInv
<1>3. CASE Finish
  BY <1>3 DEF Finish, IInv, SentOK
<1>4. CASE UNCHANGED vars
  BY <1>4 DEF vars, IInv, SentOK
<1>. QED
  BY <1>1, <1>2, <1>3, <1>4 DEF Next
-----------------------------------------------------------------------------
(* The properties of the hdr_fix run, for every value of the constants.   *)

LEMMA IInvTypeOK == IInv => TypeOK
BY DEF IInv, TypeOK

\* The reader's position, accepted count and status stay in range.
THEOREM TypeCorrect == Spec => []TypeOK
BY InitIInv, NextIInv, IInvTypeOK, PTL DEF Spec

LEMMA IInvNeverFabricated == IInv => NeverFabricated
<1> SUFFICES ASSUME IInv, mImposeRunStartMS = 0, NEW k \in DOMAIN sent
             PROVE  LET h == sent[k].hdr  o == Orig(k)
                    IN  /\ o.ctime # 0 => h.ctime = o.ctime
                        /\ o.ctime = 0 /\ h.run \notin TabRuns => h.ctime = 0
                        /\ o.ctime = 0 /\ h.run \in TabRuns => h.ctime >= Row(h.run).ts0
  BY DEF NeverFabricated
<1>1. k \in 1..Len(sent) /\ sent[k] \in SentT
  BY DEF IInv
<1>2. sent[k].hdr = FixedHeader(sent[k].src, 0, mUseLocalTFCounter, k - 1)
  BY <1>1 DEF IInv, SentOK
<1>3. sent[k].src \in HeaderT /\ mUseLocalTFCounter \in BOOLEAN /\ k - 1 \in Nat
  BY <1>1 DEF IInv, SentT
<1>. QED
  BY <1>2, <1>3, FixedHeaderNeverFabricated DEF Orig

\* A creation time is only ever taken from the source, the imposed run
\* start or the table row of the header's own run
\* (CTFReaderSpec::processTF and tryToFixCTFHeader).
THEOREM HeaderTimesNeverFabricated == Spec => []NeverFabricated
BY InitIInv, NextIInv, IInvNeverFabricated, PTL DEF Spec

LEMMA IInvLocalCounters == IInv => LocalCountersConsecutive
<1> SUFFICES ASSUME IInv, mUseLocalTFCounter, NEW k \in DOMAIN sent
             PROVE  sent[k].hdr.tfc = k - 1
  BY DEF LocalCountersConsecutive
<1>1. k \in 1..Len(sent) /\ sent[k] \in SentT
  BY DEF IInv
<1>2. sent[k].hdr = FixedHeader(sent[k].src, mImposeRunStartMS, TRUE, k - 1)
  BY <1>1 DEF IInv, SentOK
<1>3. sent[k].src \in HeaderT /\ mImposeRunStartMS \in Nat /\ k - 1 \in Nat
  BY <1>1, CTFHeaderFixAssumption DEF IInv, SentT
<1>4. FixedHeader(sent[k].src, mImposeRunStartMS, TRUE, k - 1).tfc = k - 1
  BY <1>3, FixedHeaderType
<1>. QED
  BY <1>2, <1>4

\* With "local-tf-counter" the accepted TFs are numbered 0, 1, 2, ... in
\* the order they are sent, whatever the selection rejected between them
\* (mCTFCounterAcc is counted only after every detector was processed).
THEOREM LocalCountersNumberAccepted == Spec => []LocalCountersConsecutive
BY InitIInv, NextIInv, IInvLocalCounters, PTL DEF Spec

LEMMA IInvDetectorOutputs ==
  ASSUME DetMask \subseteq Called
  PROVE  IInv => DetectorOutputsExact
<1> SUFFICES ASSUME IInv, NEW k \in DOMAIN sent
             PROVE  LET h == sent[k].hdr
                    IN  /\ sent[k].ok <=> (allowMissing \/ \A d \in DetMask : d \in h.dets)
                        /\ sent[k].ok => sent[k].outs = {[det |-> d, full |-> d \in h.dets] : d \in DetMask}
  BY DEF DetectorOutputsExact
<1>1. k \in 1..Len(sent) /\ sent[k] \in SentT
  BY DEF IInv
<1>2. /\ sent[k].outs = MadeBefore(sent[k].hdr, FirstMissing(sent[k].hdr, allowMissing))
      /\ sent[k].ok = (FirstMissing(sent[k].hdr, allowMissing) = 0)
  BY <1>1 DEF IInv, SentOK
<1>3. sent[k].hdr \in HeaderT /\ allowMissing \in BOOLEAN
  BY <1>1 DEF IInv, SentT
<1>. QED
  BY <1>2, <1>3, FirstMissingVerdict

\* If every detector the mask requests is one processTF calls
\* processDetector for (the DetID list is not in this tree), a TF counts
\* as complete only with an output for every requested detector, filled
\* exactly when its header lists it, and a missing requested detector
\* stops the reader unless missing ones are allowed.
THEOREM DetectorOutputsComplete ==
  ASSUME DetMask \subseteq Called
  PROVE  Spec => []DetectorOutputsExact
BY InitIInv, NextIInv, IInvDetectorOutputs, PTL DEF Spec
=============================================================================
