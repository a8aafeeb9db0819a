------------------------ MODULE CTPDigitReaderProofs -------------------------
(***************************************************************************)
(* Proofs about the plain mode of the CTP digit reader: each run() call    *)
(* sends the entry after the one last read, and the stream ends with the   *)
(* last entry of the tree.                                                  *)
(***************************************************************************)
EXTENDS CTPDigitReader, SequenceTheorems, TLAPS

\* Every tree has an entry: the assert of run() before its first GetEntry
\* (DigitReaderSpec.cxx:89), off in a release build.
TreesNotEmpty == \A t \in Trees : t # <<>>

\* Without IR frames the device is always between calls, the tree cursor is
\* at the entry sent last, and what was sent is the prefix of the tree.
PlainInv ==
  /\ tree \in Seq(Seq(Int)) /\ N > 0
  /\ mUseIRFrames \in BOOLEAN
  /\ ~mUseIRFrames =>
       /\ step = "idle"
       /\ sent \in Seq(Seq(Int))
       /\ readEntry = Len(sent) - 1
       /\ Len(sent) <= N
       /\ \A k \in DOMAIN sent : sent[k] = tree[k]
       /\ eos <=> Len(sent) = N

LEMMA InitPlainInv ==
  ASSUME TreesNotEmpty
  PROVE  Init => PlainInv
<1> SUFFICES ASSUME Init PROVE PlainInv
  OBVIOUS
<1>1. tree \in Seq(Seq(Int)) /\ tree # <<>>
  BY CTPDigitReaderAssumption DEF Init, TreesNotEmpty
<1>2. N > 0
  BY <1>1, EmptySeq DEF N
<1>3. sent \in Seq(Seq(Int)) /\ Len(sent) = 0 /\ DOMAIN sent = {}
  BY EmptySeq DEF Init
<1>4. step = "idle" /\ readEntry = Len(sent) - 1 /\ mUseIRFrames \in BOOLEAN
  BY <1>3 DEF Init
<1>5. (eos <=> Len(sent) = N) /\ Len(sent) <= N
  BY <1>2, <1>3 DEF Init, N
<1>. QED
  BY <1>1, <1>2, <1>3, <1>4, <1>5 DEF PlainInv

\* A plain run() reads the entry after the cursor, which exists while the
\* stream has not ended, sends it, and ends the stream after the last one.
LEMMA RunPlainInv == PlainInv /\ RunPlain => PlainInv'
<1> SUFFICES ASSUME PlainInv, RunPlain PROVE PlainInv'
  OBVIOUS
<1> DEFINE L == Len(sent)
<1>1. ~mUseIRFrames /\ ~eos /\ step = "idle"
  BY DEF RunPlain, CanRun
<1>2. sent \in Seq(Seq(Int)) /\ readEntry = L - 1 /\ L < N
      /\ \A k \in DOMAIN sent : sent[k] = tree[k]
  BY <1>1 DEF PlainInv, N
<1>3. readEntry + 1 < N /\ readEntry' = L /\ mDigits' = tree[L + 1]
  BY <1>2 DEF RunPlain, GetEntry
<1>4. tree[L + 1] \in Seq(Int)
  BY <1>2 DEF PlainInv, N
<1>5. sent' = Append(sent, tree[L + 1]) /\ eos' = (L + 1 >= N)
  BY <1>3 DEF RunPlain, PlainDone
<1>6. UNCHANGED <<tree, mUseIRFrames, step>>
  BY DEF RunPlain
<1>7. sent' \in Seq(Seq(Int)) /\ Len(sent') = L + 1
      /\ \A k \in DOMAIN sent' : sent'[k] = tree[k]
  BY <1>2, <1>4, <1>5 DEF PlainInv
<1>8. N' = N /\ N \in Nat
  BY <1>6 DEF PlainInv, N
<1>9. readEntry' = Len(sent') - 1 /\ Len(sent') <= N' /\ (eos' <=> Len(sent') = N')
  <2>1. L \in Nat /\ readEntry' = Len(sent') - 1 /\ Len(sent') <= N'
    BY <1>2, <1>3, <1>7, <1>8
  <2>2. (L + 1 >= N) <=> (Len(sent') = N')
    BY <1>2, <1>7, <1>8, <2>1
  <2>. QED
    BY <1>5, <2>1, <2>2, Zenon
<1>10. tree' \in Seq(Seq(Int)) /\ N' > 0 /\ mUseIRFrames' \in BOOLEAN /\ ~mUseIRFrames'
       /\ step' = "idle"
  BY <1>1, <1>6, <1>8 DEF PlainInv
<1>11. (/\ step = "idle"
        /\ sent \in Seq(Seq(Int))
        /\ readEntry = Len(sent) - 1
        /\ Len(sent) <= N
        /\ \A k \in DOMAIN sent : sent[k] = tree[k]
        /\ eos <=> Len(sent) = N)'
  BY <1>6, <1>7, <1>9, <1>10
<1>. QED
  BY <1>10, <1>11 DEF PlainInv

LEMMA NextPlainInv == PlainInv /\ [Next]_vars => PlainInv'
<1> SUFFICES ASSUME PlainInv, [Next]_vars PROVE PlainInv'
  OBVIOUS
<1>1. CASE RunPlain
  BY <1>1, RunPlainInv
<1>2. CASE RunIREmpty \/ RunIRStart
  BY <1>2 DEF RunIREmpty, RunIRStart, CanRun, PlainInv, N
<1>3. CASE LoopEntry \/ LoopEmptyEntry \/ LoopEnd \/ PushSelection
  <2>1. mUseIRFrames /\ UNCHANGED <<tree, mUseIRFrames>>
    BY <1>3 DEF LoopEntry, LoopEmptyEntry, LoopEnd, PushSelection, LoopUnchanged, PlainInv
  <2>. QED
    BY <2>1 DEF PlainInv, N
<1>4. CASE UNCHANGED vars
  BY <1>4 DEF vars, PlainInv, N
<1>. QED
  BY <1>1, <1>2, <1>3, <1>4 DEF Next

\* Provided every tree has an entry (the assert of run()), the plain mode
\* sends the entries of the tree one per call, in order, and ends the
\* stream exactly with the last one (EntriesInOrder, checked by ctp_read).
THEOREM PlainEntriesInOrder ==
  ASSUME TreesNotEmpty
  PROVE  Spec => []EntriesInOrder
<1>1. PlainInv => EntriesInOrder
  BY DEF PlainInv, EntriesInOrder
<1>. QED
  BY <1>1, InitPlainInv, NextPlainInv, PTL DEF Spec
=============================================================================
