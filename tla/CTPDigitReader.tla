---------------------------- MODULE CTPDigitReader ----------------------------
(***************************************************************************)
(* The CTP digit reader (src/Detectors/CTP/workflowIO/src/                  *)
(* DigitReaderSpec.cxx): a source device whose run() is called once per    *)
(* TF.  Without IR frames it sends the next entry of the digit tree; with   *)
(* IR frames (from the "driverInfo" input) it walks the tree from the       *)
(* entry last read and sends the digits inside the TF's frames.  The tree   *)
(* cursor (GetReadEntry) and the loaded entry (mDigits) carry over from one *)
(* call to the next.                                                        *)
(*                                                                         *)
(* A digit is its interaction record, an integer; an entry is the sequence  *)
(* of its digits in increasing order, the tree a sequence of entries.  The  *)
(* build is a release one (assert is off).  One iteration of the while     *)
(* loop is one step; nothing else runs inside the device meanwhile.         *)
(***************************************************************************)
EXTENDS Integers, Sequences

CONSTANTS
  Trees,     \* the digit trees the reader may be given
  Drivers    \* the sequences of frame lists driverInfo delivers, one per run()

\* A tree is a sequence of entries, an entry a sequence of interaction records.
ASSUME CTPDigitReaderAssumption == Trees \subseteq Seq(Seq(Int))

\* An IR frame of driverInfo: closed [min, max], isLast marks the end.
Frame(a, b, l) == [min |-> a, max |-> b, last |-> l]

VARIABLES
  tree,          \* the entries of mTree
  driver,        \* the frame lists of the calls to come
  mUseIRFrames,  \* init(): "ignore-irframes" is false
  readEntry,     \* mTree->GetReadEntry(): -1 before the first GetEntry
  mDigits,       \* the digits of the last entry read
  allocated,     \* mDigits has held digits: its buffer exists (clear keeps it)
  calls,         \* run() calls so far
  step,          \* "idle", "loop" (inside the while loop), "push", "crashed"
  ent, irMin, irMax, digitSel,  \* locals of the IR-frames branch of run()
  sent,          \* the CTP/DIGITS output of each call
  eos            \* endOfStream() and readyToQuit() called

vars == <<tree, driver, mUseIRFrames, readEntry, mDigits, allocated, calls, step, ent,
          irMin, irMax, digitSel, sent, eos>>

N == Len(tree)

TypeOK ==
  /\ readEntry \in -1..(N - 1)
  /\ step \in {"idle", "loop", "push", "crashed"}
  /\ ent \in -1..N
  /\ sent \in Seq(Seq(Int))
  /\ eos \in BOOLEAN

Init ==
  /\ tree \in Trees
  /\ driver \in Drivers
  /\ mUseIRFrames \in BOOLEAN
  /\ readEntry = -1
  /\ mDigits = <<>>
  /\ allocated = FALSE
  /\ calls = 0
  /\ step = "idle"
  /\ ent = -1 /\ irMin = 0 /\ irMax = 0 /\ digitSel = <<>>
  /\ sent = <<>>
  /\ eos = FALSE

\* The framework calls run() until the device quits; with IR frames, only
\* while driverInfo still delivers.
CanRun ==
  /\ step = "idle" /\ ~eos
  /\ mUseIRFrames => calls < Len(driver)

\* mTree->GetEntry(e): reads entry e when it exists.
GetEntry(e) ==
  IF e < N THEN /\ readEntry' = e /\ mDigits' = tree[e + 1]
                /\ allocated' = (allocated \/ tree[e + 1] # <<>>)
  ELSE UNCHANGED <<readEntry, mDigits, allocated>>

\* Mutant: the end of the tree is seen one call late.
PlainDoneLate(r) == r + 1 > N

\* The entry read was the last of the tree.
PlainDone(r) == r + 1 >= N

\* Without IR frames: read the next entry, send it, quit after the last.
RunPlain ==
  /\ CanRun /\ ~mUseIRFrames
  /\ GetEntry(readEntry + 1)
  /\ sent' = Append(sent, mDigits')
  /\ eos' = PlainDone(readEntry')
  /\ calls' = calls + 1
  /\ UNCHANGED <<tree, driver, mUseIRFrames, step, ent, irMin, irMax, digitSel>>

\* Mutant: the walk starts after the entry last read.
StartEntryNext(r) == r + 1

\* The walk starts at the entry last read (0 before any).
StartEntry(r) == IF r < 0 THEN r + 1 ELSE r

\* With IR frames, an empty list: send nothing and quit.
RunIREmpty ==
  /\ CanRun /\ mUseIRFrames
  /\ driver[calls + 1] = <<>>
  /\ sent' = Append(sent, <<>>)
  /\ eos' = TRUE
  /\ calls' = calls + 1
  /\ UNCHANGED <<tree, driver, mUseIRFrames, readEntry, mDigits, allocated,
                 step, ent, irMin, irMax, digitSel>>

\* With IR frames: the span from the first frame's min to the last's max.
RunIRStart ==
  /\ CanRun /\ mUseIRFrames
  /\ LET fr == driver[calls + 1]
     IN  /\ fr # <<>>
         /\ ent' = StartEntry(readEntry)
         /\ irMin' = fr[1].min
         /\ irMax' = fr[Len(fr)].max
  /\ digitSel' = <<>>
  /\ step' = "loop"
  /\ UNCHANGED <<tree, driver, mUseIRFrames, readEntry, mDigits, allocated,
                 calls, sent, eos>>

\* Mutant: an overlapping entry is taken whole.
InSpanWhole(d) == d

\* The digits of an entry inside [irMin, irMax], in order.
InSpan(d) == SelectSeq(d, LAMBDA x : irMin <= x /\ x <= irMax)

LoopUnchanged == UNCHANGED <<tree, driver, mUseIRFrames, calls, irMin, irMax, sent, eos>>

\* One iteration over an entry with digits: read it if beyond the last
\* read, collect its digits in the span if front/back overlap it, go on to
\* the next entry while its last digit is before irMax, else stop.
LoopEntry ==
  /\ step = "loop" /\ ent < N
  /\ LET d == tree[ent + 1]
     IN  /\ d # <<>>
         /\ IF ent > readEntry THEN GetEntry(ent)
            ELSE UNCHANGED <<readEntry, mDigits, allocated>>
         /\ digitSel' = IF d[1] <= irMax /\ d[Len(d)] >= irMin
                          THEN digitSel \o InSpan(d) ELSE digitSel
         /\ IF d[Len(d)] < irMax THEN ent' = ent + 1 /\ step' = "loop"
            ELSE UNCHANGED ent /\ step' = "push"
  /\ LoopUnchanged

\* An entry without digits: front() and back() read no element.  Before
\* mDigits ever held digits its data pointer is null and the read crashes;
\* later they read what the kept buffer holds, so either comparison may
\* hold (or the read faults).  The for loop adds nothing.
LoopEmptyEntry ==
  /\ step = "loop" /\ ent < N
  /\ tree[ent + 1] = <<>>
  /\ IF ent > readEntry THEN GetEntry(ent)
     ELSE UNCHANGED <<readEntry, mDigits, allocated>>
  /\ \/ allocated /\ ent' = ent + 1 /\ step' = "loop"
     \/ allocated /\ UNCHANGED ent /\ step' = "push"
     \/ UNCHANGED ent /\ step' = "crashed"
  /\ UNCHANGED digitSel
  /\ LoopUnchanged

\* The loop runs out of entries.
LoopEnd ==
  /\ step = "loop" /\ ent >= N
  /\ step' = "push"
  /\ UNCHANGED <<readEntry, mDigits, allocated, ent, digitSel>>
  /\ LoopUnchanged

\* After the loop: send the selection, quit if the last frame is marked.
PushSelection ==
  /\ step = "push"
  /\ sent' = Append(sent, digitSel)
  /\ eos' = driver[calls + 1][Len(driver[calls + 1])].last
  /\ calls' = calls + 1
  /\ step' = "idle"
  /\ UNCHANGED <<tree, driver, mUseIRFrames, readEntry, mDigits, allocated,
                 ent, irMin, irMax, digitSel>>

Next ==
  \/ RunPlain \/ RunIREmpty \/ RunIRStart
  \/ LoopEntry \/ LoopEmptyEntry \/ LoopEnd \/ PushSelection

Spec == Init /\ [][Next]_vars
-----------------------------------------------------------------------------
(* Properties.                                                             *)

AllDigits == UNION {{tree[e][i] : i \in DOMAIN tree[e]} : e \in DOMAIN tree}

\* The span of the k-th call's frames.
SpanOf(k) == [min |-> driver[k][1].min, max |-> driver[k][Len(driver[k])].max]

\* With frames in increasing order, the k-th call sends only the tree's
\* digits inside its span, each once and in order; when every entry has
\* digits it sends all of them, even when one entry straddles two spans
\* (the cursor kept across calls, the re-read entry).  An entry without
\* digits may cut a call short (front()/back() read no element) but never
\* lets a digit outside the span through.
SelectedDigitsExact ==
  mUseIRFrames =>
    \A k \in DOMAIN sent :
      LET want == {x \in AllDigits : driver[k] # <<>> /\
                     SpanOf(k).min <= x /\ x <= SpanOf(k).max}
          got  == {sent[k][i] : i \in DOMAIN sent[k]}
      IN  /\ got \subseteq want
          /\ (\A e \in DOMAIN tree : tree[e] # <<>>) => want \subseteq got
          /\ \A i, j \in DOMAIN sent[k] : i < j => sent[k][i] < sent[k][j]

\* Without frames the calls send the entries of the tree one by one, in
\* order, and the stream ends with the last one.
EntriesInOrder ==
  ~mUseIRFrames =>
    /\ Len(sent) <= N
    /\ \A k \in DOMAIN sent : sent[k] = tree[k]
    /\ eos <=> Len(sent) = N
=============================================================================
