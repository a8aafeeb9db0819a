-------------------------- MODULE CTFReaderProofs --------------------------
(* Proofs about CTFReader for every value of its constants.                *)
EXTENDS CTFReader, TLAPS

\* The inductive invariant: the type of every variable together with
\* OpenFileIsHead, which is needed because checkTreeEntries pops the queue
\* (Tail of a sequence has a type only when the sequence is non-empty).
IInv == TypeOK /\ OpenFileIsHead

LEMMA InitIInv == Init => IInv
<1> SUFFICES ASSUME Init PROVE IInv
  OBVIOUS
<1>1. queue \in Seq(Nat \ {0}) /\ emitted \in Seq(TFRecord)
  BY DEF Init
<1>2. TypeOK
  BY <1>1 DEF Init, TypeOK, RPC
<1> QED BY <1>2 DEF Init, IInv, OpenFileIsHead

\* Both branches of checkTreeEntries keep the type and the head of the queue.
LEMMA CheckTreeEntriesIInv ==
  ASSUME IInv, mCTFTree, CheckTreeEntries
  PROVE  /\ queue' \in Seq(Nat \ {0})
         /\ mCurrTreeEntry' \in Nat
         /\ mCTFTree' \in BOOLEAN
         /\ mCTFTree' => queue' = queue
<1>1. queue \in Seq(Nat \ {0}) /\ queue # <<>> /\ mCurrTreeEntry \in Nat
  BY DEF IInv, TypeOK, OpenFileIsHead
<1>2. CASE mCurrTreeEntry + 1 >= Entries(mCurItem) \/ mCurrTreeEntry + 1 >= MaxTFsPerFile
  <2>1. Tail(queue) \in Seq(Nat \ {0})
    BY <1>1
  <2>2. mCTFTree' = FALSE /\ queue' = Tail(queue)
    BY <1>2 DEF CheckTreeEntries
  <2>3. mCurrTreeEntry' \in Nat
    BY <1>1 DEF CheckTreeEntries
  <2> QED BY <2>1, <2>2, <2>3
<1>3. CASE ~(mCurrTreeEntry + 1 >= Entries(mCurItem) \/ mCurrTreeEntry + 1 >= MaxTFsPerFile)
  BY <1>1, <1>3 DEF CheckTreeEntries, IInv, TypeOK
<1> QED BY <1>2, <1>3

LEMMA NextIInv == IInv /\ [Next]_vars => IInv'
<1> SUFFICES ASSUME IInv, [Next]_vars PROVE IInv'
  OBVIOUS
<1> USE ConstantsAssumption
<1>1. CASE FetcherFetch
  <2>1. queue \in Seq(Nat \ {0}) /\ nProc \in Nat /\ nFailures \in Nat
    BY DEF IInv, TypeOK
  <2>2. CASE queue' = Append(queue, nProc + 1) /\ UNCHANGED <<nFailures, fatal>>
    <3>1. queue' \in Seq(Nat \ {0})
      BY <2>1, <2>2
    <3>2. queue # <<>> => queue' # <<>> /\ Head(queue') = Head(queue)
      BY <2>1, <2>2
    <3>3. UNCHANGED <<mCTFTree, mCurItem>>
      BY <1>1 DEF FetcherFetch, readerVars
    <3>4. OpenFileIsHead'
      BY <3>2, <3>3 DEF IInv, OpenFileIsHead
    <3>5. TypeOK'
      BY <1>1, <2>1, <2>2, <3>1 DEF FetcherFetch, IInv, TypeOK, readerVars
    <3> QED BY <3>4, <3>5 DEF IInv
  <2>3. CASE /\ nFailures' = nFailures + 1
             /\ fatal' = (FailThreshold > 0 /\ nFailures + 1 > FailThreshold)
             /\ UNCHANGED queue
    BY <1>1, <2>1, <2>3 DEF FetcherFetch, IInv, TypeOK, OpenFileIsHead, readerVars
  <2> QED BY <1>1, <2>2, <2>3 DEF FetcherFetch
<1>2. CASE FetcherFinish
  BY <1>2 DEF FetcherFinish, IInv, TypeOK, OpenFileIsHead, readerVars
<1>3. CASE ReaderAcceptTF
  <2>1. /\ queue' \in Seq(Nat \ {0}) /\ mCurrTreeEntry' \in Nat /\ mCTFTree' \in BOOLEAN
        /\ mCTFTree' => queue' = queue
    BY <1>3, CheckTreeEntriesIInv DEF ReaderAcceptTF
  <2>2. emitted' \in Seq(TFRecord)
    <3>1. mCurItem \in Nat \ {0}
      BY <1>3 DEF ReaderAcceptTF, IInv, TypeOK, OpenFileIsHead
    <3>2. [item |-> mCurItem, entry |-> mCurrTreeEntry, id |-> mCTFCounter] \in TFRecord
      BY <3>1 DEF IInv, TypeOK, TFRecord
    <3> QED BY <1>3, <3>2 DEF ReaderAcceptTF, IInv, TypeOK
  <2> QED BY <1>3, <2>1, <2>2 DEF ReaderAcceptTF, IInv, TypeOK, OpenFileIsHead, RPC
<1>4. CASE ReaderRejectTF
  <2>1. /\ queue' \in Seq(Nat \ {0}) /\ mCurrTreeEntry' \in Nat /\ mCTFTree' \in BOOLEAN
        /\ mCTFTree' => queue' = queue
    BY <1>4, CheckTreeEntriesIInv DEF ReaderRejectTF
  <2> QED BY <1>4, <2>1 DEF ReaderRejectTF, IInv, TypeOK, OpenFileIsHead
<1>5. CASE ReaderSkipTF
  <2>1. /\ queue' \in Seq(Nat \ {0}) /\ mCurrTreeEntry' \in Nat /\ mCTFTree' \in BOOLEAN
        /\ mCTFTree' => queue' = queue
    BY <1>5, CheckTreeEntriesIInv DEF ReaderSkipTF
  <2> QED BY <1>5, <2>1 DEF ReaderSkipTF, IInv, TypeOK, OpenFileIsHead
<1>6. CASE ReaderOpenFile
  <2>1. queue \in Seq(Nat \ {0}) /\ queue # <<>>
    BY <1>6 DEF ReaderOpenFile, IInv, TypeOK
  <2>2. Tail(queue) \in Seq(Nat \ {0}) /\ Head(queue) \in Nat \ {0}
    BY <2>1
  <2>3. CASE Entries(Head(queue)) = 0
    <3>1. /\ mNFailedFiles' = mNFailedFiles + 1 /\ queue' = Tail(queue)
          /\ mCTFTree' = mCTFTree /\ mCurItem' = mCurItem
      BY <1>6, <2>3 DEF ReaderOpenFile
    <3>2. ~mCTFTree
      BY <1>6 DEF ReaderOpenFile
    <3>3. OpenFileIsHead'
      BY <3>1, <3>2 DEF OpenFileIsHead
    <3>4. TypeOK'
      BY <1>6, <2>2, <3>1 DEF ReaderOpenFile, IInv, TypeOK
    <3> QED BY <3>3, <3>4 DEF IInv
  <2>4. CASE Entries(Head(queue)) # 0
    BY <1>6, <2>2, <2>4 DEF ReaderOpenFile, IInv, TypeOK, OpenFileIsHead
  <2> QED BY <2>3, <2>4
<1>7. CASE ReaderPeekEmpty
  BY <1>7 DEF ReaderPeekEmpty, IInv, TypeOK, OpenFileIsHead, fetcherVars, RPC
<1>0. Stop => IInv'
  BY DEF Stop, IInv, TypeOK, OpenFileIsHead, RPC
<1>8. CASE ReaderCheckRunning
  <2>1. CASE fRunning
    BY <1>8, <2>1 DEF ReaderCheckRunning, IInv, TypeOK, OpenFileIsHead, fetcherVars, RPC
  <2>2. CASE ~fRunning
    BY <1>0, <1>8, <2>2 DEF ReaderCheckRunning
  <2> QED BY <2>1, <2>2
<1>9. CASE ReaderFinal
  <2>1. CASE LimitReached
    BY <1>0, <1>9, <2>1 DEF ReaderFinal
  <2>2. CASE ~LimitReached
    BY <1>9, <2>2 DEF ReaderFinal, IInv, TypeOK, OpenFileIsHead, fetcherVars, RPC
  <2> QED BY <2>1, <2>2
<1>10. CASE Terminated
  BY <1>10 DEF Terminated, vars, fetcherVars, readerVars, IInv, TypeOK, OpenFileIsHead
<1>11. CASE UNCHANGED vars
  BY <1>11 DEF vars, fetcherVars, readerVars, IInv, TypeOK, OpenFileIsHead
<1>12. Next \/ UNCHANGED vars
  OBVIOUS
<1> QED BY <1>12, <1>1, <1>2, <1>3, <1>4, <1>5, <1>6, <1>7, <1>8, <1>9, <1>10, <1>11
        DEF Next, Fetcher, Reader

\* Every variable keeps its type in every reachable state.
THEOREM TypeCorrect == Spec => []TypeOK
<1>1. Spec => []IInv
  BY InitIInv, NextIInv, PTL DEF Spec
<1> QED BY <1>1, PTL DEF IInv

\* While the reader works on a file, that file is still the head of the
\* fetcher's queue: openCTFFile never pops it, checkTreeEntries pops it only
\* when it closes the tree, and the fetcher only appends.
THEOREM OpenFileStaysQueued == Spec => []OpenFileIsHead
<1>1. Spec => []IInv
  BY InitIInv, NextIInv, PTL DEF Spec
<1> QED BY <1>1, PTL DEF IInv

-----------------------------------------------------------------------------
(* The max-tf limit.  AcceptedWithinLimit alone is not inductive: a step    *)
(* accepts a TF from "loop" only, and the reader is back at "loop" only     *)
(* after ReaderFinal found the raw counter below max-tf; since every        *)
(* accepted TF was also counted, the accepted count is then below max-tf.   *)
LimitInv ==
  /\ mCTFCounterAcc \in Nat /\ mCTFCounter \in Nat
  /\ mCTFCounterAcc <= mCTFCounter
  /\ mCTFCounterAcc <= MaxTFs
  /\ rpc \in {"loop", "peeked"} => mCTFCounterAcc < MaxTFs

LEMMA InitLimitInv == Init => LimitInv
BY ConstantsAssumption DEF Init, LimitInv

LEMMA NextLimitInv == LimitInv /\ [Next]_vars => LimitInv'
<1> SUFFICES ASSUME LimitInv, [Next]_vars PROVE LimitInv'
  OBVIOUS
<1> USE ConstantsAssumption
<1>0. Stop => LimitInv'
  BY DEF Stop, LimitInv
<1>1. CASE Fetcher
  BY <1>1 DEF Fetcher, FetcherFetch, FetcherFinish, readerVars, LimitInv
<1>2. CASE ReaderAcceptTF
  BY <1>2 DEF ReaderAcceptTF, LimitInv
<1>3. CASE ReaderRejectTF \/ ReaderSkipTF
  BY <1>3 DEF ReaderRejectTF, ReaderSkipTF, LimitInv
<1>4. CASE ReaderOpenFile \/ ReaderPeekEmpty
  BY <1>4 DEF ReaderOpenFile, ReaderPeekEmpty, LimitInv
<1>5. CASE ReaderCheckRunning
  <2>1. CASE fRunning
    BY <1>5, <2>1 DEF ReaderCheckRunning, LimitInv
  <2>2. CASE ~fRunning
    BY <1>0, <1>5, <2>2 DEF ReaderCheckRunning
  <2> QED BY <2>1, <2>2
<1>6. CASE ReaderFinal
  <2>1. CASE LimitReached
    BY <1>0, <1>6, <2>1 DEF ReaderFinal
  <2>2. CASE ~LimitReached
    BY <1>6, <2>2 DEF ReaderFinal, LimitReached, LimitInv
  <2> QED BY <2>1, <2>2
<1>7. CASE Terminated \/ UNCHANGED vars
  BY <1>7 DEF Terminated, vars, readerVars, LimitInv
<1> QED BY <1>1, <1>2, <1>3, <1>4, <1>5, <1>6, <1>7 DEF Next, Reader

\* The reader never accepts more than max-tf TFs, whatever the selection:
\* the limit test after each accepted TF compares the raw counter, which is
\* never below the accepted one.
THEOREM AcceptedBounded == Spec => []AcceptedWithinLimit
<1>1. Spec => []LimitInv
  BY InitLimitInv, NextLimitInv, PTL DEF Spec
<1> QED BY <1>1, PTL DEF LimitInv, AcceptedWithinLimit

-----------------------------------------------------------------------------
(* Exactly-once, in-order emission.  EmittedEntriesValid is strengthened by *)
(* what the queue and the cursor guarantee about the TFs still to come:     *)
(* queue items are increasing fetch ordinals not above nProc; the open      *)
(* tree's cursor is inside the tree and the per-file budget; and the last   *)
(* TF sent precedes the cursor (tree open) or every queued item (closed).   *)
Before(a, b) ==
  \/ a.item < b.item
  \/ a.item = b.item /\ a.entry < b.entry

QueueOrdered ==
  /\ \A i \in 1..Len(queue) : queue[i] <= nProc
  /\ \A i, j \in 1..Len(queue) : i < j => queue[i] < queue[j]

CursorInTree ==
  mCTFTree => /\ mCurrTreeEntry < Entries(mCurItem)
              /\ mCurrTreeEntry < MaxTFsPerFile

LastBeforeRest ==
  /\ \A i \in DOMAIN emitted : emitted[i].item <= nProc
  /\ emitted # <<>> /\ mCTFTree =>
       Before(emitted[Len(emitted)], [item |-> mCurItem, entry |-> mCurrTreeEntry])
  /\ emitted # <<>> /\ ~mCTFTree /\ rpc # "stopped" =>
       \A i \in 1..Len(queue) : emitted[Len(emitted)].item < queue[i]

EmitInv ==
  /\ IInv
  /\ QueueOrdered
  /\ CursorInTree
  /\ LastBeforeRest
  /\ EmittedEntriesValid

\* Every fetched item names a tree whose entry count is a natural number.
LEMMA EntriesNat ==
  ASSUME NEW n \in Nat \ {0}
  PROVE  Entries(n) \in Nat
<1>1. FileOf(n) \in 1..Len(FileEntries)
  BY ConstantsAssumption DEF FileOf, NFiles
<1> QED BY <1>1, ConstantsAssumption DEF Entries

\* Removing the head of an increasing sequence of items bounded by nProc
\* leaves an increasing sequence of items above the old head.
LEMMA TailOrdered ==
  ASSUME NEW q \in Seq(Nat \ {0}), q # <<>>, NEW bound \in Nat,
         \A i \in 1..Len(q) : q[i] <= bound,
         \A i, j \in 1..Len(q) : i < j => q[i] < q[j]
  PROVE  /\ Tail(q) \in Seq(Nat \ {0})
         /\ \A i \in 1..Len(Tail(q)) : Head(q) < Tail(q)[i] /\ Tail(q)[i] <= bound
         /\ \A i, j \in 1..Len(Tail(q)) : i < j => Tail(q)[i] < Tail(q)[j]
<1>1. Len(Tail(q)) = Len(q) - 1 /\ \A i \in 1..Len(Tail(q)) : Tail(q)[i] = q[i + 1]
  OBVIOUS
<1>2. Head(q) = q[1]
  OBVIOUS
<1> QED BY <1>1, <1>2

\* checkTreeEntries on an open tree either closes it and pops the head,
\* leaving only later items, or keeps it open with the cursor still inside.
LEMMA CheckTreeEntriesEmit ==
  ASSUME EmitInv, mCTFTree, CheckTreeEntries
  PROVE  /\ mCurrTreeEntry' = mCurrTreeEntry + 1
         /\ \/ /\ mCTFTree' = FALSE /\ queue' = Tail(queue)
               /\ queue' \in Seq(Nat \ {0})
               /\ \A i \in 1..Len(queue') : mCurItem < queue'[i] /\ queue'[i] <= nProc
               /\ \A i, j \in 1..Len(queue') : i < j => queue'[i] < queue'[j]
            \/ /\ mCTFTree' = TRUE /\ queue' = queue
               /\ mCurrTreeEntry' < Entries(mCurItem)
               /\ mCurrTreeEntry' < MaxTFsPerFile
<1>1. /\ queue \in Seq(Nat \ {0}) /\ queue # <<>> /\ Head(queue) = mCurItem
      /\ nProc \in Nat /\ mCurrTreeEntry \in Nat
  BY DEF EmitInv, IInv, TypeOK, OpenFileIsHead
<1>2. Entries(mCurItem) \in Nat
  BY <1>1, EntriesNat
<1>3. CASE mCurrTreeEntry + 1 >= Entries(mCurItem) \/ mCurrTreeEntry + 1 >= MaxTFsPerFile
  <2>1. mCTFTree' = FALSE /\ queue' = Tail(queue) /\ mCurrTreeEntry' = mCurrTreeEntry + 1
    BY <1>3 DEF CheckTreeEntries
  <2>2. /\ Tail(queue) \in Seq(Nat \ {0})
        /\ \A i \in 1..Len(Tail(queue)) : Head(queue) < Tail(queue)[i] /\ Tail(queue)[i] <= nProc
        /\ \A i, j \in 1..Len(Tail(queue)) : i < j => Tail(queue)[i] < Tail(queue)[j]
    BY <1>1, TailOrdered DEF EmitInv, QueueOrdered
  <2> QED BY <1>1, <2>1, <2>2
<1>4. CASE ~(mCurrTreeEntry + 1 >= Entries(mCurItem) \/ mCurrTreeEntry + 1 >= MaxTFsPerFile)
  BY <1>1, <1>2, <1>4, ConstantsAssumption DEF CheckTreeEntries
<1> QED BY <1>3, <1>4

\* A TF that is not sent (rejected or skipped) leaves the emitted TFs behind
\* the advanced cursor, or behind every item left once the tree is closed.
LEMMA AdvanceEmit ==
  ASSUME EmitInv, mCTFTree, CheckTreeEntries, rpc # "stopped",
         rpc' = rpc, emitted' = emitted, mCurItem' = mCurItem, nProc' = nProc
  PROVE  QueueOrdered' /\ CursorInTree' /\ LastBeforeRest' /\ EmittedEntriesValid'
<1>1. /\ emitted \in Seq(TFRecord) /\ mCurrTreeEntry \in Nat /\ mCurItem \in Nat
      /\ nProc \in Nat
  BY DEF EmitInv, IInv, TypeOK
<1>2. emitted # <<>> =>
        /\ Before(emitted[Len(emitted)], [item |-> mCurItem, entry |-> mCurrTreeEntry])
        /\ emitted[Len(emitted)].item \in Nat /\ emitted[Len(emitted)].entry \in Nat
  <2>1. emitted # <<>> => emitted[Len(emitted)] \in TFRecord
    BY <1>1
  <2>2. emitted # <<>> =>
          Before(emitted[Len(emitted)], [item |-> mCurItem, entry |-> mCurrTreeEntry])
    BY DEF EmitInv, LastBeforeRest
  <2> QED BY <2>1, <2>2 DEF TFRecord
<1>3. EmittedEntriesValid'
  BY DEF EmitInv, EmittedEntriesValid
<1>4. (\A i \in DOMAIN emitted : emitted[i].item <= nProc)'
  BY DEF EmitInv, LastBeforeRest
<1>5. CASE /\ mCTFTree' = FALSE /\ queue' = Tail(queue)
           /\ queue' \in Seq(Nat \ {0})
           /\ \A i \in 1..Len(queue') : mCurItem < queue'[i] /\ queue'[i] <= nProc
           /\ \A i, j \in 1..Len(queue') : i < j => queue'[i] < queue'[j]
  <2>1. QueueOrdered'
    BY <1>5 DEF QueueOrdered
  <2>2. emitted' # <<>> => \A i \in 1..Len(queue') : emitted'[Len(emitted')].item < queue'[i]
    <3>1. emitted # <<>> => emitted[Len(emitted)].item <= mCurItem
      BY <1>1, <1>2 DEF Before
    <3>2. ASSUME emitted # <<>>, NEW i \in 1..Len(queue')
          PROVE  emitted[Len(emitted)].item < queue'[i]
      <4>1. mCurItem < queue'[i] /\ queue'[i] \in Nat
        BY <1>5
      <4>2. emitted[Len(emitted)].item <= mCurItem /\ emitted[Len(emitted)].item \in Nat
        BY <3>1, <1>2, <3>2
      <4>3. mCurItem \in Nat
        BY <1>1
      <4> QED BY <4>1, <4>2, <4>3
    <3> QED BY <3>2
  <2>3. LastBeforeRest'
    BY <1>4, <1>5, <2>2 DEF LastBeforeRest
  <2> QED BY <1>3, <1>5, <2>1, <2>3 DEF CursorInTree
<1>6. CASE /\ mCTFTree' = TRUE /\ queue' = queue
           /\ mCurrTreeEntry' < Entries(mCurItem)
           /\ mCurrTreeEntry' < MaxTFsPerFile
  <2>1. mCurrTreeEntry' = mCurrTreeEntry + 1
    BY CheckTreeEntriesEmit
  <2>2. emitted' # <<>> =>
          Before(emitted'[Len(emitted')], [item |-> mCurItem', entry |-> mCurrTreeEntry'])
    BY <1>1, <1>2, <2>1 DEF Before
  <2>3. QueueOrdered'
    BY <1>6 DEF EmitInv, QueueOrdered
  <2>4. CursorInTree'
    BY <1>6 DEF CursorInTree
  <2>5. LastBeforeRest'
    BY <1>4, <1>6, <2>2 DEF LastBeforeRest
  <2> QED BY <1>3, <2>3, <2>4, <2>5
<1> QED BY <1>5, <1>6, CheckTreeEntriesEmit

\* Steps that change neither the queue, the cursor nor the emitted TFs, and
\* that leave the stopped control point alone or enter it.
LEMMA QuietEmit ==
  ASSUME EmitInv,
         UNCHANGED <<queue, nProc, mCurItem, mCurrTreeEntry, emitted>>,
         \/ mCTFTree' = mCTFTree /\ (rpc' # "stopped" => rpc # "stopped")
         \/ ~mCTFTree' /\ rpc' = "stopped"
  PROVE  QueueOrdered' /\ CursorInTree' /\ LastBeforeRest' /\ EmittedEntriesValid'
BY DEF EmitInv, QueueOrdered, CursorInTree, LastBeforeRest, EmittedEntriesValid

\* A fetch appends the next ordinal, above every queued and emitted item.
LEMMA FetchEmit ==
  ASSUME EmitInv, FetcherFetch
  PROVE  QueueOrdered' /\ CursorInTree' /\ LastBeforeRest' /\ EmittedEntriesValid'
<1>1. /\ queue \in Seq(Nat \ {0}) /\ nProc \in Nat /\ emitted \in Seq(TFRecord)
      /\ nProc' = nProc + 1
      /\ UNCHANGED <<rpc, mCTFTree, mCurItem, mCurrTreeEntry, emitted>>
  BY DEF EmitInv, IInv, TypeOK, FetcherFetch, readerVars
<1>2. CursorInTree' /\ EmittedEntriesValid'
  BY <1>1 DEF EmitInv, CursorInTree, EmittedEntriesValid
<1>0. \A i \in DOMAIN emitted : emitted[i].item \in Nat /\ emitted[i].item <= nProc
  <2> SUFFICES ASSUME NEW i \in DOMAIN emitted
               PROVE  emitted[i].item \in Nat /\ emitted[i].item <= nProc
    OBVIOUS
  <2>1. emitted[i] \in TFRecord
    BY <1>1
  <2>2. emitted[i].item <= nProc
    BY DEF EmitInv, LastBeforeRest
  <2> QED BY <2>1, <2>2 DEF TFRecord
<1>3. (\A i \in DOMAIN emitted : emitted[i].item <= nProc)'
  BY <1>0, <1>1
<1>4. (emitted # <<>> /\ mCTFTree =>
         Before(emitted[Len(emitted)], [item |-> mCurItem, entry |-> mCurrTreeEntry]))'
  BY <1>1 DEF EmitInv, LastBeforeRest
<1>5. CASE queue' = Append(queue, nProc + 1)
  <2>1. QueueOrdered'
    BY <1>1, <1>5 DEF EmitInv, QueueOrdered
  <2>2. ASSUME emitted # <<>>, ~mCTFTree, rpc # "stopped", NEW i \in 1..Len(queue')
        PROVE  emitted[Len(emitted)].item < queue'[i]
    <3>1. emitted[Len(emitted)].item \in Nat /\ emitted[Len(emitted)].item <= nProc
      BY <1>0, <1>1, <2>2
    <3>2. CASE i <= Len(queue)
      <4>1. queue'[i] = queue[i]
        BY <1>1, <1>5, <3>2
      <4> QED BY <2>2, <3>2, <4>1 DEF EmitInv, LastBeforeRest
    <3>3. CASE i = Len(queue) + 1
      BY <1>1, <1>5, <3>1, <3>3
    <3> QED BY <1>1, <1>5, <2>2, <3>2, <3>3
  <2>3. (emitted # <<>> /\ ~mCTFTree /\ rpc # "stopped" =>
           \A i \in 1..Len(queue) : emitted[Len(emitted)].item < queue[i])'
    BY <1>1, <2>2
  <2> QED BY <1>2, <1>3, <1>4, <2>1, <2>3 DEF LastBeforeRest
<1>6. CASE queue' = queue
  <2>1. QueueOrdered'
    BY <1>1, <1>6 DEF EmitInv, QueueOrdered
  <2> QED BY <1>1, <1>2, <1>3, <1>4, <1>6, <2>1 DEF EmitInv, LastBeforeRest
<1> QED BY <1>5, <1>6 DEF FetcherFetch

\* An accepted TF is sent at the cursor, which every TF sent before precedes;
\* checkTreeEntries then moves the cursor past it or closes the tree.
LEMMA AcceptEmit ==
  ASSUME EmitInv, ReaderAcceptTF
  PROVE  QueueOrdered' /\ CursorInTree' /\ LastBeforeRest' /\ EmittedEntriesValid'
<1> DEFINE r == [item |-> mCurItem, entry |-> mCurrTreeEntry, id |-> mCTFCounter]
<1>1. /\ emitted \in Seq(TFRecord) /\ mCurrTreeEntry \in Nat /\ nProc \in Nat
      /\ mCTFCounter \in Nat
      /\ mCTFTree /\ CheckTreeEntries /\ rpc' = "final"
      /\ emitted' = Append(emitted, r)
      /\ UNCHANGED <<nProc, mCurItem>>
  BY DEF EmitInv, IInv, TypeOK, ReaderAcceptTF
<1>2. /\ mCurItem \in Nat \ {0} /\ mCurItem <= nProc
      /\ mCurrTreeEntry < Entries(mCurItem) /\ mCurrTreeEntry < MaxTFsPerFile
  <2>1. queue \in Seq(Nat \ {0}) /\ queue # <<>> /\ Head(queue) = mCurItem
    BY <1>1 DEF EmitInv, IInv, TypeOK, OpenFileIsHead
  <2>2. queue[1] <= nProc
    BY <2>1 DEF EmitInv, QueueOrdered
  <2> QED BY <1>1, <2>1, <2>2 DEF EmitInv, CursorInTree
<1>3. r \in TFRecord
  BY <1>1, <1>2 DEF TFRecord
<1>4. ASSUME NEW i \in DOMAIN emitted PROVE Before(emitted[i], r)
  <2>1. emitted # <<>> /\ Len(emitted) \in DOMAIN emitted
    BY <1>1
  <2>2. Before(emitted[Len(emitted)], r)
    BY <1>1, <2>1 DEF EmitInv, LastBeforeRest, Before
  <2>3. emitted[i] \in TFRecord /\ emitted[Len(emitted)] \in TFRecord
    BY <1>1, <2>1
  <2>4. CASE i = Len(emitted)
    BY <2>2, <2>4
  <2>5. CASE i # Len(emitted)
    <3>1. i < Len(emitted)
      BY <1>1, <2>5
    <3>2. Before(emitted[i], emitted[Len(emitted)])
      BY <2>1, <3>1 DEF EmitInv, EmittedEntriesValid, Before
    <3> QED BY <2>2, <2>3, <3>2, <1>3 DEF Before, TFRecord
  <2> QED BY <2>4, <2>5
<1>5. EmittedEntriesValid'
  <2>1. Len(emitted') = Len(emitted) + 1 /\ emitted'[Len(emitted) + 1] = r
        /\ \A i \in DOMAIN emitted : emitted'[i] = emitted[i]
    BY <1>1
  <2>2. ASSUME NEW i \in DOMAIN emitted'
        PROVE  emitted'[i].entry < Entries(emitted'[i].item) /\ emitted'[i].entry < MaxTFsPerFile
    BY <1>1, <1>2, <2>1 DEF EmitInv, EmittedEntriesValid
  <2>3. ASSUME NEW i \in DOMAIN emitted', NEW j \in DOMAIN emitted', i < j
        PROVE  Before(emitted'[i], emitted'[j])
    <3>1. CASE j = Len(emitted) + 1
      BY <1>1, <1>4, <2>1, <2>3, <3>1
    <3>2. CASE j # Len(emitted) + 1
      BY <1>1, <2>1, <2>3, <3>2 DEF EmitInv, EmittedEntriesValid, Before
    <3> QED BY <3>1, <3>2
  <2> QED BY <2>2, <2>3 DEF EmittedEntriesValid, Before
<1>6. /\ emitted' # <<>> /\ emitted'[Len(emitted')] = r
      /\ (\A i \in DOMAIN emitted : emitted[i].item <= nProc)'
  <2>1. \A i \in DOMAIN emitted : emitted[i].item <= nProc
    BY DEF EmitInv, LastBeforeRest
  <2> QED BY <1>1, <1>2, <2>1
<1>7. CASE /\ mCTFTree' = FALSE /\ queue' = Tail(queue)
           /\ queue' \in Seq(Nat \ {0})
           /\ \A i \in 1..Len(queue') : mCurItem < queue'[i] /\ queue'[i] <= nProc
           /\ \A i, j \in 1..Len(queue') : i < j => queue'[i] < queue'[j]
  <2>1. QueueOrdered' /\ CursorInTree'
    BY <1>1, <1>7 DEF QueueOrdered, CursorInTree
  <2>2. LastBeforeRest'
    BY <1>6, <1>7 DEF LastBeforeRest
  <2> QED BY <1>5, <2>1, <2>2
<1>8. CASE /\ mCTFTree' = TRUE /\ queue' = queue
           /\ mCurrTreeEntry' < Entries(mCurItem)
           /\ mCurrTreeEntry' < MaxTFsPerFile
  <2>1. mCurrTreeEntry' = mCurrTreeEntry + 1
    BY <1>1, CheckTreeEntriesEmit
  <2>2. QueueOrdered' /\ CursorInTree'
    BY <1>1, <1>8 DEF EmitInv, QueueOrdered, CursorInTree
  <2>3. LastBeforeRest'
    BY <1>1, <1>6, <1>8, <2>1 DEF LastBeforeRest, Before
  <2> QED BY <1>5, <2>2, <2>3
<1> QED BY <1>1, <1>7, <1>8, CheckTreeEntriesEmit

\* openCTFFile either pops an unreadable head, or opens the head's tree at
\* entry 0, after the last TF sent since that TF came from an earlier item.
LEMMA OpenEmit ==
  ASSUME EmitInv, ReaderOpenFile
  PROVE  QueueOrdered' /\ CursorInTree' /\ LastBeforeRest' /\ EmittedEntriesValid'
<1>1. /\ queue \in Seq(Nat \ {0}) /\ queue # <<>> /\ nProc \in Nat
      /\ emitted \in Seq(TFRecord) /\ ~mCTFTree /\ rpc = "loop"
      /\ mCurrTreeEntry' = 0
      /\ UNCHANGED <<nProc, rpc, emitted>>
  BY DEF EmitInv, IInv, TypeOK, ReaderOpenFile
<1>2. EmittedEntriesValid' /\ (\A i \in DOMAIN emitted : emitted[i].item <= nProc)'
  BY <1>1 DEF EmitInv, EmittedEntriesValid, LastBeforeRest
<1>3. emitted # <<>> => \A i \in 1..Len(queue) : emitted[Len(emitted)].item < queue[i]
  BY <1>1 DEF EmitInv, LastBeforeRest
<1>4. CASE Entries(Head(queue)) = 0
  <2>1. queue' = Tail(queue) /\ ~mCTFTree'
    BY <1>1, <1>4 DEF ReaderOpenFile
  <2>2. /\ Tail(queue) \in Seq(Nat \ {0})
        /\ \A i \in 1..Len(Tail(queue)) : Tail(queue)[i] <= nProc
        /\ \A i, j \in 1..Len(Tail(queue)) : i < j => Tail(queue)[i] < Tail(queue)[j]
    BY <1>1, TailOrdered DEF EmitInv, QueueOrdered
  <2>3. QueueOrdered' /\ CursorInTree'
    BY <1>1, <2>1, <2>2 DEF QueueOrdered, CursorInTree
  <2>4. emitted # <<>> => \A i \in 1..Len(Tail(queue)) : emitted[Len(emitted)].item < Tail(queue)[i]
    BY <1>1, <1>3
  <2>5. LastBeforeRest'
    BY <1>1, <1>2, <2>1, <2>4 DEF LastBeforeRest
  <2> QED BY <1>2, <2>3, <2>5
<1>5. CASE Entries(Head(queue)) # 0
  <2>1. mCTFTree' /\ mCurItem' = Head(queue) /\ queue' = queue
    BY <1>1, <1>5 DEF ReaderOpenFile
  <2>2. Head(queue) \in Nat \ {0} /\ Head(queue) = queue[1]
    BY <1>1
  <2>3. Entries(Head(queue)) \in Nat
    BY <2>2, EntriesNat
  <2>4. CursorInTree'
    BY <1>1, <1>5, <2>1, <2>3, ConstantsAssumption DEF CursorInTree
  <2>5. QueueOrdered'
    BY <1>1, <2>1 DEF EmitInv, QueueOrdered
  <2>6. emitted # <<>> => Before(emitted[Len(emitted)], [item |-> Head(queue), entry |-> 0])
    BY <1>1, <1>3, <2>2 DEF Before
  <2>7. LastBeforeRest'
    BY <1>1, <1>2, <2>1, <2>6 DEF LastBeforeRest
  <2> QED BY <1>2, <2>4, <2>5, <2>7
<1> QED BY <1>4, <1>5

LEMMA InitEmitInv == Init => EmitInv
BY InitIInv DEF Init, EmitInv, QueueOrdered, CursorInTree, LastBeforeRest,
               EmittedEntriesValid

LEMMA NextEmitInv == EmitInv /\ [Next]_vars => EmitInv'
<1> SUFFICES ASSUME EmitInv, [Next]_vars PROVE EmitInv'
  OBVIOUS
<1>0. IInv'
  BY NextIInv DEF EmitInv
<1> SUFFICES QueueOrdered' /\ CursorInTree' /\ LastBeforeRest' /\ EmittedEntriesValid'
  BY <1>0 DEF EmitInv
<1>1. CASE FetcherFetch
  BY <1>1, FetchEmit
<1>2. CASE FetcherFinish
  BY <1>2, QuietEmit DEF FetcherFinish, readerVars
<1>3. CASE ReaderAcceptTF
  BY <1>3, AcceptEmit
<1>4. CASE ReaderRejectTF
  BY <1>4, AdvanceEmit DEF ReaderRejectTF
<1>5. CASE ReaderSkipTF
  BY <1>5, AdvanceEmit DEF ReaderSkipTF
<1>6. CASE ReaderOpenFile
  BY <1>6, OpenEmit
<1>7. CASE ReaderPeekEmpty
  BY <1>7, QuietEmit DEF ReaderPeekEmpty, fetcherVars
<1>8. Stop => QueueOrdered' /\ CursorInTree' /\ LastBeforeRest' /\ EmittedEntriesValid'
  BY QuietEmit DEF Stop
<1>9. CASE ReaderCheckRunning
  <2>1. CASE fRunning
    BY <1>9, <2>1, QuietEmit DEF ReaderCheckRunning, fetcherVars
  <2>2. CASE ~fRunning
    BY <1>8, <1>9, <2>2 DEF ReaderCheckRunning
  <2> QED BY <2>1, <2>2
<1>10. CASE ReaderFinal
  <2>1. CASE LimitReached
    BY <1>8, <1>10, <2>1 DEF ReaderFinal
  <2>2. CASE ~LimitReached
    BY <1>10, <2>2, QuietEmit DEF ReaderFinal, fetcherVars
  <2> QED BY <2>1, <2>2
<1>11. CASE Terminated \/ UNCHANGED vars
  BY <1>11, QuietEmit DEF Terminated, vars, fetcherVars, readerVars
<1> QED BY <1>1, <1>2, <1>3, <1>4, <1>5, <1>6, <1>7, <1>9, <1>10, <1>11
        DEF Next, Fetcher, Reader

\* Every TF the reader sends is an existing entry of its file's tree within
\* the per-file budget, and the TFs go out in strictly increasing (file
\* fetch, entry) order: no TF is sent twice and none out of order, whatever
\* the interleaving with the fetcher thread, the rejections of the IRFrame
\* selection and the skips of select-ctf-ids.
THEOREM ExactlyOnceInOrder == Spec => []EmittedEntriesValid
<1>1. Spec => []EmitInv
  BY InitEmitInv, NextEmitInv, PTL DEF Spec
<1> QED BY <1>1, PTL DEF EmitInv
-----------------------------------------------------------------------------
(* Refinement of the abstract stream TFStream.  The TF counter only grows,  *)
(* so every TF sent carries an id below it; with EmitInv this makes each    *)
(* accepted TF an Emit step of the stream and each fetch a Fetch step.      *)

IdsBelowCounter == \A i \in DOMAIN emitted : emitted[i].id < mCTFCounter

RefInv == EmitInv /\ IdsBelowCounter

LEMMA InitRefInv == Init => RefInv
BY InitEmitInv DEF Init, RefInv, IdsBelowCounter

\* The TF counter advances with every TF the reader iterates over, and the
\* TF accepted is sent with the counter's value before the advance.
LEMMA NextIdsBelowCounter == RefInv /\ [Next]_vars => IdsBelowCounter'
<1> SUFFICES ASSUME RefInv, [Next]_vars PROVE IdsBelowCounter'
  OBVIOUS
<1>1. emitted \in Seq(TFRecord) /\ mCTFCounter \in Nat
  BY DEF RefInv, EmitInv, IInv, TypeOK
<1>2. CASE ReaderAcceptTF
  <2>1. emitted' = Append(emitted, [item |-> mCurItem, entry |-> mCurrTreeEntry,
                                    id |-> mCTFCounter])
        /\ mCTFCounter' = mCTFCounter + 1
    BY <1>2 DEF ReaderAcceptTF
  <2>2. ASSUME NEW i \in DOMAIN emitted' PROVE emitted'[i].id < mCTFCounter'
    <3>1. CASE i \in DOMAIN emitted
      <4>1. emitted'[i] = emitted[i] /\ emitted[i] \in TFRecord
        BY <1>1, <2>1, <3>1
      <4>2. emitted[i].id < mCTFCounter
        BY <3>1 DEF RefInv, IdsBelowCounter
      <4>. QED
        BY <1>1, <2>1, <4>1, <4>2 DEF TFRecord
    <3>2. CASE i \notin DOMAIN emitted
      BY <1>1, <2>1, <3>2
    <3>. QED
      BY <3>1, <3>2
  <2>. QED
    BY <2>2 DEF IdsBelowCounter
<1>3. CASE ReaderRejectTF \/ ReaderSkipTF
  <2>1. UNCHANGED emitted /\ mCTFCounter' = mCTFCounter + 1
    BY <1>3 DEF ReaderRejectTF, ReaderSkipTF, CheckTreeEntries
  <2>2. ASSUME NEW i \in DOMAIN emitted PROVE emitted[i].id \in Nat /\ emitted[i].id < mCTFCounter
    <3>1. emitted[i] \in TFRecord
      BY <1>1
    <3>2. emitted[i].id < mCTFCounter
      BY DEF RefInv, IdsBelowCounter
    <3>. QED
      BY <3>1, <3>2 DEF TFRecord
  <2>. QED
    BY <1>1, <2>1, <2>2 DEF IdsBelowCounter
<1>4. CASE ~ReaderAcceptTF /\ ~ReaderRejectTF /\ ~ReaderSkipTF
  <2>1. UNCHANGED <<emitted, mCTFCounter>>
    BY <1>4 DEF Next, Fetcher, Reader, FetcherFetch, FetcherFinish, ReaderOpenFile,
                ReaderPeekEmpty, ReaderCheckRunning, ReaderFinal, Stop, Terminated,
                vars, readerVars, fetcherVars
  <2>. QED
    BY <2>1 DEF RefInv, IdsBelowCounter
<1>. QED
  BY <1>2, <1>3, <1>4

LEMMA NextRefInv == RefInv /\ [Next]_vars => RefInv'
BY NextEmitInv, NextIdsBelowCounter DEF RefInv

\* An accepted TF is an Emit step of the stream: it comes from a fetched
\* file, is an entry of its tree within the budget, and follows the TF
\* sent last in (file, entry) order and in TF counter.
LEMMA AcceptRefines == RefInv /\ ReaderAcceptTF => TFS!Emit
<1> SUFFICES ASSUME RefInv, ReaderAcceptTF PROVE TFS!Emit
  OBVIOUS
<1> DEFINE r == [item |-> mCurItem, entry |-> mCurrTreeEntry, id |-> mCTFCounter]
<1>1. /\ emitted \in Seq(TFRecord) /\ mCurrTreeEntry \in Nat /\ nProc \in Nat
      /\ mCTFCounter \in Nat /\ mCTFTree
      /\ emitted' = Append(emitted, r)
      /\ UNCHANGED nProc
  BY DEF RefInv, EmitInv, IInv, TypeOK, ReaderAcceptTF
<1>2. /\ mCurItem \in Nat \ {0} /\ mCurItem <= nProc
      /\ mCurrTreeEntry < Entries(mCurItem) /\ mCurrTreeEntry < MaxTFsPerFile
  <2>1. queue \in Seq(Nat \ {0}) /\ queue # <<>> /\ Head(queue) = mCurItem
    BY <1>1 DEF RefInv, EmitInv, IInv, TypeOK, OpenFileIsHead
  <2>2. queue[1] <= nProc
    BY <2>1 DEF RefInv, EmitInv, QueueOrdered
  <2>. QED
    BY <1>1, <2>1, <2>2 DEF RefInv, EmitInv, CursorInTree
<1>3. emitted' # <<>> /\ emitted'[Len(emitted')] = r /\ emitted' = Append(emitted, r)
  BY <1>1
<1>4. r \in TFS!TF
  BY <1>1, <1>2 DEF TFS!TF
<1>5. emitted # <<>> => TFS!Follows(emitted[Len(emitted)], r)
  <2>1. emitted # <<>> => Before(emitted[Len(emitted)], r)
    BY <1>1 DEF RefInv, EmitInv, LastBeforeRest, Before
  <2>2. emitted # <<>> => emitted[Len(emitted)].id < mCTFCounter
    BY <1>1 DEF RefInv, IdsBelowCounter
  <2>. QED
    BY <2>1, <2>2 DEF Before, TFS!Follows
<1>. QED
  BY <1>1, <1>2, <1>3, <1>4, <1>5 DEF TFS!Emit

\* Every step of the reader or the fetcher is a step of the stream or
\* leaves the fetches and the TFs sent as they are.
LEMMA NextRefines == RefInv /\ [Next]_vars => [TFS!Next]_TFS!absVars
<1> SUFFICES ASSUME RefInv, [Next]_vars PROVE [TFS!Next]_TFS!absVars
  OBVIOUS
<1>1. CASE ReaderAcceptTF
  BY <1>1, AcceptRefines DEF TFS!Next
<1>2. CASE FetcherFetch
  <2>1. nProc < MaxLoops * NFiles /\ nProc' = nProc + 1 /\ UNCHANGED emitted
    BY <1>2 DEF FetcherFetch, readerVars
  <2>. QED
    BY <2>1 DEF TFS!Next, TFS!Fetch
<1>3. CASE ~ReaderAcceptTF /\ ~FetcherFetch
  <2>1. UNCHANGED <<nProc, emitted>>
    BY <1>3 DEF Next, Fetcher, Reader, FetcherFinish, ReaderRejectTF, ReaderSkipTF,
                ReaderOpenFile, ReaderPeekEmpty, ReaderCheckRunning, ReaderFinal, Stop,
                Terminated, vars, readerVars, fetcherVars
  <2>. QED
    BY <2>1 DEF TFS!absVars
<1>. QED
  BY <1>1, <1>2, <1>3

\* The CTF reader with its fetcher implements the abstract TF stream
\* (TFStreamSpec, checked by the run ctf_irsel): whatever the interleaving
\* of the two threads, the failed fetches, the rejections of the IRFrame
\* selection and the skips of select-ctf-ids, the TFs sent form a stream
\* of entries of fetched files, strictly ordered by file, entry and counter.
THEOREM ReaderImplementsStream == Spec => TFStreamSpec
<1>1. Init => TFS!Init
  BY DEF Init, TFS!Init
<1>2. Spec => []RefInv
  BY InitRefInv, NextRefInv, PTL DEF Spec
<1>. QED
  BY <1>1, <1>2, NextRefines, PTL DEF Spec, TFStreamSpec, TFS!Spec
-----------------------------------------------------------------------------
(* select-ctf-ids.  Without an IRFrame selection only an accepted TF       *)
(* advances mSelIDEntry, so it counts the TFs sent; while run() may still  *)
(* test an ID it is inside the list (the stop at line 362), so the test    *)
(* never reads past the end, and each TF sent has the ID it was matched    *)
(* against.                                                                *)

SelInv ==
  CtfIDs # <<>> /\ ~UseIRSelection =>
    /\ mSelIDEntry = Len(emitted)
    /\ mSelIDEntry <= Len(CtfIDs)
    /\ rpc \in {"loop", "peeked"} => mSelIDEntry < Len(CtfIDs)
    /\ \A i \in DOMAIN emitted : emitted[i].id = CtfIDs[i]

LEMMA InitSelInv == Init => SelInv
BY ConstantsAssumption DEF Init, SelInv

\* An accepted TF is the next ID of the list: it is sent with that ID and
\* moves the selection index along.
LEMMA AcceptSelInv == IInv /\ SelInv /\ ReaderAcceptTF => SelInv'
<1> SUFFICES ASSUME IInv, SelInv, ReaderAcceptTF, CtfIDs # <<>>, ~UseIRSelection
             PROVE  SelInv'
  BY DEF SelInv
<1> DEFINE m == mSelIDEntry
<1>1. m \in Nat /\ mCTFCounter \in Nat /\ emitted \in Seq(TFRecord) /\ CtfIDs \in Seq(Nat)
  BY ConstantsAssumption DEF IInv, TypeOK
<1>2. m = Len(emitted) /\ m < Len(CtfIDs) /\ \A i \in DOMAIN emitted : emitted[i].id = CtfIDs[i]
  BY DEF ReaderAcceptTF, SelInv
<1>3. CtfIDs[m + 1] = mCTFCounter
  <2>1. PICK ub \in BOOLEAN : IDMatches(ub)
    BY DEF ReaderAcceptTF
  <2>. QED
    BY <1>1, <1>2, <2>1 DEF IDMatches
<1>4. /\ emitted' = Append(emitted, [item |-> mCurItem, entry |-> mCurrTreeEntry,
                                     id |-> mCTFCounter])
      /\ mSelIDEntry' = m + 1 /\ rpc' = "final"
  BY DEF ReaderAcceptTF
<1>5. ASSUME NEW i \in DOMAIN emitted' PROVE emitted'[i].id = CtfIDs[i]
  <2>1. CASE i \in DOMAIN emitted
    BY <1>1, <1>2, <1>4, <2>1
  <2>2. CASE i \notin DOMAIN emitted
    BY <1>1, <1>2, <1>3, <1>4, <2>2
  <2>. QED
    BY <2>1, <2>2
<1>. QED
  BY <1>1, <1>2, <1>4, <1>5 DEF SelInv

\* After an accepted TF, run() goes on only while the list has IDs left.
LEMMA FinalSelInv == IInv /\ SelInv /\ ReaderFinal => SelInv'
<1> SUFFICES ASSUME IInv, SelInv, ReaderFinal, CtfIDs # <<>>, ~UseIRSelection
             PROVE  SelInv'
  BY DEF SelInv
<1>1. mSelIDEntry \in Nat /\ CtfIDs \in Seq(Nat)
  BY ConstantsAssumption DEF IInv, TypeOK
<1>2. UNCHANGED <<mSelIDEntry, emitted>>
  BY DEF ReaderFinal, Stop
<1>3. CASE LimitReached
  BY <1>2, <1>3 DEF ReaderFinal, Stop, SelInv
<1>4. CASE ~LimitReached
  <2>1. mSelIDEntry < Len(CtfIDs)
    BY <1>1, <1>4 DEF LimitReached
  <2>. QED
    BY <1>2, <2>1 DEF SelInv
<1>. QED
  BY <1>3, <1>4

LEMMA NextSelInv == IInv /\ SelInv /\ [Next]_vars => SelInv'
<1> SUFFICES ASSUME IInv, SelInv, [Next]_vars PROVE SelInv'
  OBVIOUS
<1>1. CASE ReaderAcceptTF
  BY <1>1, AcceptSelInv
<1>2. CASE ReaderFinal
  BY <1>2, FinalSelInv
<1>3. CASE ReaderRejectTF
  BY <1>3 DEF ReaderRejectTF, SelInv
<1>4. CASE ReaderSkipTF
  BY <1>4 DEF ReaderSkipTF, SelInv
<1>5. CASE ReaderOpenFile \/ ReaderPeekEmpty
  BY <1>5 DEF ReaderOpenFile, ReaderPeekEmpty, SelInv
<1>6. CASE ReaderCheckRunning
  BY <1>6 DEF ReaderCheckRunning, Stop, SelInv
<1>7. CASE FetcherFetch \/ FetcherFinish \/ Terminated \/ UNCHANGED vars
  BY <1>7 DEF FetcherFetch, FetcherFinish, Terminated, vars, readerVars, SelInv
<1>. QED
  BY <1>1, <1>2, <1>3, <1>4, <1>5, <1>6, <1>7 DEF Next, Fetcher, Reader

\* With select-ctf-ids and no IRFrame selection, the TFs sent are exactly
\* the requested IDs in the order of the list and never more of them
\* (EmittedInSelectionOrder, checked by the run ctf_ids): the match at line
\* 323 and the stop at line 362 keep the index inside the list.
THEOREM SelectionInOrder ==
  ASSUME ~UseIRSelection
  PROVE  Spec => []EmittedInSelectionOrder
<1>1. Spec => [](IInv /\ SelInv)
  BY InitIInv, InitSelInv, NextIInv, NextSelInv, PTL DEF Spec
<1>2. SelInv => EmittedInSelectionOrder
  BY DEF SelInv, EmittedInSelectionOrder
<1>. QED
  BY <1>1, <1>2, PTL
=============================================================================
