------------------------------ MODULE CTFReader ------------------------------
(***************************************************************************)
(* The CTF reader device (src/Detectors/CTF/workflow/src/CTFReaderSpec.cxx) *)
(* and the FileFetcher that feeds it.  Two threads share the fetcher's     *)
(* bounded queue of input files: the fetcher thread appends the files it   *)
(* has made available locally, the reader's run() loop peeks the head,     *)
(* opens it, iterates the entries (time frames, TFs) of its CTF tree,      *)
(* selects, emits, and pops the head only once the tree is drained.        *)
(*                                                                         *)
(* A queue item is the ordinal of the fetch that produced it (1, 2, ...):  *)
(* the n-th fetch makes file ((n-1) % NFiles) + 1 available, so a file is  *)
(* fetched again in every loop and each queued copy stays distinguishable. *)
(* The FileFetcher is not part of this source tree; its actions follow the *)
(* contract of spec.md section 4.1.                                        *)
(***************************************************************************)
EXTENDS Naturals, Sequences

CONSTANTS
  FileEntries,    \* FileEntries[f]: entries of the CTF tree of input file f (0: unreadable or empty)
  MaxLoops,       \* number of passes of the fetcher over the input list
  MaxFileCache,   \* capacity of the fetcher's queue (setMaxFilesInQueue)
  CtfIDs,         \* the select-ctf-ids list (<<>>: no ID selection)
  MaxTFs,         \* max-tf after normalisation (0x7fffffff when <= 0)
  MaxTFsPerFile,  \* max-tf-per-file after normalisation
  UseIRSelection, \* an IRFrame selection is set: processTF may reject a TF
  RemoteFetch,    \* inputs are remote: a copy into the local cache may fail
  FailThreshold   \* absolute fetch-failure threshold (0: disabled)

ASSUME ConstantsAssumption ==
  /\ FileEntries \in Seq(Nat) /\ Len(FileEntries) > 0
  /\ MaxLoops \in Nat \ {0}
  /\ MaxFileCache \in Nat \ {0}
  /\ CtfIDs \in Seq(Nat)
  /\ MaxTFs \in Nat \ {0}
  /\ MaxTFsPerFile \in Nat \ {0}
  /\ UseIRSelection \in BOOLEAN
  /\ RemoteFetch \in BOOLEAN
  /\ FailThreshold \in Nat

NFiles == Len(FileEntries)

\* The file made available by the n-th fetch, and the entries of its tree.
FileOf(n) == ((n - 1) % NFiles) + 1
Entries(n) == FileEntries[FileOf(n)]

VARIABLES
  queue,          \* FileFetcher: items available, head = file the reader works on
  nProc,          \* FileFetcher: mNFilesProc, fetches done over all loops
  fRunning,       \* FileFetcher: production thread still running (isRunning)
  nFailures,      \* FileFetcher: failed copies
  fatal,          \* the process was aborted by a LOGP(fatal)
  rpc,            \* reader control point inside run()
  mCTFTree,       \* a CTF tree is open
  mCurItem,       \* the queue item whose tree is open
  mCurrTreeEntry,
  mCTFCounter,
  mCTFCounterAcc,
  mSelIDEntry,
  mFilesRead,
  mNFailedFiles,
  emitted         \* the TFs sent downstream: [item, entry, id] in order

fetcherVars == <<queue, nProc, fRunning, nFailures, fatal>>
readerVars == <<rpc, mCTFTree, mCurItem, mCurrTreeEntry, mCTFCounter,
                mCTFCounterAcc, mSelIDEntry, mFilesRead, mNFailedFiles, emitted>>
vars == <<fetcherVars, readerVars>>

(* rpc: "loop" is the top of the while (mRunning) loop; "peeked" is just   *)
(* after getNextFileInQueue() returned empty, before isRunning() is asked; *)
(* "final" is the check after the loop that follows an accepted TF.        *)
RPC == {"loop", "peeked", "final", "stopped"}

TFRecord == [item : Nat \ {0}, entry : Nat, id : Nat]

TypeOK ==
  /\ queue \in Seq(Nat \ {0})
  /\ nProc \in Nat
  /\ fRunning \in BOOLEAN
  /\ nFailures \in Nat
  /\ fatal \in BOOLEAN
  /\ rpc \in RPC
  /\ mCTFTree \in BOOLEAN
  /\ mCurItem \in Nat
  /\ mCurrTreeEntry \in Nat
  /\ mCTFCounter \in Nat
  /\ mCTFCounterAcc \in Nat
  /\ mSelIDEntry \in Nat
  /\ mFilesRead \in Nat
  /\ mNFailedFiles \in Nat
  /\ emitted \in Seq(TFRecord)

Init ==
  /\ queue = <<>>
  /\ nProc = 0
  /\ fRunning = TRUE
  /\ nFailures = 0
  /\ fatal = FALSE
  /\ rpc = "loop"
  /\ mCTFTree = FALSE
  /\ mCurItem = 0
  /\ mCurrTreeEntry = 0
  /\ mCTFCounter = 0
  /\ mCTFCounterAcc = 0
  /\ mSelIDEntry = 0
  /\ mFilesRead = 0
  /\ mNFailedFiles = 0
  /\ emitted = <<>>

-----------------------------------------------------------------------------
(* FileFetcher thread (spec-modelled).                                     *)

\* Mutant: the fetch ordinal is taken before it is incremented (item 0).
FetcherFetchOffByOne ==
  /\ fRunning /\ ~fatal
  /\ nProc < MaxLoops * NFiles
  /\ Len(queue) < MaxFileCache
  /\ nProc' = nProc + 1
  /\ \/ /\ queue' = Append(queue, nProc)
        /\ UNCHANGED <<nFailures, fatal>>
     \/ /\ RemoteFetch
        /\ nFailures' = nFailures + 1
        /\ fatal' = (FailThreshold > 0 /\ nFailures + 1 > FailThreshold)
        /\ UNCHANGED queue
  /\ UNCHANGED <<fRunning, readerVars>>

\* One fetch: wait for room in the queue, make the next file of the current
\* loop available, or count a failed copy; past the threshold a failure is fatal.
FetcherFetch ==
  /\ fRunning /\ ~fatal
  /\ nProc < MaxLoops * NFiles
  /\ Len(queue) < MaxFileCache
  /\ nProc' = nProc + 1
  /\ \/ /\ queue' = Append(queue, nProc + 1)
        /\ UNCHANGED <<nFailures, fatal>>
     \/ /\ RemoteFetch
        /\ nFailures' = nFailures + 1
        /\ fatal' = (FailThreshold > 0 /\ nFailures + 1 > FailThreshold)
        /\ UNCHANGED queue
  /\ UNCHANGED <<fRunning, readerVars>>

\* All loops are done: the production thread ends.
FetcherFinish ==
  /\ fRunning /\ ~fatal
  /\ nProc = MaxLoops * NFiles
  /\ fRunning' = FALSE
  /\ UNCHANGED <<queue, nProc, nFailures, fatal, readerVars>>

-----------------------------------------------------------------------------
(* CTF reader: one action per iteration of the run() loop.                 *)

\* Mutant: the end of the tree is detected one entry late (> for >=).
CheckTreeEntriesLate ==
  /\ mCurrTreeEntry' = mCurrTreeEntry + 1
  /\ IF mCurrTreeEntry + 1 > Entries(mCurItem) \/ mCurrTreeEntry + 1 > MaxTFsPerFile
       THEN mCTFTree' = FALSE /\ queue' = Tail(queue)
       ELSE UNCHANGED <<mCTFTree, queue>>

\* checkTreeEntries(): advance the entry; when the tree or the per-file
\* budget is exhausted, close the tree and popFromQueue().
CheckTreeEntries ==
  /\ mCurrTreeEntry' = mCurrTreeEntry + 1
  /\ IF mCurrTreeEntry + 1 >= Entries(mCurItem) \/ mCurrTreeEntry + 1 >= MaxTFsPerFile
       THEN mCTFTree' = FALSE /\ queue' = Tail(queue)
       ELSE UNCHANGED <<mCTFTree, queue>>

\* Mutant: the requested ID is compared with the counter after its increment.
IDMatchesOffByOne(ub) ==
  \/ CtfIDs = <<>>
  \/ mSelIDEntry < Len(CtfIDs) /\ CtfIDs[mSelIDEntry + 1] = mCTFCounter + 1
  \/ mSelIDEntry >= Len(CtfIDs) /\ ub

\* The ID test of line 323.  Past the end of CtfIDs the code reads
\* ctfIDs[mSelIDEntry] out of bounds: the value read, ub, is arbitrary.
IDMatches(ub) ==
  \/ CtfIDs = <<>>
  \/ mSelIDEntry < Len(CtfIDs) /\ CtfIDs[mSelIDEntry + 1] = mCTFCounter
  \/ mSelIDEntry >= Len(CtfIDs) /\ ub

\* processTF accepts the TF (no selector, or the selector keeps it): the
\* header and detector blocks are sent, the entry advanced, the loop left.
ReaderAcceptTF ==
  /\ rpc = "loop" /\ mCTFTree /\ ~fatal
  /\ \E ub \in BOOLEAN : IDMatches(ub)
  /\ mSelIDEntry' = mSelIDEntry + 1
  /\ emitted' = Append(emitted, [item |-> mCurItem, entry |-> mCurrTreeEntry,
                                 id |-> mCTFCounter])
  /\ mCTFCounterAcc' = mCTFCounterAcc + 1
  /\ CheckTreeEntries
  /\ mCTFCounter' = mCTFCounter + 1
  /\ rpc' = "final"
  /\ UNCHANGED <<nProc, fRunning, nFailures, fatal, mCurItem, mFilesRead, mNFailedFiles>>

\* processTF returns false (the IRFrame selection rejects the TF); the
\* selection index was already advanced; the entry is skipped.
ReaderRejectTF ==
  /\ rpc = "loop" /\ mCTFTree /\ ~fatal
  /\ UseIRSelection
  /\ \E ub \in BOOLEAN : IDMatches(ub)
  /\ mSelIDEntry' = mSelIDEntry + 1
  /\ CheckTreeEntries
  /\ mCTFCounter' = mCTFCounter + 1
  /\ UNCHANGED <<nProc, fRunning, nFailures, fatal, rpc, mCurItem,
                 mCTFCounterAcc, mFilesRead, mNFailedFiles, emitted>>

\* The entry is not the next requested ID: skip it.
ReaderSkipTF ==
  /\ rpc = "loop" /\ mCTFTree /\ ~fatal
  /\ \E ub \in BOOLEAN : ~IDMatches(ub)
  /\ CheckTreeEntries
  /\ mCTFCounter' = mCTFCounter + 1
  /\ UNCHANGED <<nProc, fRunning, nFailures, fatal, rpc, mCurItem,
                 mCTFCounterAcc, mSelIDEntry, mFilesRead, mNFailedFiles, emitted>>

\* Mutant: openCTFFile pops the queue as soon as the file is opened.
ReaderOpenFileEarlyPop ==
  /\ rpc = "loop" /\ ~mCTFTree /\ ~fatal
  /\ queue # <<>>
  /\ mFilesRead' = mFilesRead + 1
  /\ mCurrTreeEntry' = 0
  /\ queue' = Tail(queue)
  /\ IF Entries(Head(queue)) = 0
       THEN mNFailedFiles' = mNFailedFiles + 1 /\ UNCHANGED <<mCTFTree, mCurItem>>
       ELSE mCTFTree' = TRUE /\ mCurItem' = Head(queue) /\ UNCHANGED mNFailedFiles
  /\ UNCHANGED <<nProc, fRunning, nFailures, fatal, rpc, mCTFCounter,
                 mCTFCounterAcc, mSelIDEntry, emitted>>

\* getNextFileInQueue() returns the head: openCTFFile().  A file without a
\* readable tree or with 0 entries is counted as failed and popped.
ReaderOpenFile ==
  /\ rpc = "loop" /\ ~mCTFTree /\ ~fatal
  /\ queue # <<>>
  /\ mFilesRead' = mFilesRead + 1
  /\ mCurrTreeEntry' = 0
  /\ IF Entries(Head(queue)) = 0
       THEN /\ mNFailedFiles' = mNFailedFiles + 1
            /\ queue' = Tail(queue)
            /\ UNCHANGED <<mCTFTree, mCurItem>>
       ELSE /\ mCTFTree' = TRUE
            /\ mCurItem' = Head(queue)
            /\ UNCHANGED <<mNFailedFiles, queue>>
  /\ UNCHANGED <<nProc, fRunning, nFailures, fatal, rpc, mCTFCounter,
                 mCTFCounterAcc, mSelIDEntry, emitted>>

\* getNextFileInQueue() returns empty (line 337 or 365).
ReaderPeekEmpty ==
  /\ rpc = "loop" /\ ~mCTFTree /\ ~fatal
  /\ queue = <<>>
  /\ rpc' = "peeked"
  /\ UNCHANGED <<fetcherVars, mCTFTree, mCurItem, mCurrTreeEntry, mCTFCounter,
                 mCTFCounterAcc, mSelIDEntry, mFilesRead, mNFailedFiles, emitted>>

\* stopReader() and the end of stream: the fetcher is stopped, the tree closed.
Stop ==
  /\ rpc' = "stopped"
  /\ fRunning' = FALSE
  /\ mCTFTree' = FALSE
  /\ UNCHANGED <<queue, nProc, nFailures, fatal, mCurItem, mCurrTreeEntry, mCTFCounter,
                 mCTFCounterAcc, mSelIDEntry, mFilesRead, mNFailedFiles, emitted>>

\* Mutant: an empty peek always waits, whatever isRunning() says.
ReaderCheckRunningAlwaysWait ==
  /\ rpc = "peeked" /\ ~fatal
  /\ rpc' = "loop"
  /\ UNCHANGED <<fetcherVars, mCTFTree, mCurItem, mCurrTreeEntry, mCTFCounter,
                 mCTFCounterAcc, mSelIDEntry, mFilesRead, mNFailedFiles, emitted>>

\* isRunning() after an empty peek: a live fetcher means wait and retry,
\* a finished one ends the reading.
ReaderCheckRunning ==
  /\ rpc = "peeked" /\ ~fatal
  /\ IF fRunning
       THEN /\ rpc' = "loop"
            /\ UNCHANGED <<fetcherVars, mCTFTree, mCurItem, mCurrTreeEntry, mCTFCounter,
                           mCTFCounterAcc, mSelIDEntry, mFilesRead, mNFailedFiles, emitted>>
       ELSE Stop

\* Mutant: the TF limit is tested with > instead of >=.
LimitReachedLate ==
  \/ mCTFCounter > MaxTFs
  \/ CtfIDs # <<>> /\ mSelIDEntry >= Len(CtfIDs)

\* The TF limit or the end of the ID list (line 362).
LimitReached ==
  \/ mCTFCounter >= MaxTFs
  \/ CtfIDs # <<>> /\ mSelIDEntry >= Len(CtfIDs)

\* Lines 362-367 after an accepted TF: stop on a limit; with no tree open and
\* an empty queue, ask isRunning(); otherwise wait for the next run() call.
ReaderFinal ==
  /\ rpc = "final" /\ ~fatal
  /\ IF LimitReached
       THEN Stop
       ELSE /\ rpc' = IF ~mCTFTree /\ queue = <<>> THEN "peeked" ELSE "loop"
            /\ UNCHANGED <<fetcherVars, mCTFTree, mCurItem, mCurrTreeEntry, mCTFCounter,
                           mCTFCounterAcc, mSelIDEntry, mFilesRead, mNFailedFiles, emitted>>

Fetcher == FetcherFetch \/ FetcherFinish

Reader ==
  \/ ReaderAcceptTF \/ ReaderRejectTF \/ ReaderSkipTF
  \/ ReaderOpenFile \/ ReaderPeekEmpty \/ ReaderCheckRunning \/ ReaderFinal

\* The device has ended, normally or by a fatal error.
Terminated == (rpc = "stopped" \/ fatal) /\ UNCHANGED vars

Next == Fetcher \/ Reader \/ Terminated

\* DPL calls run() again as long as the device runs, and the fetcher thread
\* runs independently: both are weakly fair.
Spec == Init /\ [][Next]_vars /\ WF_vars(Reader) /\ WF_vars(Fetcher)

-----------------------------------------------------------------------------
(* Properties.                                                             *)

\* The head of the fetcher's queue is popped only once the reader has drained
\* its tree (openCTFFile keeps it, checkTreeEntries pops it): while a tree is
\* open, the file the reader works on is still the head of the queue.
OpenFileIsHead ==
  mCTFTree => queue # <<>> /\ Head(queue) = mCurItem

\* Every TF sent is a real entry of its file within max-tf-per-file, and TFs
\* are sent in strictly increasing (file, entry) order: checkTreeEntries,
\* openCTFFile and popFromQueue together never send an entry twice.
EmittedEntriesValid ==
  /\ \A i \in DOMAIN emitted :
       /\ emitted[i].entry < Entries(emitted[i].item)
       /\ emitted[i].entry < MaxTFsPerFile
  /\ \A i \in DOMAIN emitted : \A j \in DOMAIN emitted :
       i < j => \/ emitted[i].item < emitted[j].item
                \/ /\ emitted[i].item = emitted[j].item
                   /\ emitted[i].entry < emitted[j].entry

\* With select-ctf-ids and no IRFrame selection, the TFs sent are exactly the
\* requested IDs, in the order of the list, and never more of them (the match
\* at line 323 and the stop at line 362).
EmittedInSelectionOrder ==
  CtfIDs # <<>> =>
    /\ Len(emitted) <= Len(CtfIDs)
    /\ \A i \in DOMAIN emitted : emitted[i].id = CtfIDs[i]

\* Every TF sent with select-ctf-ids has an ID of the list (spec.md 8).
EmittedOnlySelected ==
  CtfIDs # <<>> => \A i \in DOMAIN emitted :
                     \E k \in DOMAIN CtfIDs : CtfIDs[k] = emitted[i].id

\* No more than max-tf TFs are ever accepted (the check after each accepted TF).
AcceptedWithinLimit ==
  mCTFCounterAcc <= MaxTFs

\* A reader that stopped on the max-tf limit has accepted max-tf TFs (spec.md
\* 4.4 and 8: the limit counts accepted TFs).
LimitMeansMaxAccepted ==
  rpc = "stopped" /\ mCTFCounter >= MaxTFs => mCTFCounterAcc = MaxTFs

\* The reader and the fetcher implement the abstract stream of TFStream:
\* each fetch is a fetch of the stream, each TF processTF accepts is sent
\* from a file already fetched, at an existing entry within max-tf-per-file,
\* after every TF sent before in (file, entry) order and with a larger TF
\* counter; every other step of either thread changes neither.
TFS == INSTANCE TFStream WITH
         Size <- Entries, MaxFetches <- MaxLoops * NFiles, PerFile <- MaxTFsPerFile,
         fetched <- nProc, out <- emitted

TFStreamSpec == TFS!Spec

\* With finitely many loops the device eventually ends.
Termination ==
  <>(rpc = "stopped" \/ fatal)

=============================================================================
