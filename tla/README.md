# Verification models of the AliceO2 excerpt

This directory holds TLA+ models of this repository's code. It also holds the TLC
configurations that model-check them and TLAPS proofs about them. Paths below are
relative to the repository root. Line numbers refer to the files under `src/`.
`PROJECT.json` maps every definition that models code to the lines it translates,
lists each run, each mutant, each hazard and each finding.

## 1. Inventory

### Components

| Component | Source | Module | Status |
|---|---|---|---|
| **CTF reader / sequencer** | `src/Detectors/CTF/workflow/src/CTFReaderSpec.cxx` | `CTFReader` (the `run()` loop), refining `TFStream` (the stream it promises), `CTFHeaderFix` (the header path of `processTF`) | partly |
| **FileFetcher** (file supply queue) | not under `src/`; contract in `spec.md` 4.1 | inside `CTFReader` (spec-modelled) | modelled |
| **Run time-range table, IRFrame selector** | `CTFReaderSpec.cxx` 181-281, 417-443; `IRFrameSelector` not under `src/` | `CTFSelection` | modelled |
| **CTP digit reader** | `src/Detectors/CTP/workflowIO/src/DigitReaderSpec.cxx` | `CTPDigitReader` | modelled |
| **EnumFlags** | `src/Common/Utils/include/CommonUtils/EnumFlags.h` (+ its test) | `EnumFlags` | modelled |
| **ITS TimeFrame index tables** | `src/Detectors/ITSMFT/ITS/tracking/include/ITStracking/TimeFrame.h` | `ITSTimeFrame` | partly |
| **Config registry, property-tree helpers** | `src/Framework/Core/src/ConfigParamRegistry.cxx`, `include/Framework/VariantPropertyTreeHelpers.h` | `ConfigRegistry` | partly |
| **OpenCL device initialisation** | `src/GPU/GPUTracking/Base/opencl-common/GPUReconstructionOCL.cxx` | `OCLDeviceInit` | partly |
| GPU tracker kernels, device metrics helper, `runDataProcessing.h`, `Endian.h`, `MatchInfoTOFReco.h`, CTP macros | see `PROJECT.json` | none | not modelled (section 7) |

### Interactions

The CTF reader owns a `FileFetcher`. The fetcher's background thread fills a
bounded queue. The reader's `run()` only peeks at the head, opens it, and pops it
once the tree is drained (`checkTreeEntries`, line 505) or failed to open (line 305).
The queue is the only state the two threads share. The reader tells "not ready yet"
from "exhausted" by calling `isRunning()` after an empty peek (lines 337-339 and 365).

DPL calls `run()` again and again. Each call sends at most one TF, then leaves the loop.
For each entry, `processTF` may consult the IRFrame selector (`CTFSelection`), then
repairs and sends the header and makes each detector's output (`CTFHeaderFix`). The
selector is built from a frames file or rebuilt from the run time-range table when the
run number changes. The selected frames are sent as the `selIRFrames` output. In IRFrame
mode the CTP digit reader receives them as `driverInfo` and cuts its digits to them;
`CTPDigitReader` takes them as a sequence of increasing frame lists, the shape
`CTFSelection` produces. The other components are libraries called by such devices:
`EnumFlags` for option sets, the config registry for options, the ITS TimeFrame by the ITS tracker, and the OpenCL backend by
the GPU reconstruction. The modules are composed only in `CTFReader`
(reader with fetcher); the others model one component each and stand alone.

### What is hard here

- Two threads share the fetcher's queue, and the reader's two reads of it (peek, then `isRunning`) are not atomic.
- The pop of the head is deferred until the file is drained. Popping early or late re-reads or skips a file.
- Three cursors and counters interact in the reader, each tested at a different point of the loop.
- Failure paths: unreadable files, failed copies, a fatal threshold; a dozen OpenCL calls, each of which can fail after earlier ones allocated.
- Arithmetic at width edges: uint32 orbits (conversion, subtraction), saturation of the query window, `EnumFlags` masks by shifts offset tables shifted by an insertion.
- Cursors kept across calls: the CTP reader's tree cursor and loaded entry, the ITS offset tables.

## 2. Status and plan

Done: every component of the table above that the source lets a model reach, and the
refinement of `CTFReader` by the abstract stream `TFStream` (checked by TLC and proved).
Open: a composition of `CTFReader` with `CTFSelection` (TFs carrying run and orbit), and
the invariants that section 6.6 lists as checked by TLC only, for the reasons given there.

## 3. Modules

### 3.1 `CTFReader.tla` (reader loop and fetcher)

**Constants.** `FileEntries` gives the number of entries in each input file's tree (0 means
the file fails to open, has no tree, or is empty; all three take the same path at lines 289-306).
The other constants are `MaxLoops`, `MaxFileCache`, `CtfIDs` (select-ctf-ids), `MaxTFs` and
`MaxTFsPerFile` (normalised as at lines 161/163), `UseIRSelection`, `RemoteFetch` and
`FailThreshold`. `ConstantsAssumption` names the ranges.

**Queue items.** An item is the ordinal of the fetch that produced it. The n-th fetch
delivers file `FileOf(n)`, so the copies of a file from different loops stay distinct.

**Fetcher (spec-modelled).** `FetcherFetch` makes the next file available, or counts a
failed copy when `RemoteFetch` holds. A failure past the threshold sets `fatal`.
`FetcherFinish` ends the thread after `MaxLoops` passes.

**Reader.** `rpc` is the reader's position in `run()`:
- `"loop"` is the top of the while loop;
- `"peeked"` is after an empty `getNextFileInQueue()` and before `isRunning()`;
- `"final"` is the check after the loop that follows an accepted TF;
- `"stopped"` means the reader has stopped.

| Action | Code |
|---|---|
| `ReaderAcceptTF` | lines 323-327 with `processTF` returning true (388-494), including `checkTreeEntries` and the counters |
| `ReaderRejectTF` | `processTF` returning false at line 433, then 330-334 |
| `ReaderSkipTF` | the ID does not match: 330-334 |
| `ReaderOpenFile` | 337 with a non-empty queue, then `openCTFFile` 284-309 |
| `ReaderPeekEmpty` | 337-338 with an empty queue |
| `ReaderCheckRunning` | 339-348: stop, or wait and retry |
| `ReaderFinal` | 362-367 and the next `run()` call |
| `Stop` | `stopReader` 135-151 with the end of stream at 369-371 |

`IDMatches(ub)` is line 323. Past the end of `CtfIDs` the code reads out of bounds, and
the value read, `ub`, is a free choice. `CheckTreeEntries` is lines 497-508.

**The abstract stream (`TFStream.tla`).** `TFStream` states what the reader promises
downstream, without the queue, the open tree or the selections. It has two variables:
`fetched`, the number of fetches done, and `out`, the TFs sent. `Fetch` is the next fetch.
`Emit` sends a TF `t = [item, entry, id]`. The TF must be an entry of the tree of a fetch
already done and lie within the per-file budget. It must also `Follow` the last TF sent:
later in (fetch, entry) order and with a larger TF counter. `Emit` names `t` as the last
element of `out'`, so TLC need not enumerate TFs. `CTFReader` instantiates it as
`TFS == INSTANCE TFStream WITH Size <- Entries, MaxFetches <- MaxLoops * NFiles,
PerFile <- MaxTFsPerFile, fetched <- nProc, out <- emitted`. So a fetch of the fetcher is
a `Fetch`, and an accepted TF is an `Emit`. Every other reader step (reject, skip, open,
peek, stop) leaves `nProc` and `emitted` alone, so it is a stutter. `TFStreamSpec ==
TFS!Spec` is a PROPERTY of `ctf_irsel`.

**Left to other modules or out.** The header patching and the detector outputs are in
`CTFHeaderFix`, the selection arithmetic in `CTFSelection`. Left out here:
- the rate limiter and the inter-TF delay, which only wait and change no modelled state;
- the summary file;
- the wait-time metrics.

### 3.2 `CTFSelection.tla` (run time ranges and the IRFrame selector)

`loadRunTimeSpans` reads the triplet file one line per step (`LoadSkip`, `LoadTriplet`,
`LoadReject`, `LoadDone`); lines are abstract (a triplet with its numbers, a blank, a
comment, a short line). `RunTimeRangesToIRFrameSelector` converts the run's ranges to
orbit frames (timestamps through `ToOrbit`, snapping to TF boundaries for runs above
`RunThreshold`, the `uint32_t` cast as `% 2^OrbitBits`). `ProcessTF` rebuilds the selector
when the run changes and accepts a TF when its query window (`QueryEnd`, saturated at the
top of the counter) overlaps a frame, XOR invert. The selector itself is spec-modelled
(closed-interval overlap). Orbits are 5 bits wide and an orbit lasts 0.4 ms, so the
counter's top and the timestamp/orbit threshold are reachable. The properties compare
acceptance with a reference (`Expected`: the exact orbit range of each triplet) and the
load verdict with the file's content. `CTFSelectionAssumption` types the inputs. A file is
a sequence of `Lines`: triplets of a known run with two parsed numbers, or lines the loop
passes over. A TF is a run and a uint32 orbit. It also states that `2^OrbitBits` is a
positive natural number, a fact of arithmetic that TLC evaluates and no installed prover
derives, since none has facts about `^`.

### 3.3 `CTFHeaderFix.tla` (header repair and detector outputs of `processTF`)

One `processTF` call for an accepted TF is `ProcessTFAccepted`: `FixedHeader` imposes the
run start (398-401), repairs a zero creation time with `TryToFixCTFHeader` (542-586: the
first table row of the run, the uint32 orbit difference `% 2^OrbitBits`, rounding up,
the clamp), renumbers with the local counter (406); the header is sent, `FirstMissing`
finds the first requested detector absent from the header (`processDetector`, 527-539),
whose empty output is made before the throw (`MadeBefore`). `ProcessTFRejected` is the
selection's `return false` (432-434), `Finish` the end of the tree.

`CTFHeaderFixAssumption` types the constants (`HeaderT` for the trees' headers, `TabRow`
for the rows of `tf0Data`) and states what the code's table satisfies: it is non-empty and
sorted by run with each run once. The same assumption also states `2^OrbitBits > 0`. That
fact follows from `OrbitBits > 0`, but the provers cannot derive it without induction.

### 3.4 `CTPDigitReader.tla`

State: the tree, the driver's frame lists, the tree cursor `readEntry`, the loaded entry
`mDigits`, whether its buffer was ever allocated, the locals of the loop. `RunPlain` is the
plain mode; `RunIREmpty`, `RunIRStart`, `LoopEntry`, `LoopEmptyEntry`, `LoopEnd`,
`PushSelection` are the IR-frames branch, one loop iteration per step. `front()`/`back()`
of an empty entry is undefined behaviour: a crash before the buffer was ever allocated,
either comparison outcome afterwards (`LoopEmptyEntry`'s disjuncts).
`CTPDigitReaderAssumption` types the trees: sequences of entries of integers.

### 3.5 `EnumFlags.tla`

One object; `mBits` as the set of its 1-bits. Every member that changes `mBits` is an
action (`SetFlag`, `ResetFlag`, `Toggle`, `AndFlag`, `Reset`, `Complement`, `OrWith`,
`AndWith`, `XorWith`, `Assign`, `SetString`, `Deserialize`), `Serialize` saves the string.
Strings are abstract (digits, token lists, "all"/"none"); `std::stoul` is parsed digit by
digit (`DigitsValue`), `MaxRep` and `count()` are the code's formulas. Five flags in a
`uint8_t`, so the bits above the last member exist.

### 3.6 `ITSTimeFrame.tla`

The per-ROF offset tables of clusters and vertices, built (by `TimeFrame.cxx`, outside the
tree) into any consistent state in `Init`. The queries (`getClustersOnLayer`,
`getClustersPerROFrange`, `getNClustersROFrange`, `getClusterROF` by lower bound,
`getPrimaryVertices` with the masks, ...) are operators; `InsertPastVertex` (insert into the
ROF's slice, shift the later offsets, count per iteration), `MarkUsedCluster`, the mask
setters and `SwapMasks` are actions. Three ROFs, some empty, two layers, up to four vertices.

### 3.7 `ConfigRegistry.tla`

A boost property tree as a node with data and an ordered list of named children,
duplicates allowed. `Walk`/`GetChild` is `get_child_optional`, `Put` is `put` (replace the
first match, append the missing nodes), the vector and 2D-array helpers build and read the
`"values"` branches. The only action is `Override` (`override()`), from stores with nested
and duplicated names and a vector and an array option written by the helpers (`Init`).
History variables `written` and `last` hold what was stored and the last override.

### 3.8 `OCLDeviceInit.tla`

`InitDevice_Runtime` of the master instance, one step per OpenCL call that can fail, its
failure a disjunct: `GetPlatforms` (88-142), `GetDevices` (144-153), `ExamineDevice` (one
iteration of 163-208, with `DeviceOK` and `Better`, where `bestDeviceSpeed` is a loop
local), `ChooseDevice` (209-222), `CheckConstantMemory`, `CreateContext`, `LoadPrograms`,
`AllocDeviceMemory`, `AllocConstantMemory` (282-295: the CPU timer switch-off at 290-295
is taken only once the buffer exists, never on the failure path), `CreateQueue` (296-315, one
per stream: profiling is asked for when the version is 2 or more, the device is a GPU and
timers are on; a refusal while timers are on switches them off and recreates the queue
without it, as at 303-307; `qprof` records the streams whose queue was made with
profiling), `Migrate`, `AllocHostMemory`,
`GetDevicePointers`, `MapHostMemory`; `ExitDevice` is `ExitDevice_Runtime`. `live` is the set
of OpenCL objects created and not released, as each path creates and releases them.
Devices differ in type, width, endianness, speed, OpenCL version and constant memory; the
lists hold up to three devices, including a fast device before a slow one.
`OCLDeviceInitAssumption` types the constants; each device list is a sequence of `DeviceT`
records.

## 4. Runs

The project keeps twelve runs: one passing run per module (two for the reader), and three
runs that exhibit a disagreement between the code and `spec.md` or its own intent.

| Run | Instance | Checks | Shows |
|---|---|---|---|
| `ctf_ids` | `MC_CTFReader`: 2 loops, cache 2, IDs ⟨1,2⟩, failing copies | `TypeOK`, `OpenFileIsHead`, `EmittedInSelectionOrder`, `Termination` | the ID list is honoured in order (ID 2 lies in a later file than ID 1) and the reader ends |
| `ctf_irsel` | 2 loops, max-tf 3, arbitrary rejection, threshold 1 | `EmittedEntriesValid`, `AcceptedWithinLimit`, `Termination`, `TFStreamSpec` | every TF sent is a real entry, sent once and in order, the limit holds under any selection, and the device ends, also on a fatal fetch failure; the reader implements `TFStream` |
| `ctf_ub_ids` | IDs ⟨0,2⟩ with arbitrary rejection | `EmittedOnlySelected` (violation) | finding F1 |
| `ctf_maxtf_raw` | max-tf 2 with arbitrary rejection | `LimitMeansMaxAccepted` (violation) | finding F2 |
| `sel_ranges` | `MC_CTFSelection`: 5-bit orbits, files of up to two lines over orbit, timestamp, inverted, mixed lines, up to three TFs of three runs | `TypeOK`, `SelectedIffOverlaps`, `LoadVerdict` | the load aborts exactly on unusable files; each TF is accepted iff it overlaps a range of its run (XOR invert), across run changes, snapping and the saturated window |
| `hdr_fix` | `MC_CTFHeaderFix`: runs inside, outside and between the table's rows, imposed start or not, local counter or not, missing detectors | `NeverFabricated`, `LocalCountersConsecutive`, `DetectorOutputsExact` | creation times come only from the source, the imposed start or the run's own row; local counters number accepted TFs 0, 1, 2, ...; a TF completes only with all requested outputs |
| `hdr_fix_wrap` | an orbit before the run's first recorded orbit | `RepairedTimesMonotone` (violation) | finding F3 |
| `ctp_read` | `MC_CTPDigitReader`: trees of up to three entries straddling spans, one with an entry without digits, every increasing driver of up to three calls | `SelectedDigitsExact`, `EntriesInOrder` | each call sends only its span's digits, in order, and all of them when no entry is empty, also when one entry straddles two calls |
| `enum_ops` | `MC_EnumFlags`: five flags in `uint8_t`, every call sequence | `SetStringExact`, `ThrowLeavesFlags` | `set(string)` sets exactly the named flags; a throwing call leaves the flags unchanged |
| `its_tables` | `MC_ITSTimeFrame`: 3 ROFs, 2 layers, 2 cluster tables with empty ROFs, up to 4 vertices, 3 masks | `PVQueriesExact`, `ClusterQueriesExact` | after any insertions, marks and mask changes, each query returns exactly its ROF's slice, also for ranges past the last ROF |
| `cfg_registry` | `MC_ConfigRegistry`: keys of depth 2 with duplicates, 4 vectors, arrays of 1-2 rows and 0-2 columns | `RoundTrip`, `OverrideIsolated` | an override is read back and changes no other option; vectors and arrays read back what was stored |
| `ocl_init` | `MC_OCLDeviceInit`: up to 2 platforms, 6 device lists, 2 streams, every failure | `SelectionSound`, `QueuesProfiledWithTimers`, `ExitReleasesAll` | the chosen device is usable and the requested one; timers left on for an OpenCL 2 GPU imply every queue was made with profiling, also after a refused property; exit after success releases everything |

The reader runs use three files of 2, 0 and 1 entries. That instance covers both
`openCTFFile` outcomes in every loop and a tree that needs two `checkTreeEntries`.

**Bounds.** Each instance is chosen so the edge the code handles happens. An orbit counter
reaches its top. A ROF is empty. An entry straddles two spans. A key repeats in a tree.
Every failure of every OpenCL call is explored. Larger instances repeat the same branches
with more values.

**Fairness.** Only `CTFReader` has liveness (`Termination`), under weak fairness of the
reader and of the fetcher. DPL keeps calling `run()` while the device has not asked to quit,
and the fetcher is an independent thread. The rate limiter's waits are assumed to end,
since a downstream consumer frees capacity; the model has no step for them. The other
modules are sequential calls made by their caller, so only safety is checked.

Every property of a passing run has a mutant in `PROJECT.json` that TLC kills. Each mutant
is a plausible slip in the mapped code:
- an off-by-one: a fetch ordinal, `>` for `>=`, an ID compared with the incremented counter;
- a pop at open time;
- an empty peek that never asks `isRunning()`;
- a dropped guard, or a device taken without its check;
- timers left on after the platform refused profiling;
- a missed release;
- a shift from the wrong ROF.

## 5. Findings

Each of these findings has a run.

F1. **Out-of-bounds ID read** (`CTFReaderSpec.cxx:323`, code bug). With select-ctf-ids and an
IRFrame selection, a rejected last ID leaves `mSelIDEntry` at the list size without stopping.
The next iteration reads `ctfIDs[size]`, and an unrequested TF can be sent.

F2. **max-tf counts raw TFs** (`:362`, divergence from `spec.md` 4.4/8). With rejected TFs
the reader stops with fewer than max-tf accepted.

F3. **Header repair wraps** (`:580`, code bug). The uint32 orbit difference wraps for a TF
before the table's first orbit. Its time is then set about 4.4 days later, and the clamp
never fires.

**Seen while modelling, not kept as runs.** No run asserts these. They are listed as
hazards in `PROJECT.json`, each with a note.
- **Reader and fetcher.** The empty peek and `isRunning()` are two calls (`:339`, `:365`).
  Under the `spec.md` 4.1 contract the fetcher can queue its last files and end between
  them, and the reader stops with files still queued.
- **Orbit cast** (`:218`). A timestamp range ending more than 2^32 orbits after the run
  start wraps `orbMax` below `orbMin`.
- **Spec example** (`:262`). The example line of `spec.md` section 8 mixes units, and the
  code treats it as fatal.
- **Absent detector** (`:531`). With missing detectors allowed, an empty output is made
  where spec section 4 says the block is skipped.
- **Empty digit entry** (`DigitReaderSpec.cxx:114`). `front()`/`back()` of an entry without
  digits is undefined. A stale read can end the loop early and lose the span's later digits.
  `ctp_read` checks that no digit outside the span is sent even then.
- **EnumFlags top member** (`EnumFlags.h:164`, `:672`, `:627`, `:564`):
  - `MaxRep` lacks the last member, so `serialize`/`deserialize` fail for it;
  - `set("all")` misses it;
  - `count()` skips it;
  - `~` sets the bits above the members, so `any()` reports a flag when none is set.
- **OpenCL device choice** (`GPUReconstructionOCL.cxx:198`). `bestDeviceSpeed` is re-declared
  as -1 in every iteration, so the last usable device is chosen, not the fastest.
- **OpenCL init failures** (`:312`). Only the two buffer allocations release what was created
  before them. The later quits return holding the context, buffers, queues and programs.

## 6. Proofs

Five modules hold theorems. Each one EXTENDS the module it proves things about, and
the proofs hold for every value of the constants that satisfies that module's ASSUME.
Every inductive invariant below was first checked by TLC as an invariant of the
module's run.

### 6.1 `CTFReaderProofs.tla`

- `TypeCorrect`: `Spec => []TypeOK`.
- `OpenFileStaysQueued`: `Spec => []OpenFileIsHead`.

  Both come from the inductive invariant `IInv == TypeOK /\ OpenFileIsHead`.
  The type alone is not inductive: `checkTreeEntries` takes `Tail(queue)`, and that has a
  type only if the queue is non-empty, which `OpenFileIsHead` provides. The step proof has
  one case per action. Lemma `CheckTreeEntriesIInv` covers both branches of `checkTreeEntries`.
- `AcceptedBounded`: `Spec => []AcceptedWithinLimit`, from `LimitInv`. Two facts keep it
  inductive:
  - the accepted count never exceeds the raw count;
  - at `"loop"` or `"peeked"` the accepted count is below max-tf, because `ReaderFinal` returns
    to the loop only when the raw counter is below max-tf.

- `ExactlyOnceInOrder`: `Spec => []EmittedEntriesValid`. Every TF sent is an existing entry
  within the per-file budget, and the TFs go out in strictly increasing (fetch, entry) order,
  so none is sent twice. The property relates each new emission to all earlier ones, so it is
  strengthened by `EmitInv`, which adds three facts about what is still to come:
  - `QueueOrdered`: the queued items are increasing fetch ordinals, none above `nProc`;
  - `CursorInTree`: an open tree's cursor is inside both the tree and the per-file budget;
  - `LastBeforeRest`: the last TF sent precedes the cursor while a tree is open. Otherwise,
    unless the reader has stopped, its file precedes every queued item.

  There is one lemma per kind of step:
  - `FetchEmit`: a fetch appends `nProc + 1`;
  - `AcceptEmit`: the new TF is sent at the cursor;
  - `AdvanceEmit`: a reject or skip moves the cursor;
  - `OpenEmit`: the head's tree is opened at entry 0, or an unreadable head is popped;
  - `QuietEmit`: steps that only change the control point.

  `CheckTreeEntriesEmit` and `TailOrdered` cover the pop.

- `ReaderImplementsStream`: `Spec => TFStreamSpec`, the refinement of section 3.1. It is
  proved in three steps:
  - `Init => TFS!Init`;
  - `Spec => []RefInv`;
  - `RefInv /\ [Next]_vars => [TFS!Next]_TFS!absVars` (lemma `NextRefines`).

  `PTL` then combines them. `RefInv` is `EmitInv` plus `IdsBelowCounter`: every TF counter
  sent so far is below `mCTFCounter`. `IdsBelowCounter` is needed because `Follows` asks
  for a larger counter, and the counter of the new TF is `mCTFCounter`. Lemma
  `AcceptRefines` shows that an accepted TF is an `Emit`:
  - its entry is the open tree's cursor, of the head item, which is at most `nProc`;
  - `LastBeforeRest` orders it after the last TF sent;
  - `IdsBelowCounter` makes its counter larger.

  A fetch is a `Fetch`, because `nProc` stays within `MaxLoops * NFiles`. Every other step
  changes neither `nProc` nor `emitted`.
- `SelectionInOrder`: `ASSUME ~UseIRSelection PROVE Spec => []EmittedInSelectionOrder`.
  With select-ctf-ids, the TFs sent are exactly the listed counters, in list order, once
  the reader stops. The inductive invariant `SelInv` says:
  - `mSelIDEntry` equals the number of TFs sent and stays within the list;
  - in the loop the list is not yet exhausted;
  - the i-th TF sent carries the i-th listed counter.

  The hypothesis is needed. With IR-frame selection, a TF whose counter matches but which
  `processTF` rejects still advances `mSelIDEntry` (line 325), without sending anything.
  Then the TFs sent are a subsequence of the list, no longer all of it. `ctf_ub_ids` shows
  what follows from this (finding F1).

TLC also checked `IInv`, `LimitInv` and `EmitInv` as invariants of the `ctf_irsel`
instance (`EmitInv` also of `ctf_ids`). It checked `SelInv` on `ctf_ids`, and also with the
selected counter in the last file.

### 6.2 `CTFHeaderFixProofs.tla`

The proofs use one inductive invariant, `IInv`. It holds the type of every variable and
says the local counter has advanced once per TF sent. It also says that one more entry
of `sent` exists after a fatal stop. Its main conjunct is `SentOK(k)`: the k-th TF sent is
exactly what `processTF` makes of the k-th accepted header. That is the header after
`FixedHeader` with the counter value k-1, and the outputs `MadeBefore` of the first
missing detector. With `SentOK`, each property becomes a fact about one call of the pure
operators.

- `TypeCorrect`: `Spec => []TypeOK`.
- `HeaderTimesNeverFabricated`: `Spec => []NeverFabricated`. Lemma `TryToFixFromRow` gives
  the repaired time when the run has a row. The repair takes the first row whose run
  matches. Because the table is sorted by run (`RowUnique`), that row is the run's only
  one, so the repaired time is its `ts0` plus a non-negative rounded-up orbit offset. That
  offset is at least 0 even when the uint32 difference wraps. Lemma `MinExists` (from
  `WellFoundedInduction`) gives the least index that `FirstMissing` chooses.
- `LocalCountersNumberAccepted`: `Spec => []LocalCountersConsecutive`, from the counter
  conjuncts of `IInv`.
- `DetectorOutputsComplete`: `ASSUME DetMask \subseteq Called PROVE Spec => []DetectorOutputsExact`.
  `Called` is the set of detectors `processTF` reads, in the order of `DetOrder`.
  `DetectorOutputsExact` holds only when each detector of the mask is read: a detector
  that is never read would get no output. `DetID`, the list of detectors the mask names,
  is not in the tree. So the hypothesis is stated, not assumed.

### 6.3 `OCLDeviceInitProofs.tla`

- `ExitReleasesEverything`: `Spec => []ExitReleasesAll`, from `LiveInv`. `LiveInv` gives the
  exact set of live OpenCL objects at each call of `InitDevice_Runtime`. During the loop of
  `CreateQueue` that set includes the queues of the streams below `q` (`Queues(q)`). The
  step proof has one case per call. In the `ExitDevice` case, `hostBase` holds at `"ok"`, so
  the exit releases the whole set.
- `TimersOnlyWithProfiledQueues`: `Spec => []QueuesProfiledWithTimers`, from `ProfInv`:
  `q` counts the queues made, it is 0 with `qprof` empty before the loop and `NStreams`
  after it, and while timers are on for an OpenCL 2 GPU `qprof` is every stream below `q`.
  The loop step adds stream `q` with profiling, or switches timers off. The premise on the
  version and the device type is needed: TLC finds an OpenCL 1.x GPU with timers on and
  queues made without profiling, which is what the code does (the property is never asked
  for there).
- `DeviceSelectionSound`: `Spec => []SelectionSound`, from `LoopInv`, which has four parts:
  - `LoopTypes`: the types of the loop's variables;
  - `LoopStage`: what each stage of `InitDevice_Runtime` has set (platform, device list,
    loop index, device);
  - `LoopScan`: the loop invariant proper. `devicesOK` marks exactly the usable devices
    below `i`. `bestDevice` is `NoDevice` exactly while none of them is usable, and
    otherwise is one of them;
  - `LoopChoice`: what the choice establishes.

  One lemma per call covers `GetPlatforms`, `GetDevices`, `ExamineDevice` and `ChooseDevice`,
  and `KeepLoopInv` covers every later call. In `ExamineDevice`, a usable device always
  becomes `bestDevice`, because `Better` compares with the loop-local speed -1.

### 6.4 `CTPDigitReaderProofs.tla`

- `PlainEntriesInOrder`: `ASSUME TreesNotEmpty PROVE Spec => []EntriesInOrder`. The
  hypothesis says every tree has an entry. It is the condition of
  `assert(ent < mTree->GetEntries())` before the first `GetEntry` (DigitReaderSpec.cxx:89).
  A release build drops that assert. On an empty tree the first call reads nothing and
  sends the empty `mDigits`, and the property fails. So the hypothesis is stated in the
  theorem rather than assumed of the constants.

  The inductive invariant is `PlainInv`. Without IR frames, the device is always between
  calls, the cursor `readEntry` is at the entry sent last, and `sent` is the prefix of the
  tree of that length. The cursor conjunct makes the invariant inductive: while the stream
  has not ended, the entry after the cursor exists, so `GetEntry` reads it. The steps of
  the IR-frames branch are covered by `mUseIRFrames`, which never changes.

### 6.5 `CTFSelectionProofs.tla`

- `TypeCorrect`: `Spec => []TypeOK`. The inductive invariant `IInv` adds to the type what
  the actions read: the file and TF sequence come from the constants, and the line cursor
  and the TF count stay in range. Lemma `FrameType` shows each IR frame is a pair of uint32
  values. It needs the run's TF length to be at least 1, for the division of the snap to
  TF boundaries. `ProcessTF` provides that, because a run with ranges and a TF length
  below 1 goes to `ProcessTFFatal` (the LOGP(fatal) at line 193). So the theorem covers
  the zero-TF-length hazard. The mutant that accepts such a run info breaks `TypeOK`.
- `SelectorNeverStale`: `Spec => []SelectorOfRun`. It holds once a TF has been processed
  and the file gave ranges to some run. Then the selector and `mTFLength` in use are
  exactly what `runTimeRangesToIRFrameSelector` builds for the run of the last TF. In the
  step proof, a rebuild sets them for the new run. Without a rebuild the run is unchanged,
  and the invariant carries them over. Lemma `SelectorStable` says the selector a run gets
  depends only on the table and the unit flag, which stop changing after the load. TLC
  checked `IInv` and `SelectorOfRun` on the `sel_ranges` instance. It also found
  `SelectorOfRun` violated when the selector is rebuilt only while unset.

`SelectorOfRun` is the half of `SelectedIffOverlaps` that concerns the code's control. The
other half is arithmetic. For every constant, one would have to show that the snapped,
clamped and uint32-cast frame overlaps the saturated query window exactly when the exact
orbit range overlaps the TF. That is not true for all widths and values: a range past the
top of the counter wraps. So that half stays with TLC, on the 5-bit instance.

### 6.6 What is only model-checked, and why

- **Liveness** (`Termination`) needs fairness and ENABLED, which TLAPS does not handle.
- **`CTPDigitReader.SelectedDigitsExact`** is about `SelectSeq`. The library has no
  lemmas about `SelectSeq`, and deriving any needs induction over the sequence, which
  the installed provers cannot instantiate.
- **`CTFSelection.SelectedIffOverlaps`**: see 6.5. **`CTFSelection.LoadVerdict`** compares
  the table with `SelectSeq` of the file. Like `SelectedDigitsExact`, it needs facts about
  `SelectSeq` that only induction over the file gives.
- **`EnumFlags` and `ITSTimeFrame`** cannot hold theorems. Their definitions use `FoldLeft`,
  `FoldSeq`, `MapThenSumSet` and `InsertAt` of `SequencesExt`, `Folds` and `FiniteSetsExt`,
  which are RECURSIVE operators. A module that reaches them loses the SMT backend.
  `CTFSelection` used only `BoundedSeq` and `:>` for its instance, so those were moved to
  `MC_CTFSelection`.
- **`ConfigRegistry`**: `RoundTrip` and `OverrideIsolated` are about what `Put` and `Walk`
  return for any path. Both are recursive functions over the path's length. A fact about
  them for every path needs induction over that length, and the library's induction
  theorems take an operator parameter, which the installed provers cannot instantiate.
- **Violation runs**: TLC finds `RepairedTimesMonotone` (`hdr_fix_wrap`), `EmittedOnlySelected`
  and `LimitMeansMaxAccepted` violated. The violation is the result, so there is nothing
  to prove.

## 7. Not modelled

- **Data-format and tracker kernels** (`MatchInfoTOFReco.h`, GPU tracker headers): per-thread
  arithmetic and data layout, with no control state for a finite model.
- **Device metrics ring buffer** (`DeviceMetricsHelper.h`): a per-metric ring written by
  one caller. Its control is a cursor taken modulo the ring size, plus the min/max and time
  ranges. The parsing that feeds it (`parseMetric`, `processMetric`, `bookMetricInfo`) is in
  a `.cxx` outside the tree.
- **`runDataProcessing.h`**: the workflow customisation and `main()` glue, with no state machine.
- **`Endian.h`**: compile-time macros.
- **CTP macros**: interactive ROOT macros reading the CCDB, pure I/O.
- Parts of modelled components:
  - `TimeFrame.cxx`: the table builders and `resetRofPV`, outside the tree. `ITSTimeFrame`
    starts from any consistent built state.
  - `ConfigParamStore`: provenance and the initial tree, outside the tree.
  - Typed getters other than strings, string vectors and string arrays: conversions of the
    same tree walk.
  - Labeled arrays.
  - The OpenCL slave branch, memory copies, events and stuck protection: single OpenCL
    calls with no control state of their own.
  - `GetOCLPrograms` and `CheckPlatform`, outside the tree.
- Infinite fetcher looping (`maxLoops < 1`): it has no bound for TLC.
- Crash and restart: the reader persists nothing, so there is no recovery to model.
