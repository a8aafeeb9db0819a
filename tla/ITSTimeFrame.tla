----------------------------- MODULE ITSTimeFrame -----------------------------
(***************************************************************************)
(* The per-readout-frame index tables of the ITS tracking TimeFrame        *)
(* (src/Detectors/ITSMFT/ITS/tracking/include/ITStracking/TimeFrame.h).    *)
(* Clusters of each layer and primary vertices are stored ROF after ROF in *)
(* flat vectors; mROFramesClusters[layer] and mROFramesPV hold the offset  *)
(* of each ROF's slice (one more entry than ROFs).  The header's inline    *)
(* members query these tables and change them: insertPastVertex puts a     *)
(* vertex into the slice of its ROF and shifts the later offsets,          *)
(* markUsedCluster flags a cluster, the mask setters and swapMasks choose  *)
(* which ROFs the vertex queries show.                                     *)
(*                                                                         *)
(* The tables are built by TimeFrame.cxx, which is not in the tree: the    *)
(* model starts from built tables (offsets nondecreasing from 0, per-ROF   *)
(* counts their differences, vertices grouped by ROF).  Indices are        *)
(* 0-based as in the code: At(s, i) is element i of a vector.  A span is   *)
(* its [start, len] in the vector it views.                                *)
(***************************************************************************)
EXTENDS Integers, SequencesExt

CONSTANTS
  Layers,        \* layer indices
  NRof,          \* mNrof
  ClusterTables, \* possible mROFramesClusters: layer -> offsets (NRof + 1)
  InitVertices,  \* possible initial mPrimaryVertices, grouped by ROF
  VertexIds,     \* vertices insertPastVertex may be given (with a ROF each)
  Masks,         \* cut masks the setters may be given (NRof flags)
  NIter,         \* iterations of the vertexer (mTotVertPerIteration size)
  MaxPV          \* bound on the number of vertices

ASSUME ITSTimeFrameAssumption ==
  /\ NRof \in Nat \ {0}
  /\ NIter \in Nat \ {0}
  /\ MaxPV \in Nat
  /\ Masks \subseteq [1..NRof -> BOOLEAN]

ROFs == 0..(NRof - 1)
At(s, i) == s[i + 1]
Vertex(i, r) == [id |-> i, rof |-> r]   \* a Vertex and its ROF time stamp
Span(start, len) == [start |-> start, len |-> len]
NoSpan == Span(0, 0)
MinI(a, b) == IF a < b THEN a ELSE b    \* o2::gpu::CAMath::Min

\* The offsets of the vertices of a vertex vector grouped by ROF.
PVOffsets(pv) ==
  [i \in 1..(NRof + 1) |-> Cardinality({k \in DOMAIN pv : pv[k].rof < i - 1})]

VARIABLES
  mROFramesClusters,    \* layer -> offsets
  mNClustersPerROF,     \* layer -> clusters in each ROF
  mUsedClusters,        \* layer -> set of used cluster indices
  mPrimaryVertices,
  mROFramesPV,
  mMultiplicityCutMask,
  mROFMask,
  mTotVertPerIteration

vars == <<mROFramesClusters, mNClustersPerROF, mUsedClusters, mPrimaryVertices,
          mROFramesPV, mMultiplicityCutMask, mROFMask, mTotVertPerIteration>>

TypeOK ==
  /\ mUsedClusters \in [Layers -> SUBSET Nat]
  /\ mROFramesPV \in Seq(Nat) /\ Len(mROFramesPV) = NRof + 1
  /\ mMultiplicityCutMask \in Masks /\ mROFMask \in Masks
  /\ mTotVertPerIteration \in [1..NIter -> Nat]

\* A TimeFrame after initialise(): tables built, nothing used yet.
Init ==
  /\ mROFramesClusters \in ClusterTables
  /\ mNClustersPerROF = [l \in Layers |-> [r \in 1..NRof |->
                           mROFramesClusters[l][r + 1] - mROFramesClusters[l][r]]]
  /\ mUsedClusters = [l \in Layers |-> {}]
  /\ mPrimaryVertices \in InitVertices
  /\ mROFramesPV = PVOffsets(mPrimaryVertices)
  /\ mMultiplicityCutMask \in Masks
  /\ mROFMask \in Masks
  /\ mTotVertPerIteration = [i \in 1..NIter |-> 0]
-----------------------------------------------------------------------------
(* Const queries.                                                          *)

NClusters(l) == At(mROFramesClusters[l], NRof)

\* getClustersOnLayer(rofId, layerId) (also getUnsortedClustersOnLayer).
getClustersOnLayer(rof, l) ==
  IF rof < 0 \/ rof >= NRof THEN NoSpan
  ELSE Span(At(mROFramesClusters[l], rof),
            At(mROFramesClusters[l], rof + 1) - At(mROFramesClusters[l], rof))

\* getUsedClustersROF(rofId, layerId): the used flags of the ROF's clusters.
getUsedClustersROF(rof, l) ==
  LET s == getClustersOnLayer(rof, l)
  IN  [k \in 1..s.len |-> (s.start + k - 1) \in mUsedClusters[l]]

\* getClustersPerROFrange(rofMin, range, layerId).
getClustersPerROFrange(rofMin, range, l) ==
  IF rofMin < 0 \/ rofMin >= NRof THEN NoSpan
  ELSE LET st == At(mROFramesClusters[l], rofMin)
       IN  Span(st, At(mROFramesClusters[l], MinI(rofMin + range, NRof)) - st)

\* getROFramesClustersPerROFrange / getNClustersROFrange: spans of the
\* offset and count tables, of min(range, mNrof - rofMin) elements.
getNClustersROFrange(rofMin, range, l) ==
  SubSeq(mNClustersPerROF[l], rofMin + 1, rofMin + MinI(range, NRof - rofMin))

\* getTotalClustersPerROFrange(rofMin, range, layerId).
getTotalClustersPerROFrange(rofMin, range, l) ==
  At(mROFramesClusters[l], MinI(rofMin + range, NRof)) - At(mROFramesClusters[l], rofMin)

\* std::lower_bound over the offsets: the first position holding >= x.
LowerBound(s, x) ==
  LET ge == {i \in 0..(Len(s) - 1) : At(s, i) >= x}
  IN  IF ge = {} THEN Len(s) ELSE CHOOSE i \in ge : \A j \in ge : i <= j

\* Mutant: lower_bound of the cluster index itself.
getClusterROFNoInc(l, c) == LowerBound(mROFramesClusters[l], c) - 1

\* getClusterROF(iLayer, iCluster): the ROF whose slice holds the cluster.
getClusterROF(l, c) == LowerBound(mROFramesClusters[l], c + 1) - 1

\* isClusterUsed, getNumberOfUsedClusters.
isClusterUsed(l, c) == c \in mUsedClusters[l]
getNumberOfUsedClusters == MapThenSumSet(LAMBDA l : Cardinality(mUsedClusters[l]), Layers)

\* getPrimaryVertices(rofId): the ROF's slice, empty if the ROF is cut.
getPrimaryVertices(rof) ==
  LET start == At(mROFramesPV, rof)
      stop  == IF rof >= NRof - 1 THEN NRof ELSE rof + 1
      delta == IF At(mMultiplicityCutMask, rof) THEN At(mROFramesPV, stop) - start ELSE 0
  IN  SubSeq(mPrimaryVertices, start + 1, start + delta)

\* getPrimaryVertices(romin, romax): the slices of a ROF range, no cut.
getPrimaryVerticesRange(romin, romax) ==
  SubSeq(mPrimaryVertices, At(mROFramesPV, romin) + 1, At(mROFramesPV, romax + 1))

\* getPrimaryVerticesNum(rofId).
getPrimaryVerticesNum(rof) ==
  IF rof < 0 THEN Len(mPrimaryVertices)
  ELSE At(mROFramesPV, rof + 1) - At(mROFramesPV, rof)
-----------------------------------------------------------------------------
(* Members that change the tables.                                         *)

\* Mutant: the offsets are shifted from the vertex's own ROF on.
ShiftFromOwn(pv, rofId) == [i \in DOMAIN pv |-> IF i - 1 >= rofId THEN pv[i] + 1 ELSE pv[i]]

\* for (i = rofId + 1; i < mROFramesPV.size(); ++i) mROFramesPV[i]++
ShiftAfter(pv, rofId) == [i \in DOMAIN pv |-> IF i - 1 > rofId THEN pv[i] + 1 ELSE pv[i]]

\* insertPastVertex(vertex, iteration): insert at the start of the ROF's
\* slice, shift the later offsets, count the vertex for the iteration.
InsertPastVertex(v, it) ==
  /\ Len(mPrimaryVertices) < MaxPV
  /\ mPrimaryVertices' = InsertAt(mPrimaryVertices, At(mROFramesPV, v.rof) + 1, v)
  /\ mROFramesPV' = ShiftAfter(mROFramesPV, v.rof)
  /\ mTotVertPerIteration' = [mTotVertPerIteration EXCEPT ![it + 1] = @ + 1]
  /\ UNCHANGED <<mROFramesClusters, mNClustersPerROF, mUsedClusters,
                 mMultiplicityCutMask, mROFMask>>

\* markUsedCluster(layer, clusterId).
MarkUsedCluster(l, c) ==
  /\ mUsedClusters' = [mUsedClusters EXCEPT ![l] = @ \cup {c}]
  /\ UNCHANGED <<mROFramesClusters, mNClustersPerROF, mPrimaryVertices,
                 mROFramesPV, mMultiplicityCutMask, mROFMask, mTotVertPerIteration>>

MaskUnchanged == UNCHANGED <<mROFramesClusters, mNClustersPerROF, mUsedClusters,
                   mPrimaryVertices, mROFramesPV, mTotVertPerIteration>>

\* setMultiplicityCutMask, setROFMask, swapMasks.
SetMultiplicityCutMask(m) == mMultiplicityCutMask' = m /\ UNCHANGED mROFMask /\ MaskUnchanged
SetROFMask(m) == mROFMask' = m /\ UNCHANGED mMultiplicityCutMask /\ MaskUnchanged
SwapMasks ==
  /\ mMultiplicityCutMask' = mROFMask /\ mROFMask' = mMultiplicityCutMask
  /\ MaskUnchanged

Next ==
  \/ \E v \in VertexIds, it \in 0..(NIter - 1) : InsertPastVertex(v, it)
  \/ \E l \in Layers : \E c \in 0..(NClusters(l) - 1) : MarkUsedCluster(l, c)
  \/ \E m \in Masks : SetMultiplicityCutMask(m) \/ SetROFMask(m)
  \/ SwapMasks

\* The tracker calls these members in any order.
Spec == Init /\ [][Next]_vars
-----------------------------------------------------------------------------
(* Properties.                                                             *)

\* The vertices of one ROF, in vector order.
OfROF(r) == SelectSeq(mPrimaryVertices, LAMBDA v : v.rof = r)

\* After any sequence of insertions, the vertex queries give each ROF its
\* own vertices (none when the multiplicity cut excludes it), a ROF range
\* the vertices of its ROFs, and the counts agree with the vector.
PVQueriesExact ==
  /\ \A r \in ROFs :
       /\ getPrimaryVertices(r) = IF At(mMultiplicityCutMask, r) THEN OfROF(r) ELSE <<>>
       /\ getPrimaryVerticesNum(r) = Len(OfROF(r))
  /\ \A a, b \in ROFs : a <= b =>
       getPrimaryVerticesRange(a, b) = SelectSeq(mPrimaryVertices, LAMBDA v : a <= v.rof /\ v.rof <= b)
  /\ getPrimaryVerticesNum(-1) = Len(mPrimaryVertices)

\* The ROF of a cluster, by its slice.
InSlice(l, c, r) == r \in ROFs /\ At(mROFramesClusters[l], r) <= c /\ c < At(mROFramesClusters[l], r + 1)

\* The cluster queries agree with the slices, empty ROFs included: each
\* cluster's ROF is the one whose slice holds it, a ROF range from any
\* first ROF (the last ones and past them too) covers the slices of the
\* ROFs it names, and the three range queries give the same count.
ClusterQueriesExact ==
  \A l \in Layers :
    /\ \A c \in 0..(NClusters(l) - 1) : InSlice(l, c, getClusterROF(l, c))
    /\ \A r \in ROFs, n \in 0..(NRof + 1) :
         LET sp == getClustersPerROFrange(r, n, l)
         IN  /\ \A c \in sp.start..(sp.start + sp.len - 1) : getClusterROF(l, c) \in r..(r + n - 1)
             /\ \A c \in 0..(NClusters(l) - 1) :
                  getClusterROF(l, c) \in r..(r + n - 1) => c \in sp.start..(sp.start + sp.len - 1)
             /\ sp.len = getTotalClustersPerROFrange(r, n, l)
             /\ sp.len = FoldSeq(LAMBDA x, y : x + y, 0, getNClustersROFrange(r, n, l))
=============================================================================
