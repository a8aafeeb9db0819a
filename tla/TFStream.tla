------------------------------ MODULE TFStream -------------------------------
(***************************************************************************)
(* What the CTF reader promises downstream, without the fetcher's queue,   *)
(* the open tree or the selections: the files are fetched one after the    *)
(* other, and the TFs sent form one stream in which every TF is an         *)
(* existing entry of a file already fetched, within the per-file budget,   *)
(* later in (file, entry) order than every TF before it and carrying a     *)
(* larger TF counter.                                                       *)
(***************************************************************************)
EXTENDS Naturals, Sequences

CONSTANTS
  Size(_),     \* Size(n): entries of the tree of the file of the n-th fetch
  MaxFetches,  \* the fetches over all loops
  PerFile      \* the per-file budget of TFs (max-tf-per-file)

VARIABLES
  fetched,     \* fetches done (made available, or failed)
  out          \* the TFs sent, in order

absVars == <<fetched, out>>

\* A TF sent: the fetch of its file, its entry in the tree, its TF counter.
TF == [item : Nat \ {0}, entry : Nat, id : Nat]

\* b comes after a in the stream.
Follows(a, b) ==
  /\ \/ a.item < b.item
     \/ a.item = b.item /\ a.entry < b.entry
  /\ a.id < b.id

Init ==
  /\ fetched = 0
  /\ out = <<>>

\* The next fetch.
Fetch ==
  /\ fetched < MaxFetches
  /\ fetched' = fetched + 1
  /\ UNCHANGED out

\* A TF of a fetched file, t, is sent after all the TFs sent before.
\* (t is named as the last TF of out', so that no TF need be enumerated.)
Emit ==
  /\ out' # <<>>
  /\ LET t == out'[Len(out')]
     IN  /\ out' = Append(out, t)
         /\ t \in TF
         /\ t.item <= fetched
         /\ t.entry < Size(t.item) /\ t.entry < PerFile
         /\ out # <<>> => Follows(out[Len(out)], t)
  /\ UNCHANGED fetched

Next == Fetch \/ Emit

Spec == Init /\ [][Next]_absVars

\* The stream is strictly ordered: no TF is sent twice, none out of order.
StreamOrdered ==
  \A i, j \in DOMAIN out : i < j => Follows(out[i], out[j])
=============================================================================
