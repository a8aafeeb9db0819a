---------------------------- MODULE ConfigRegistry ----------------------------
(***************************************************************************)
(* The option registry of a DPL device (src/Framework/Core/src/           *)
(* ConfigParamRegistry.cxx, include/Framework/ConfigParamRegistry.h) over  *)
(* the boost property tree its ConfigParamStore holds, and the helpers     *)
(* that store vectors and 2D arrays in such a tree and read them back      *)
(* (include/Framework/VariantPropertyTreeHelpers.h).                       *)
(*                                                                         *)
(* A tree node is its data string and its children, a sequence of (name,   *)
(* subtree) pairs in insertion order, duplicates allowed, as in a ptree.   *)
(* A key is the sequence of its '.'-separated segments.  Strings are model *)
(* values; the element type of vectors and arrays is std::string, for      *)
(* which put("", x) and get_value<std::string>() keep the text as it is.   *)
(* ConfigParamStore (not in the tree) builds the initial tree and the      *)
(* provenance of each option; the registry's override() is the only call   *)
(* here that changes it.                                                   *)
(***************************************************************************)
EXTENDS Integers, Sequences

CONSTANTS
  Stores,     \* trees ConfigParamStore may have built, scalar options
  VecKey,     \* the name of a std::vector<std::string> option
  ArrKey,     \* the name of an Array2D<std::string> option
  Provs,      \* provenance functions key -> "default", "fairmq", ...
  Keys,       \* keys the device asks for or overrides
  Vals,       \* strings override() may store
  MaxDepth,   \* bound on key length
  TestVectors,\* values the vector and the array option may be stored with
  TestArrays

ASSUME ConfigRegistryAssumption ==
  /\ MaxDepth \in Nat \ {0}
  /\ Keys \subseteq Seq(STRING)
  /\ \A k \in Keys : Len(k) \in 1..MaxDepth

Node(d, kids) == [data |-> d, kids |-> kids]
Kid(n, t) == [name |-> n, sub |-> t]
EmptyNode == Node("", <<>>)

\* The position of the first child named n (0 when none): ptree::find.
FirstChild(t, n) ==
  LET js == {j \in DOMAIN t.kids : t.kids[j].name = n}
  IN  IF js = {} THEN 0 ELSE CHOOSE j \in js : \A i \in js : j <= i

\* The nodes along a path: found[i] tells whether the first i segments
\* lead to a node, at[i] is that node (an empty one when not found).
Walk(t, path) ==
  LET w[i \in 0..Len(path)] ==
        IF i = 0 THEN [found |-> TRUE, at |-> t]
        ELSE LET j == IF w[i - 1].found THEN FirstChild(w[i - 1].at, path[i]) ELSE 0
             IN  IF j = 0 THEN [found |-> FALSE, at |-> EmptyNode]
                 ELSE [found |-> TRUE, at |-> w[i - 1].at.kids[j].sub]
  IN  w

\* get_child_optional(path): the node, if the path leads to one.
GetChild(t, path) == Walk(t, path)[Len(path)]

\* Mutant: put() adds a new leaf instead of replacing the first one (add()).
PutAdd(t, path, v) ==
  LET w == Walk(t, path)
      u[i \in 0..Len(path)] ==
        IF i = Len(path) THEN Node(v, <<>>)
        ELSE LET j == IF w[i].found THEN FirstChild(w[i].at, path[i + 1]) ELSE 0
             IN  IF j = 0 \/ i + 1 = Len(path)
                   THEN [w[i].at EXCEPT !.kids = Append(@, Kid(path[i + 1], u[i + 1]))]
                   ELSE [w[i].at EXCEPT !.kids[j].sub = u[i + 1]]
  IN  u[0]

\* put(path, v): set the data of the node the path leads to, creating the
\* missing nodes at the end of their parents' children.
Put(t, path, v) ==
  LET w == Walk(t, path)
      u[i \in 0..Len(path)] ==
        IF i = Len(path) THEN [w[i].at EXCEPT !.data = v]
        ELSE LET j == IF w[i].found THEN FirstChild(w[i].at, path[i + 1]) ELSE 0
             IN  IF j = 0 THEN [w[i].at EXCEPT !.kids = Append(@, Kid(path[i + 1], u[i + 1]))]
                 ELSE [w[i].at EXCEPT !.kids[j].sub = u[i + 1]]
  IN  u[0]

\* The data of each child, in order (basicVectorFromBranch).
KidsData(t) == [i \in DOMAIN t.kids |-> t.kids[i].sub.data]

\* basicVectorToBranch, vectorToBranch: leaves named "" under "values".
BasicVectorToBranch(x) == Node("", [i \in DOMAIN x |-> Kid("", Node(x[i], <<>>))])
VectorToBranch(x) == Node("", <<Kid("values", BasicVectorToBranch(x))>>)

\* An Array2D: rows, cols and the row-major data.
Array(r, c, d) == [rows |-> r, cols |-> c, data |-> d]

\* basicArray2DToBranch, array2DToBranch: one "" child per row.
BasicArray2DToBranch(a) ==
  Node("", [i \in 1..a.rows |->
    Kid("", BasicVectorToBranch([j \in 1..a.cols |-> a.data[(i - 1) * a.cols + j]]))])
Array2DToBranch(a) == Node("", <<Kid("values", BasicArray2DToBranch(a))>>)

\* The elements of all rows, row after row (the cache).
Flatten(t) ==
  LET n == Len(t.kids)
      c[i \in 0..n] == IF i = 0 THEN <<>> ELSE c[i - 1] \o KidsData(t.kids[i].sub)
  IN  c[n]

\* Mutant: the column count is taken from the number of rows.
BasicArray2DFromBranchRows(t) ==
  Array(Len(t.kids), Len(t.kids), Flatten(t))

\* basicArray2DFromBranch: rows from the branch, columns from its first row.
BasicArray2DFromBranch(t) ==
  Array(Len(t.kids), IF t.kids = <<>> THEN 0 ELSE Len(t.kids[1].sub.kids), Flatten(t))

\* An outcome of get<T>(key): the value, or the invalid_argument it throws.
Ok(x) == [ok |-> TRUE, val |-> x]
Missing == [ok |-> FALSE, val |-> "invalid_argument"]

\* get_child("values") of a node, then a reader of the branch.
ValuesOf(t) == GetChild(t, <<"values">>)

\* get<std::string>(key): the node's data.
GetStringAt(t, k) ==
  LET n == GetChild(t, k) IN IF n.found THEN Ok(n.at.data) ELSE Missing

\* get<std::vector<std::string>>(key): vectorFromBranch(get_child(key)).
GetVectorAt(t, k) ==
  LET n == GetChild(t, k)
  IN  IF n.found /\ ValuesOf(n.at).found THEN Ok(KidsData(ValuesOf(n.at).at)) ELSE Missing

\* get<Array2D<std::string>>(key): array2DFromBranch(get_child(key)).
GetArrayAt(t, k) ==
  LET n == GetChild(t, k)
  IN  IF n.found /\ ValuesOf(n.at).found THEN Ok(BasicArray2DFromBranch(ValuesOf(n.at).at))
      ELSE Missing

VARIABLES
  store,   \* mStore->store()
  prov,    \* mStore->provenance
  written, \* history: the vector and the array the options were stored with
  last     \* history: the key and value of the last override

vars == <<store, prov, written, last>>

\* isSet: store().count(key) counts the root's children named by the whole
\* key string, which no child of a dotted key's path is.
isSet(k) == Len(k) = 1 /\ FirstChild(store, k[1]) # 0
hasOption(k) == GetChild(store, k).found
isDefault(k) == isSet(k) /\ prov[k] # "default"

TypeOK == store.data \in STRING /\ prov \in [Keys -> STRING]

\* The store as ConfigParamStore leaves it: the scalar options, then the
\* vector and the array option written with vectorToBranch and
\* array2DToBranch.
Init ==
  /\ \E base \in Stores, x \in TestVectors, a \in TestArrays :
       /\ store = [base EXCEPT !.kids = @ \o <<Kid(VecKey, VectorToBranch(x)),
                                              Kid(ArrKey, Array2DToBranch(a))>>]
       /\ written = [vec |-> x, arr |-> a]
  /\ prov \in Provs
  /\ last = [k |-> <<>>, v |-> ""]

\* override(key, val): store().put(key, val).
Override(k, v) ==
  /\ store' = Put(store, k, v)
  /\ last' = [k |-> k, v |-> v]
  /\ UNCHANGED <<prov, written>>

Next == \E k \in Keys, v \in Vals : Override(k, v)

Spec == Init /\ [][Next]_vars
-----------------------------------------------------------------------------
(* Properties.                                                             *)

IsPrefix(p, k) == Len(p) <= Len(k) /\ SubSeq(k, 1, Len(p)) = p

\* An override is read back by get<std::string> at once, and changes what
\* no other query sees: every key that is not a path prefix of the
\* overridden one reads the same string, and every key reads the same
\* vector and the same 2D array, whatever duplicates or nesting the store
\* holds.
OverrideIsolated ==
  [][LET k == last'.k
     IN  /\ GetStringAt(store', k) = Ok(last'.v)
         /\ \A k2 \in Keys :
              /\ ~IsPrefix(k2, k) => GetStringAt(store', k2) = GetStringAt(store, k2)
              /\ GetVectorAt(store', k2) = GetVectorAt(store, k2)
              /\ GetArrayAt(store', k2) = GetArrayAt(store, k2)]_vars

\* The vector and the 2D array options read back, through get<T>, what the
\* helpers stored, elements, rows and columns in order, whatever was
\* overridden since (arrays of at least one row).
RoundTrip ==
  /\ GetVectorAt(store, <<VecKey>>) = Ok(written.vec)
  /\ GetArrayAt(store, <<ArrKey>>) = Ok(written.arr)
=============================================================================
