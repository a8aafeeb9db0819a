-------------------------- MODULE MC_CTPDigitReader --------------------------
(***************************************************************************)
(* Small instance of CTPDigitReader: trees of up to three entries over     *)
(* interaction records 1..8, and every driver of up to three calls whose   *)
(* frame lists are in increasing order, ending with or without isLast.     *)
(***************************************************************************)
EXTENDS CTPDigitReader

\* Entries straddle frame boundaries; in increasing order across entries.
\* One tree has an entry without digits between two that have some.
MCTrees == { << <<1, 2>>, <<3, 5>>, <<6, 8>> >>,
             << <<2, 4, 7>> >>,
             << <<1>>, <<5>>, <<6, 7>> >>,
             << <<1, 2>>, << >>, <<5, 7>> >> }

\* Frame lists of one call: one or two frames, or none.
MCLists == { <<Frame(1, 2, FALSE)>>, <<Frame(2, 3, FALSE), Frame(5, 5, FALSE)>>,
             <<Frame(4, 6, FALSE)>>, <<Frame(7, 8, FALSE)>>, << >> }

Lst(fl) == fl[Len(fl)]
\* Successive non-empty lists are in increasing order.
Increasing(s) ==
  \A i, j \in DOMAIN s : i < j /\ s[i] # <<>> /\ s[j] # <<>> =>
     Lst(s[i]).max < s[j][1].min

\* The last frame of the last call may carry isLast.
MarkLast(s) ==
  IF s = <<>> \/ Lst(s) = <<>> THEN s
  ELSE [s EXCEPT ![Len(s)][Len(s[Len(s)])].last = TRUE]

MCDrivers ==
  LET inc == {s \in UNION {[1..n -> MCLists] : n \in 0..3} : Increasing(s)}
  IN  inc \cup {MarkLast(s) : s \in inc}
=============================================================================
