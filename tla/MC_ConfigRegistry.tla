--------------------------- MODULE MC_ConfigRegistry ---------------------------
(* A store with a scalar and a nested option, or with the scalar's name    *)
(* twice, then a vector option "v" and an array option "m".               *)
EXTENDS ConfigRegistry

Leaf(x) == Node(x, <<>>)

MCStore ==
  Node("", << Kid("a", Leaf("1")), Kid("g", Node("", <<Kid("x", Leaf("2"))>>)) >>)
MCStoreDup ==
  Node("", << Kid("a", Leaf("1")), Kid("a", Leaf("2")) >>)
MCStores == {MCStore, MCStoreDup}

MCKeys == { <<"a">>, <<"g", "x">>, <<"n">>, <<"n", "y">>, <<"v">>, <<"m">> }
MCProvs == { [k \in MCKeys |-> IF k = <<"a">> THEN "fairmq" ELSE "default"] }

MCVectors == { <<>>, <<"p">>, <<"p", "q">>, <<"q", "p", "p">> }
MCArrays == UNION { { Array(r, c, d) : d \in [1..(r * c) -> {"p", "q"}] } :
                     r \in 1..2, c \in 0..2 }
=============================================================================
