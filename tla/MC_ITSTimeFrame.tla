---------------------------- MODULE MC_ITSTimeFrame ----------------------------
(* Two layers over three ROFs, with empty ROFs at the start, middle and end. *)
EXTENDS ITSTimeFrame

MCClusterTables ==
  { [l \in {0, 1} |-> IF l = 0 THEN <<0, 2, 2, 3>> ELSE <<0, 0, 1, 1>>],
    [l \in {0, 1} |-> IF l = 0 THEN <<0, 1, 3, 3>> ELSE <<0, 2, 2, 4>>] }

\* Vertices grouped by ROF, as the vertexer leaves them.
MCInitVertices == { <<>>, <<Vertex("a", 0), Vertex("b", 2)>> }

MCVertexIds == { Vertex("p", 0), Vertex("q", 1), Vertex("s", 2) }

MCMasks == { <<TRUE, TRUE, TRUE>>, <<TRUE, FALSE, TRUE>>, <<FALSE, TRUE, FALSE>> }
=============================================================================
