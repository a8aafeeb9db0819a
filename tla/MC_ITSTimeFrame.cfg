CONSTANTS
  Layers = {0, 1}
  NRof = 3
  NIter = 2
  MaxPV = 4
  ClusterTables <- MCClusterTables
  InitVertices <- MCInitVertices
  VertexIds <- MCVertexIds
  Masks <- MCMasks
SPECIFICATION Spec
INVARIANTS
  PVQueriesExact
  ClusterQueriesExact
