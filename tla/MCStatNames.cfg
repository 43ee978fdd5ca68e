SPECIFICATION Spec
CONSTANTS
  None = None
  MaxCounters = 2
  Piece <- MCPiece
  Ident <- MCIdent
  Metric <- MCMetric
INVARIANTS
  PartsAreTheName
  FieldsTellApart
  ListsTheUsers
