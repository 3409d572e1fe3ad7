SPECIFICATION Spec
CONSTANTS
  Key = {k1}
  SandboxId = {s1, s2, s3}
  Client = {c1, c2}
  Low = 1
  High = 1
  Cap = 2
  MinIdle <- MCMinIdle
  MaxIdle <- MCMaxIdle
  MaxTotal <- MCMaxTotal
  Faults = TRUE
  Trims = TRUE
  Tidy = FALSE
SYMMETRY Symmetry
CHECK_DEADLOCK FALSE
INVARIANTS NoDoubleLease CapacityBound IdleBound NoImmortalOrphan
