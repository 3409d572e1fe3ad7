SPECIFICATION Spec
CONSTANTS
  Key = {k1}
  SandboxId = {s1, s2, s3}
  Client = {c1}
  Low = 1
  High = 1
  Cap = 2
  MinIdle <- MCMinIdle
  MaxIdle <- MCMaxIdle
  MaxTotal <- MCMaxTotal
  Faults = FALSE
  Trims = TRUE
  Tidy = TRUE
CHECK_DEADLOCK FALSE
INVARIANT LeasedExpires
