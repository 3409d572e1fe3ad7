SPECIFICATION FairSpec
CONSTANTS
  Key = {k1}
  SandboxId = {s1, s2, s3}
  Client = {c1}
  Low = 2
  High = 2
  Cap = 3
  MinIdle <- MCMinIdle
  MaxIdle <- MCMaxIdle
  MaxTotal <- MCMaxTotal
  Faults = FALSE
  Trims = FALSE
  Tidy = TRUE
CHECK_DEADLOCK FALSE
PROPERTY SignalledRefilled
