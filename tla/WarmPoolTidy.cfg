SPECIFICATION Spec
CONSTANTS
  Key = {k1, k2}
  SandboxId = {s1, s2}
  Client = {c1}
  Low = 1
  High = 1
  Cap = 2
  MinIdle <- MCMinIdle
  MaxIdle <- MCMaxIdle
  MaxTotal <- MCMaxTotal
  Faults = TRUE
  Trims = TRUE
  Tidy = TRUE
CHECK_DEADLOCK FALSE
INVARIANTS TypeOK NoLostWakeup PooledAlive
PROPERTY LeaseSpec
