\* The sizes of the default build; no instruction lies across the end of an area.
CONSTANTS
  Straight <- MCStraight
  Final <- MCFinal
  MaxCycles = 32
  Prologue = 38
  ExitBytes = 21
  CodeExitI = 960
  ExitCode = 33
  CodeBufSz = 1024
  b1 = b1
  b2 = b2
  w1 = w1
  w2 = w2
  w3 = w3
  r1 = r1
  s1 = s1
  s2 = s2
  Base = {b1, b2}
  Window = {w1, w2, w3}
  Ram = {r1}
  Straddling = {}
  Slots = {s1, s2}
  Slot <- MCSlot
  Banks = {k1, k2, k3}
  Contents = {m1, m2}
  FirstBank = k1
  None = None
SPECIFICATION ExecuteSpec
CHECK_DEADLOCK FALSE
INVARIANTS BufferSafe Closed CacheSound RamNotCached
PROPERTIES Finishes EntersFresh
