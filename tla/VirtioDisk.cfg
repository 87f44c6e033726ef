SPECIFICATION Spec
CONSTANTS
  Proc = {p1, p2, p3}
  NUM = 7
  UINT16 = 14
  Nobody = Nobody
  Intr = Intr
INVARIANTS
  WellFormed
  DeviceOwnsBuffer
  CompletionNoticed
  SleepIsJustified
