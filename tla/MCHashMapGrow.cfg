SPECIFICATION Spec
CONSTANTS
  Keys <- GrowKeys
  Vals = {v1}
  Absent = Absent
  NoKey = 0
  Hash <- GrowHash
  InitCap = 8
  MaxCap = 16
INVARIANTS
  EmptySlotRemains
  TrapOnlyWhenDestroyed
