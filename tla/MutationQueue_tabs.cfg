SPECIFICATION FairSpec
CONSTANTS
  f1 = f1
  t1 = t1
  t2 = t2
  s1 = s1
  s2 = s2
  Fields <- OneField
  Tabs <- TwoTabs
  Slots <- OneSlot
  BatchLimit = 2
  MaxEdits = 2
  MaxOthers = 0
  Faults <- TabFaults
INVARIANTS
  AppliedAsTold
  EditsLandInOrder

  
CHECK_DEADLOCK FALSE
