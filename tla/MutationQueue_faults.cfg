SPECIFICATION Spec
CONSTANTS
  f1 = f1
  t1 = t1
  t2 = t2
  s1 = s1
  s2 = s2
  Fields <- OneField
  Tabs <- OneTab
  Slots <- TwoSlots
  BatchLimit = 2
  MaxEdits = 2
  MaxOthers = 1
  Faults <- OneTabFaults
INVARIANTS
  TypeOK
  AckedMeansApplied
  SavedWorkSurvives
CONSTRAINTS FewVersions OneTrouble
SYMMETRY SlotSymmetry
CHECK_DEADLOCK FALSE
