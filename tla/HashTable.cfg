SPECIFICATION Spec
CONSTANTS
  k1 = k1
  k2 = k2
  k3 = k3
  k4 = k4
  Keys = {k1, k2, k3, k4}
  Values = {0, 7}
  Slots = {0, 1}
  SlotOf <- MCSlotOf
  Null = Null
  NoValue = 0
  Absent = Absent
INVARIANTS TypeOK OneEntryPerKey ThreadVisitsEveryEntry
PROPERTIES EntriesStay ImplementsOrderedMap
