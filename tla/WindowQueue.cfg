\* A ring of four slots, which wraps several times between resets.
CONSTANTS
  Count = 4
  Values = {0, 1, 5}
SPECIFICATION Spec
INVARIANTS
  TypeOK
  MeanOfElements
PROPERTIES
  KeepsLastValues
