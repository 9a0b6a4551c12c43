\* Three steps of four entries over three servers. The system stops after MaxRounds.
CONSTANTS
  NbSrv = 3
  NEntry = 4
  Count = 2
  Burst = 2
  MaxAccesses = 6
  MaxRounds = 3
SPECIFICATION Spec
CHECK_DEADLOCK FALSE
INVARIANTS
  TypeOK
  WindowIsOwners
  LoadIsOwners
  NoTakerOvershoots
  OnlyGiverKeepsItsShare
  IdleEntriesStay
PROPERTIES
  ImplementsRelab
