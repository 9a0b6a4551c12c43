\* Two redistributions of four entries over three servers. The system stops after MaxRounds.
CONSTANTS
  NbSrv = 3
  NEntry = 4
  Burst = 2
  MaxAccesses = 8
  MaxRounds = 2
SPECIFICATION Spec
CHECK_DEADLOCK FALSE
INVARIANTS
  TypeOK
  OwnerHasLastWord
  NoOvershoot
  IdleEntriesStay
PROPERTIES
  ImplementsRelab
