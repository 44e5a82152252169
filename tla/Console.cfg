SPECIFICATION Spec
CONSTANTS
  Users <- MCUsers
  Targets <- MCTargets
  Channels <- MCChannels
  Windows <- MCWindows
  Incidents <- MCIncidents
  Slots = {r1, r2}
  Asks <- MCAsks
  Tables <- MCTables
  None = None
  MaxFaults = 1
SYMMETRY Symmetry
CHECK_DEADLOCK FALSE
INVARIANT WholeTargets
PROPERTY AuditTells
PROPERTY KeepsUnnamed
PROPERTY OffersAdmitted
PROPERTY MembersConfined
