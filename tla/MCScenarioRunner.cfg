\* Two scenarios, three streams; every process may be late, die or be interrupted.
SPECIFICATION Spec
CONSTANTS
  normal = normal
  spoofed = spoofed
  flood = flood
  Stream = {normal, spoofed, flood}
  Scenarios <- MCScenarios
  Length <- MCLength
  interval <- MCInterval
  duration <- MCDuration
  start <- MCStart
  Kinds <- MCKinds
  workers = 1
  handshake_timeout = 1
  lead_in = 1
  margin = 2
  MaxInit = 1
  MaxLag = 3
  MaxCaptureInit = 2
  MaxOverrun = 0
INVARIANTS TypeOK PacedSends SummaryAccounts ScenariosApart
PROPERTIES MissedOnlyLate LabEnds
