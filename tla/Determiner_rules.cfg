SPECIFICATION Spec
CONSTANTS
  Settings <- AllSettings
  Sync = sync
  Worker = worker
  Desk = desk
  MaxChanges = 2
  MaxFaults = 1
INVARIANTS QuietRoundDecides ExplanationAgrees
PROPERTIES NoFlipFlop FastAgreesWithPass
