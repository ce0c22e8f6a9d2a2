SPECIFICATION FairSpec
CONSTANTS
  MaxTurns = 3
  AuditLevel = "actions"
  Batches <- MCBatches
INVARIANTS
  TypeOK
  Outcomes
  CallsAnswered
  BubbleResolved
PROPERTIES
  OnlyRefusalAfterRefusing
  InvocationEnds
