SPECIFICATION FairSpec
CONSTANTS
  u1 = u1
  u2 = u2
  r1 = r1
  a1 = a1
  a2 = a2
  a3 = a3
  UserEntries = {u1, u2}
  RuleEntries = {r1}
  AgentEntries = {a1, a2, a3}
  Tried = {a2}
  Trigger <- MCTrigger
INVARIANTS
  TypeOK
  RealTimeOrder
  LossOnlyOnOverlap
  ReportsMatchStore
  CausalEvents
PROPERTIES
  ImplementsLog
  AppendCompletes
