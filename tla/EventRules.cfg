CONSTANTS
  u = u
  anon = anon
  none = none
  textU = textU
  textA = textA
  a = a
  b = b
  x = x
  y = y
  cel = cel
  bare = bare
  llm = llm
  loose = loose
  r1 = r1
  r2 = r2
  Requests = {r1, r2}
  Principals = {u, anon}
  Owners = {u, anon}
  Anonymous = anon
  None = none
  Text <- PrincipalText
  Values = {a, b}
  Outputs = {x, y}
  Rules <- RuleBook
  Computes = {cel, bare, llm, loose}
  Def <- Definitions
  Invoked <- ComputeRules
  EventPrincipal = none
  Stored <- Starts
  Bodies <- Posted
  MaxId = 1
  MaxFaults = 1
SPECIFICATION Spec
INVARIANTS TypeOK OwnerCounts AuditTrue ShownIsStored
CHECK_DEADLOCK FALSE
