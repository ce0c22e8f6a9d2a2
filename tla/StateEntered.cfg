SPECIFICATION FairSpec
CONSTANTS
  q1 = q1
  q2 = q2
  q3 = q3
  draft = draft
  submitted = submitted
  approved = approved
  published = published
  Update = Update
  Gone = Gone
  MayDelete = TRUE
  Requests = {q1, q2, q3}
  States = {draft, submitted, approved, published}
  Initial = draft
  Declared <- MCDeclared
  Rules <- CascadeBook
INVARIANTS
  TypeOK
  FiresExactlyOnce
PROPERTIES
  StateChangesDeclared
  RequestCompletes
