SPECIFICATION Spec
CONSTANTS
  q1 = q1
  q2 = q2
  q3 = q3
  draft = draft
  submitted = submitted
  approved = approved
  published = published
  Update = Update
  Gone = Gone
  MayDelete = FALSE
  Requests = {q1}
  States = {draft, submitted, approved, published}
  Initial = draft
  Declared <- MCDeclared
  Rules <- ShadowBook
INVARIANT FiresAtMostOnce
