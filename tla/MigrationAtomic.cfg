SPECIFICATION Spec
CONSTANTS
  v1 = v1
  v2 = v2
  v3 = v3
  orders = orders
  notes = notes
  rooms = rooms
  bookings = bookings
  tags = tags
  labels = labels
  colA = colA
  colB = colB
  colC = colC
  order1 = order1
  order2 = order2
  note1 = note1
  room1 = room1
  booking1 = booking1
  None = None
  Packages = {v1, v2, v3}
  Contents <- MCContents
  Columns = {colA, colB, colC}
  Rows = {order1, order2, note1, room1, booking1}
  Schema <- MCSchema
  Renames <- MCRenames
  Parent <- MCParent
  OnDelete <- MCOnDelete
  ContentOf <- MCContentOf
  RefOf <- MCRefOf
  SeedOf <- MCSeedOf
  Unacked = {v1}
  RiskyKinds = {"removed", "rebuild"}
  Orders <- MCOrders
  Legacy = v1
  Orphans = {note1}
  MaxFaults = 1
INVARIANT
  MigrationAtomic
