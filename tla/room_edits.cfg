CONSTANTS
  Customer = {c1, c2}
  Staff = {t1}
  Room = {r1}
  Key = {}
  None = None
  RoomsInStock = 2
  Stock <- MCStock
  MaxQty = 1
  MaxOps = 1
  MaxRetries = 1
  Ops = {"update"}
  Faults = FALSE
  RedisFaults = FALSE
  KeysExpire = FALSE
  OneAtATime = FALSE
  Editor = {e1}
  s1 = s1
  s2 = s2
  s3 = s3
  Service = {s1, s2, s3}
  ServiceLists <- TwoLists
  Totals <- AnyTotal
  Availables <- AnyAvailable
  MaxEdits = 1
  EditFaults = TRUE
SPECIFICATION InventorySpec
SYMMETRY Symmetry
INVARIANTS InventoryTypeOK EditsRespectReservations ServicesAreOneList
