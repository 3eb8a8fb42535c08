CONSTANTS
  ana = ana
  bea = bea
  cid = cid
  guest = guest
  north = north
  south = south
  Employees = {ana, bea, cid}
  Visitors = {guest}
  Suppliers = {north, south}
  First = ana
  Nobody = Nobody
  Rooms = {1, 2, 3}
  Messages = {1, 2, 3}
  Sockets = {s1, s2, s3}
  Workers = {w1, w2}
  PageSize = 1
  MaxTime = 2
  SupplierOf <- MCSupplierOf
CHECK_DEADLOCK FALSE
SPECIFICATION Spec
SYMMETRY MCSymmetry
CONSTANT Workloads <- MCWorkloads
INVARIANTS TypeOK TargetsJoined NothingMissed PagesComplete NoDuplicateRooms 
PROPERTIES PagesProgress
