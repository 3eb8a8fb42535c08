CONSTANTS
  Employees <- EmployeeIds
  Suppliers = {s1}
  Workers = {w1, w2}
  Secrets = {k1, k2}
  NoSecret = NoSecret
  BackupCodes = {b1}
  Links = {l1, l2, l3}
  NoLink = NoLink
  OtpCodes = {o1, o2}
  MaxAttempts = 2
  MaxFailures = 5
CHECK_DEADLOCK FALSE
SPECIFICATION Spec
SYMMETRY MCSymmetry
CONSTANT Workloads <- MCWorkloads
INVARIANTS TypeOK AtLimitIsLocked FailuresCounted LastPasswordHolds EnabledHasSecret CodesOnce  NothingHalfCreated
