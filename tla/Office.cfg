CONSTANTS
  Workers = {w1, w2}
  Cards = {c1, c2}
  Places = {p0, p1}
  Equator = {p0}
  NoPlace = NoPlace
  Limits = {1, 2}
  MaxReports = 2
  Texts = {1, 2, 3}
  ListSize = 2
  FormIds = {1, 2}
  Submissions = {1, 2}
  Slugs = {1, 2}
  MaxVersions = 3
  MaxVisits = 2
  RoleIds = {1, 2}
  Names = {n1, n2}
  Permissions = {q1}
  Offices = {o1}
  NoOffice = NoOffice
  NoImage = NoImage
  Kinds = {k1}
  Values = {1, 2}
CHECK_DEADLOCK FALSE
SYMMETRY MCSymmetry
SPECIFICATION Spec
CONSTANT Workloads <- MCWorkloads
INVARIANTS TypeOK LocationsAgree ChatCacheAgrees  RoleNamesUnique ImagesExist
PROPERTIES  AnswersKept SystemRolesStay
