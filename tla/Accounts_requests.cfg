SPECIFICATION Spec
CONSTANTS
  n1 = n1
  n2 = n2
  root = root
  ann = ann
  Networks = {n1, n2}
  Authenticated = {n1}
  Names = {root, ann}
  Root <- OneRoot
  Requests = {r1, r2}
  Boot = Boot
  None = None
  MaxFails = 1
  MaxCrashes = 1
SYMMETRY RequestSymmetry
VIEW View
INVARIANTS RootAdminStays BoundedUsers
PROPERTIES ChangesByAdmin
