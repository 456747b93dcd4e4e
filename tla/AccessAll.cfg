SPECIFICATION Spec
CONSTANTS
    Props <- MCProps
    Lower <- MCLower
    Ids = {u1, u2}
    Names <- MCNames
    Passwords <- MCPasswords
    RoleNames <- MCRoleNames
    RoleLists <- MCRoleLists
    Departments <- MCDepartments
    Calls = {c1}
    Requests = {r1, r2}
    Questions <- MCQuestions
    Statements <- MCStatements
    Writes <- MCWrites
    Rows <- MCRows
    Nobody <- MCNobody
    NoStatement <- MCNoStatement
    AccessLife = 1
    RefreshLife = 2
    MaxClock = 2
    MaxEdits = 2
    MaxTokens = 3
SYMMETRY RequestSymmetry
INVARIANTS
  RolesRecent
  ColumnsAreGranted
  ToldWithinLimits
  RolesAddUp
PROPERTIES
  RoleGainKeeps
CHECK_DEADLOCK FALSE
