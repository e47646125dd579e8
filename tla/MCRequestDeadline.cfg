SPECIFICATION Spec
CONSTANTS
  c1 = c1
  c2 = c2
  Absent = Absent
  Challenge = "realm"
  None = None
  Garbled = Garbled
  Calendar = Calendar
  Client <- TwoClients
  Users <- MCUsers
  Roles <- MCRoles
  Provider = "config"
  Extractors <- BasicHeaderJwt
  Handler <- Handlers
  Declared <- MCDeclared
  Config <- MCConfig
  Requests <- MCRequests
  XTimeouts <- MCXTimeouts
  MaxDrops = 1
PROPERTIES
  DeadlinePropagated
