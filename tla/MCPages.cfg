SPECIFICATION PagesSpec
CONSTANTS
  Nothing = Nothing
  Sessions <- MCSessions
  Dashboards <- MCDashboards
  UserPanels <- MCUserPanels
CHECK_DEADLOCK FALSE
INVARIANTS TokenOfTab DashboardAgrees UsersAgree
PROPERTIES PagesGoOn
