SPECIFICATION SiteSpec
CONSTANTS
  AdminPath = "admin"
  Username = {"administrator"}
  Typed <- MCTyped
  Tab = {t1}
  Id = {i1}
  NoId = NoId
  Life = 2
INVARIANT TokenLeadsToWizard
