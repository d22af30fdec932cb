SPECIFICATION SiteSpec
CONSTANTS
  AdminPath = "admin"
  Username = {"administrator"}
  Typed <- MCTyped
  Tab = {t1, t2}
  Id = {i1, i2}
  NoId = NoId
  Life = 2
INVARIANT SiteTypeOK
PROPERTIES NobodyOutstays RedirectsEnd
