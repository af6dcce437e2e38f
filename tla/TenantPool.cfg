SPECIFICATION FairSpec
CONSTANTS
  Companies = {c1, c2}
  Refreshes = {f1, f2}
  Services = {i1, i2, i3}
  NoCompany = NoCompany
  NoService = NoService
INVARIANTS
  TypeOK
  OneExecutivePerCompany
PROPERTIES
  FollowsCompanies
