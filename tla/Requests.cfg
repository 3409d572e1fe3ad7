CONSTANTS
  api = api
  pypi = pypi
  tmp = tmp
  app = app
  root = root
  Host = {api, pypi}
  Path = {tmp, app}
  KwPath = {tmp}
  Root = root
  Registry <- MCRegistry
  Tmp = tmp
  Name = {n1, n2}
  Caller = {c1, c2}
  Agent = {a1}
  MaxTime = 2
  MaxList = 2
  Codes <- MCCodes
  MaxOut = 4
  NoCode = NoCode
  NoRequest = NoRequest
  NoSession = NoSession
SPECIFICATION Spec
CHECK_DEADLOCK FALSE
INVARIANTS TypeOK Confined RunsWhereMade IntentServed IntentFrugal SessionKept ExitHonest
