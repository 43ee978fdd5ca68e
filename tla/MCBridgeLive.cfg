SPECIFICATION FairSpec
CHECK_DEADLOCK FALSE
CONSTANTS
  d1 = d1
  d2 = d2
  dbad = dbad
  t1 = t1
  t2 = t2
  n1 = n1
  vin = vin
  nin = nin
  oout = oout
  nout = nout
  rule = rule
  bal = bal
  alice = alice
  superuser = superuser
  encoded = encoded
  aliceUp = aliceUp
  aliceDown = aliceDown
  superUp = superUp
  left = left
  right = right
  leftRight = leftRight
  pAll = pAll
  pAlice = pAlice
  secret = secret
  wrong = wrong
  uuid = uuid
  flow = flow
  pass = pass
  s1 = s1
  s2 = s2
  NoText = NoText
  Decoded <- MCDecoded
  NoName = NoName
  NoId = NoId
  NoAuth = NoAuth
  NoClient = NoClient
  Nothing = Nothing
  Absent = Absent
  Domain <- MCDomain
  InvalidDomain <- MCInvalidDomain
  Token <- MCToken
  Name <- MCName
  Id <- MCId
  Matches <- MCMatches
  UserStats <- MCUserStats
  IdPart <- MCIdPart
  AllUsers = pAll
  Accepts <- MCAccepts
  RefusalErrors <- OneError
  TransportErrors <- OneError
  BridgeToken = secret
  ConfigInbound = {vin}
  ConfigOutbound = {oout}
  ConfigRule = {rule}
  Nodes <- OneNode
  Inputs <- UserInputs
  Request = {r1, r2}
  Chan = {c1, c2, c3}
  MaxEntries = 1
  Counted = {}
  MaxTraffic = 0
  MaxRestarts = 0
PROPERTIES
  HandlersProceed
  RepliesAreDelivered
