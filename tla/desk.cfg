SPECIFICATION SpecMC
CONSTANTS
  Off = Off
  Servers = {s1, s2}
  Ids = {1, 2}
  Agents = {ann, ben}
  Properties = {flat, house}
  Prospects = {cy, di}
  Keys = {key}
  NoKey = NoKey
  Requests = {r1, r2}
  MaxTime = 3
  MaxAsks = 2
  Nobody = Nobody
  SyncedChats = {chat}
  Alias = alias
  ChatLimit = 1
  MessageLimit = 2
  InboxRows = 3
  PageRows = 1
  CatchUpRows = 1
  OldFiles = {1, 2, 3}
  NewFiles = {4}
  BatchFiles = 1
  Managers = {mia}
  Ttl = 2
  MaxEvents = 3
  Steps = {p1, p2}
  Rota = {1, 2}
  NewChats = {1, 2}
  MaxOpen = 0
  LabelIds = {1, 2}
  LabelNames = {hot, cold}
  Absent = Absent
  ListingManagers = {ann}
  ListingAgent = ben
  Fields = {price, place}
  LastTime = 5
  MaxMessages = 2
  MaxActs = 1
  MaxChanges = 2
  MaxFaults = 1
INVARIANTS
  TypeOKMC SaidOnce PagesMissNothing TakenBack ShownAsItIs HeardInOrder
  OneOpenLead TurnsAreEven NeverTwiceAtOnce
CHECK_DEADLOCK FALSE
