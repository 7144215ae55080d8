SPECIFICATION ThreadsSpec
CONSTANTS
  t1 = t1  t2 = t2  m1 = m1
  p1 = p1  p2 = p2  p3 = p3
  n1 = n1  n2 = n2
  c1 = c1  c2 = c2  authm = authm
  Thread = {t1, t2, m1}
  Manager = {m1, authm, c1, c2}
  Handler = {m1}
  Caller = {c1, c2}
  Authm = authm
  Timed = {authm}
  Presents <- Parts
  Ptr = {p1, p2}
  Name = {n1, n2}
  OID <- TwoRows
  Action <- Actions
  FirstRows <- OneTable
  MaxPool = 1
  MaxActions = 2
  Ops = {"UPDATE"}
  Rash = {}
  MaxIds = 2
  Hasty = {}
  NoCaller = NoCaller
  Nobody = Nobody  Null = Null  NoName = NoName
  TIMER = TIMER  FINALIZE = FINALIZE  NoAction = NoAction
PROPERTY ActionsHandled
PROPERTY ThreadsReturn
INVARIANT RequestsAlive
\* Once its threads have their answers the part with drivers may stop.
CHECK_DEADLOCK FALSE
