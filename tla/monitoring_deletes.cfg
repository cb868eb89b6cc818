CONSTANTS
  n1 = n1
  p1 = p1
  p2 = p2
  Nodes = {n1}
  Peers = {p1}
  Routers = {q1}
  NodeOf <- MCOnePeer
  Requests = {r1, r2}
  Kinds = {"delete_node", "delete_router"}
  ThePoll = ThePoll
  Conditions = {"up", "unreachable"}
  Shown <- MCFewShown
  StaleAfter = 1
  DownAfter = 2
  NoHandshake = NoHandshake
  NotListed = NotListed
  NoRouter = NoRouter
  MaxCrashes = 0
SPECIFICATION FairSpec
INVARIANT TypeOK
INVARIANT NobodyWaitsLocked
PROPERTY GoneStaysGone
PROPERTY RequestsEnd
