CONSTANTS
  n1 = n1
  p1 = p1
  p2 = p2
  Nodes = {n1}
  Peers = {p1}
  Routers = {q1}
  NodeOf <- MCOnePeer
  Requests = {r1}
  Kinds = {}
  ThePoll = ThePoll
  Conditions = {"up", "down", "unreachable"}
  Shown <- MCShown
  StaleAfter = 1
  DownAfter = 2
  NoHandshake = NoHandshake
  NotListed = NotListed
  NoRouter = NoRouter
  MaxCrashes = 1
SPECIFICATION FairSpec
PROPERTY LinkConverges
