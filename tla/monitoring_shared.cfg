CONSTANTS
  n1 = n1
  p1 = p1
  p2 = p2
  Nodes = {n1}
  Peers = {p1, p2}
  Routers = {q1}
  NodeOf <- MCTwoPeers
  Requests = {r1}
  Kinds = {"delete_router"}
  ThePoll = ThePoll
  Conditions = {"up", "unreachable"}
  Shown <- MCEveryLink
  StaleAfter = 1
  DownAfter = 2
  NoHandshake = NoHandshake
  NotListed = NotListed
  NoRouter = NoRouter
  MaxCrashes = 0
SPECIFICATION Spec
PROPERTY LinksFollowAPeer
