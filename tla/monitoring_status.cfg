CONSTANTS
  n1 = n1
  p1 = p1
  p2 = p2
  Nodes = {n1, n2}
  Peers = {}
  Routers = {}
  NodeOf <- MCNoPeer
  Requests = {r1}
  Kinds = {"add_node", "retry_init", "delete_node"}
  ThePoll = ThePoll
  Conditions = {"up", "down", "unreachable", "garbled"}
  Shown <- MCFewShown
  StaleAfter = 1
  DownAfter = 2
  NoHandshake = NoHandshake
  NotListed = NotListed
  NoRouter = NoRouter
  MaxCrashes = 0
SPECIFICATION FairSpec
PROPERTY StatusConverges
PROPERTY EveryNodePolled

