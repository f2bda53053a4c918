SPECIFICATION HubSpec
CONSTANTS
  Nodes = {n1,n2}
  Owners = {n2}
  Connectors = {n1}
  Links = {l1,l2}
  NodeConns = {w1}
  CtrlConns = {k1,k2}
  NoConn = NoConn
  NoNode = NoNode
  NoLink = NoLink
  MaxInbox = 1
  MaxRemovals = 1
PROPERTIES NodeOutlivesItsLinks
CHECK_DEADLOCK FALSE
