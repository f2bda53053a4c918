----------------------------- MODULE FabricHub -----------------------------
(***************************************************************************)
(* relayd's links between Controllers and Nodes, with the Node end:        *)
(*   - relay/fabric_hub.go: the tables of node sockets and of links, and   *)
(*     the goroutines that serve them.  A method is its critical section   *)
(*     (one action) followed by what it does after the unlock (closing     *)
(*     sockets, notifying nodes), which interleaves with everything;       *)
(*   - directory/server.go: the presence a node's socket keeps in the      *)
(*     store, and the removal of a node;                                   *)
(*   - relay-transport/node-connector.ts: the sessions a Node keeps per    *)
(*     link and the socket it reopens.                                     *)
(*                                                                         *)
(* Frames carry only their link; queues between the ends are sequences,    *)
(* their budgets are PeerScheduler's.                                      *)
(***************************************************************************)
EXTENDS Naturals, Sequences, SequencesExt, FiniteSets

CONSTANTS Nodes, Owners,      \* node ids; ids of link owners (a node may own links)
          Connectors,         \* the nodes whose relay connector runs
          Links,              \* link ids, each opened at most once
          NodeConns, CtrlConns,  \* sockets, each accepted at most once
          NoConn, NoNode, NoLink,
          MaxInbox,           \* bound: frames on the way to a node
          MaxRemovals         \* bound: nodes that are removed

ASSUME FabricHubAssumption ==
    /\ NoConn \notin NodeConns \cup CtrlConns
    /\ NoNode \notin Nodes /\ NoLink \notin Links
    /\ IsFiniteSet(Links)
    /\ MaxInbox \in Nat \ {0}

VARIABLES nodes,      \* h.nodes: per node id its registered socket
          links,      \* h.links: per link "absent", "open" or "gone" with its ends
          nodeConn,   \* per node socket: its handler
          ctrlConn,   \* per controller socket: its handler
          closed,     \* sockets on which close was called at either end
          tasks,      \* what methods still do after their unlock
          inbox,      \* per node socket: frames on their way to the node
          sessions,   \* node-connector: per node and link, its session
          enrolled,   \* rows of the store's nodes table
          presence    \* status column of those rows

hubTables == <<nodes, links>>
hubVars   == <<nodes, links, nodeConn, ctrlConn, closed, tasks, inbox,
               sessions, enrolled, presence>>

NoLinkRecord == [state |-> "absent", node |-> NoNode, owner |-> NoNode, ctrl |-> NoConn]

HubInit ==
    /\ nodes = [n \in Nodes |-> NoConn]
    /\ links = [l \in Links |-> NoLinkRecord]
    /\ nodeConn = [c \in NodeConns |-> [pc |-> "unused", node |-> NoNode]]
    /\ ctrlConn = [k \in CtrlConns |-> [pc |-> "unused", link |-> NoLink]]
    /\ closed = {}
    /\ tasks = {}
    /\ inbox = [c \in NodeConns |-> <<>>]
    /\ sessions = [n \in Nodes |-> [l \in Links |-> "none"]]
    /\ enrolled = Nodes
    /\ presence = [n \in Nodes |-> "offline"]

IsOpen(l) == links[l].state = "open"

-----------------------------------------------------------------------------
(* Work after the unlock: a sequence of effects per call.                  *)

Close(k)        == [do |-> "close", conn |-> k, kind |-> "", link |-> NoLink]
Notify(c, m, l) == [do |-> "notify", conn |-> c, kind |-> m, link |-> l]

Spawn(T) == tasks' = tasks \cup (T \ {<<>>})

(* Mutated form: a link without a controller is not considered.            *)
ClosesUnchecked(l) == <<Close(links[l].ctrl)>>

CloseCtrl(l)      == IF links[l].ctrl \in closed \cup {NoConn} THEN <<>>
                     ELSE <<Close(links[l].ctrl)>>
TellNode(n, m, l) == IF nodes[n] \in closed \cup {NoConn} THEN <<>>
                     ELSE <<Notify(nodes[n], m, l)>>

(* Frames on their way through a socket are lost with it.                  *)
CloseSockets(S) ==
    /\ closed' = closed \cup S
    /\ inbox' = [c \in NodeConns |-> IF c \in S THEN <<>> ELSE inbox[c]]

(* enqueueControl gives up after a second: the notice may be lost.         *)
RunTask ==
    \E t \in tasks :
      /\ tasks' = IF Len(t) = 1 THEN tasks \ {t} ELSE (tasks \ {t}) \cup {Tail(t)}
      /\ \/ /\ Head(t).do = "close"
            /\ CloseSockets({Head(t).conn})
         \/ /\ Head(t).do = "notify"
            /\ \/ UNCHANGED inbox
               \/ /\ Head(t).conn \notin closed
                  /\ Len(inbox[Head(t).conn]) < MaxInbox
                  /\ inbox' = [inbox EXCEPT ![Head(t).conn] =
                                  Append(@, [kind |-> Head(t).kind, link |-> Head(t).link])]
            /\ UNCHANGED closed
      /\ UNCHANGED <<hubTables, nodeConn, ctrlConn, sessions, enrolled, presence>>

-----------------------------------------------------------------------------
(* A node's socket: nodeWebSocket, HandleNode, dropNode                    *)

Ended(c) == c \in closed

(* Sockets are all alike: a new one is any that was not used yet.          *)
Unused(conn) == {c \in DOMAIN conn : conn[c].pc = "unused"}
Fresh(conn)  == CHOOSE c \in DOMAIN conn : conn[c].pc = "unused"

(* The connector has one socket at a time; relayd may not have seen yet    *)
(* that the previous one ended.  NodeExists is read before the upgrade.    *)
NodeDials(n) ==
    /\ Unused(nodeConn) # {}
    /\ n \in enrolled \cap Connectors
    /\ \A c \in NodeConns : nodeConn[c].node = n => Ended(c)
    /\ nodeConn' = [nodeConn EXCEPT ![Fresh(nodeConn)] = [pc |-> "accepted", node |-> n]]
    /\ UNCHANGED <<hubTables, ctrlConn, closed, tasks, inbox, sessions, enrolled, presence>>

NodeMarkedOnline(c) ==
    LET n == nodeConn[c].node
    IN  /\ nodeConn[c].pc = "accepted"
        /\ IF n \in enrolled
           THEN /\ presence' = [presence EXCEPT ![n] = "online"]
                /\ nodeConn' = [nodeConn EXCEPT ![c].pc = "online"]
                /\ UNCHANGED <<closed, inbox>>
           ELSE /\ nodeConn' = [nodeConn EXCEPT ![c].pc = "done"]
                /\ CloseSockets({c})
                /\ UNCHANGED presence
        /\ UNCHANGED <<hubTables, ctrlConn, tasks, sessions, enrolled>>

(* HandleNode: one socket per node; a second one is turned away, and its   *)
(* handler goes on to mark the node offline.                               *)
HandleNode(c) ==
    LET n == nodeConn[c].node
    IN  /\ nodeConn[c].pc = "online"
        /\ IF nodes[n] = NoConn
           THEN /\ nodes' = [nodes EXCEPT ![n] = c]
                /\ nodeConn' = [nodeConn EXCEPT ![c].pc = "serving"]
                /\ UNCHANGED <<closed, inbox>>
           ELSE /\ nodeConn' = [nodeConn EXCEPT ![c].pc = "leaving"]
                /\ CloseSockets({c})
                /\ UNCHANGED nodes
        /\ UNCHANGED <<links, ctrlConn, tasks, sessions, enrolled, presence>>

(* The node gives the socket up, or the network does.                      *)
NodeConnLost(c) ==
    /\ nodeConn[c].pc \in {"accepted", "online", "serving"} /\ ~Ended(c)
    /\ CloseSockets({c})
    /\ UNCHANGED <<hubTables, nodeConn, ctrlConn, tasks, sessions, enrolled, presence>>

(* Mutated form: links nobody is attached to survive their node.           *)
AttachedLinksTo(n) == {l \in Links : IsOpen(l) /\ links[l].node = n /\ links[l].ctrl # NoConn}

LinksTo(n) == {l \in Links : IsOpen(l) /\ links[l].node = n}

Gone(S) == links' = [l \in Links |-> IF l \in S THEN [links[l] EXCEPT !.state = "gone"]
                                     ELSE links[l]]

(* Mutated form: the registration is only given up by the removal of the   *)
(* node.                                                                   *)
KeepsRegistration(c) == nodes

Unregister(c) == [n \in Nodes |-> IF nodes[n] = c THEN NoConn ELSE nodes[n]]

(* serve returns, with the read error of a closed socket or an error of    *)
(* its own; dropNode closes the socket.  In its critical section the links *)
(* to the node go, whichever socket of the node they were opened under.    *)
DropNode(c) ==
    LET S == LinksTo(nodeConn[c].node)
    IN  /\ nodeConn[c].pc = "failing" \/ (nodeConn[c].pc = "serving" /\ Ended(c))
        /\ nodes' = Unregister(c)
        /\ Gone(S)
        /\ Spawn({CloseCtrl(l) : l \in S})
        /\ nodeConn' = [nodeConn EXCEPT ![c].pc = "leaving"]
        /\ CloseSockets({c})
        /\ UNCHANGED <<ctrlConn, sessions, enrolled, presence>>

(* Mutated form: the update runs in the context of the request that ended. *)
LostWithRequest(n) == presence[n]

PresenceAfter(n) == IF n \in enrolled THEN "offline" ELSE presence[n]

(* The deferred MarkNodePresence(offline) of nodeWebSocket.                *)
NodeMarkedOffline(c) ==
    /\ nodeConn[c].pc = "leaving"
    /\ nodeConn' = [nodeConn EXCEPT ![c].pc = "done"]
    /\ presence' = [presence EXCEPT ![nodeConn[c].node] = PresenceAfter(nodeConn[c].node)]
    /\ UNCHANGED <<hubTables, ctrlConn, closed, tasks, inbox, sessions, enrolled>>

-----------------------------------------------------------------------------
(* Links and controllers                                                   *)

OpenLink(n, o) ==
  \E l \in Links :
    /\ links[l].state = "absent"
    /\ nodes[n] # NoConn
    /\ links' = [links EXCEPT ![l] = [state |-> "open", node |-> n, owner |-> o,
                                      ctrl |-> NoConn]]
    /\ Spawn({TellNode(n, "link_open", l)})
    /\ UNCHANGED <<nodes, nodeConn, ctrlConn, closed, inbox, sessions, enrolled, presence>>

(* Mutated form: a later socket of the same controller takes the link over.*)
TakesOver(l) == IsOpen(l)

MayAttach(l) == IsOpen(l) /\ links[l].ctrl = NoConn

HandleController(l) ==
    /\ Unused(ctrlConn) # {}
    /\ LET k == Fresh(ctrlConn)
       IN  \/ /\ MayAttach(l)
              /\ links' = [links EXCEPT ![l].ctrl = k]
              /\ ctrlConn' = [ctrlConn EXCEPT ![k] = [pc |-> "serving", link |-> l]]
              /\ UNCHANGED <<closed, inbox>>
           \/ /\ ~MayAttach(l) /\ links[l].state # "absent"
              /\ ctrlConn' = [ctrlConn EXCEPT ![k] = [pc |-> "done", link |-> l]]
              /\ CloseSockets({k})
              /\ UNCHANGED links
    /\ UNCHANGED <<nodes, nodeConn, tasks, sessions, enrolled, presence>>

CtrlConnLost(k) ==
    /\ ctrlConn[k].pc = "serving" /\ ~Ended(k)
    /\ CloseSockets({k})
    /\ UNCHANGED <<hubTables, nodeConn, ctrlConn, tasks, sessions, enrolled, presence>>

(* serve returns; dropController: the link stays, for its controller to    *)
(* come back.                                                              *)
DropController(k) ==
    LET l == ctrlConn[k].link
    IN  /\ ctrlConn[k].pc = "serving" /\ Ended(k)
        /\ links' = IF IsOpen(l) /\ links[l].ctrl = k
                    THEN [links EXCEPT ![l].ctrl = NoConn] ELSE links
        /\ ctrlConn' = [ctrlConn EXCEPT ![k].pc = "done"]
        /\ UNCHANGED <<nodes, nodeConn, closed, tasks, inbox, sessions, enrolled, presence>>

(* Mutated form: only the node is told.                                    *)
RevocationWithoutClose(l) == TellNode(links[l].node, "peer_closed", l)

RevocationWork(l) == CloseCtrl(l) \o TellNode(links[l].node, "peer_closed", l)

(* revokeLink: the 15-minute timer, or one turn of the loop of             *)
(* RevokeController and RevokeControllerNode over the ids they collected.  *)
RevokeLink(l) ==
    /\ IsOpen(l)
    /\ Gone({l})
    /\ Spawn({RevocationWork(l)})
    /\ UNCHANGED <<nodes, nodeConn, ctrlConn, closed, inbox, sessions, enrolled, presence>>

(* removeNode: the rows go first, then hub.RemoveNode in another step.     *)
RemoveNodeRows(n) ==
    /\ n \in enrolled /\ Cardinality(Nodes \ enrolled) < MaxRemovals
    /\ enrolled' = enrolled \ {n}
    /\ presence' = [presence EXCEPT ![n] = "offline"]
    /\ Spawn({<<[do |-> "remove", conn |-> NoConn, kind |-> n, link |-> NoLink]>>})
    /\ UNCHANGED <<hubTables, nodeConn, ctrlConn, closed, inbox, sessions>>

(* The other end of a link is told of the removal, and the controller is   *)
(* closed.                                                                 *)
RemovalWork(n, l) ==
    CloseCtrl(l) \o (IF links[l].node = n THEN <<>>
                     ELSE TellNode(links[l].node, "peer_closed", l))

(* The effects of the links of order, one link after the other.            *)
RemovalRounds(n, order) ==
    LET upTo[k \in 0 .. Len(order)] ==
            IF k = 0 THEN <<>> ELSE upTo[k - 1] \o RemovalWork(n, order[k])
    IN  upTo[Len(order)]

(* The loop over the map of links meets them in any order.                 *)
RemoveNode ==
    \E t \in tasks :
      LET n == Head(t).kind
          S == {l \in Links : IsOpen(l) /\ n \in {links[l].node, links[l].owner}}
          socket == IF nodes[n] = NoConn THEN <<>> ELSE <<Close(nodes[n])>>
      IN  /\ Head(t).do = "remove"
          /\ nodes' = [nodes EXCEPT ![n] = NoConn]
          /\ Gone(S)
          /\ \E order \in SetToSeqs(S) :
               tasks' = (tasks \ {t}) \cup ({RemovalRounds(n, order) \o socket} \ {<<>>})
          /\ UNCHANGED <<nodeConn, ctrlConn, closed, inbox, sessions, enrolled, presence>>

-----------------------------------------------------------------------------
(* Frames                                                                  *)

(* forwardFromNode: a frame for a link that is gone, that has no           *)
(* controller now, or whose controller closes while its queue is full,     *)
(* ends the serve loop of the whole node.  A frame that is accepted        *)
(* changes nothing here (PeerScheduler's ForwardFrame).                    *)
NodeForwards(c, l) ==
    LET n == nodeConn[c].node
    IN  /\ nodeConn[c].pc = "serving" /\ ~Ended(c)
        /\ sessions[n][l] = "active"
        /\ IsOpen(l) => links[l].ctrl \in closed \cup {NoConn}
        /\ nodeConn' = [nodeConn EXCEPT ![c].pc = "failing"]
        /\ UNCHANGED <<hubTables, ctrlConn, closed, tasks, inbox, sessions, enrolled, presence>>

(* forwardFromController, likewise: the controller's own socket ends.      *)
CtrlForwards(k) ==
    LET l == ctrlConn[k].link
        n == links[l].node
    IN  /\ ctrlConn[k].pc = "serving" /\ ~Ended(k)
        /\ IF IsOpen(l) /\ links[l].ctrl = k /\ nodes[n] \notin closed \cup {NoConn}
           THEN /\ Len(inbox[nodes[n]]) < MaxInbox
                /\ inbox' = [inbox EXCEPT ![nodes[n]] = Append(@, [kind |-> "data", link |-> l])]
                /\ UNCHANGED closed
           ELSE CloseSockets({k})
        /\ UNCHANGED <<hubTables, nodeConn, ctrlConn, tasks, sessions, enrolled, presence>>

(* node-connector handleEnvelope: a frame for a link without a session is  *)
(* an error, and the node closes its socket.  A session sends nothing      *)
(* before the controller's hello.                                          *)
SessionAfter(kind, state) ==
    CASE kind = "link_open"   -> IF state = "none" THEN "open" ELSE state
      [] kind = "peer_closed" -> "none"
      [] kind = "data"        -> "active"

NodeReceives(c) ==
    LET n == nodeConn[c].node
        f == Head(inbox[c])
    IN  /\ inbox[c] # <<>>
        /\ IF f.kind # "link_open" /\ sessions[n][f.link] = "none"
           THEN /\ CloseSockets({c})
                /\ UNCHANGED sessions
           ELSE /\ inbox' = [inbox EXCEPT ![c] = Tail(@)]
                /\ sessions' = [sessions EXCEPT ![n][f.link] = SessionAfter(f.kind, @)]
                /\ UNCHANGED closed
        /\ UNCHANGED <<hubTables, nodeConn, ctrlConn, tasks, enrolled, presence>>

(* A session error closes the link at the node only.                       *)
SessionFails(n, l) ==
    /\ sessions[n][l] # "none"
    /\ sessions' = [sessions EXCEPT ![n][l] = "none"]
    /\ UNCHANGED <<hubTables, nodeConn, ctrlConn, closed, tasks, inbox, enrolled, presence>>

-----------------------------------------------------------------------------
HubNext ==
    \/ RunTask \/ RemoveNode
    \/ \E c \in NodeConns :
         \/ NodeMarkedOnline(c) \/ HandleNode(c) \/ NodeConnLost(c)
         \/ DropNode(c) \/ NodeMarkedOffline(c) \/ NodeReceives(c)
         \/ \E l \in Links : NodeForwards(c, l)
    \/ \E l \in Links :
         \/ \E n \in Nodes : SessionFails(n, l)
         \/ HandleController(l) \/ RevokeLink(l)
    \/ \E k \in CtrlConns :
         CtrlConnLost(k) \/ DropController(k) \/ CtrlForwards(k)
    \/ \E n \in Nodes :
         \/ NodeDials(n) \/ RemoveNodeRows(n)
         \/ \E o \in Owners : OpenLink(n, o)

(* Started goroutines go on and a closed socket makes its reader return.   *)
(* Peers owe nothing: no frame, no disconnect and no dial is fair.         *)
HubFairness ==
    /\ WF_hubVars(RunTask) /\ WF_hubVars(RemoveNode)
    /\ \A c \in NodeConns :
         WF_hubVars(\/ NodeMarkedOnline(c) \/ HandleNode(c)
                    \/ DropNode(c) \/ NodeMarkedOffline(c))
    /\ \A k \in CtrlConns : WF_hubVars(DropController(k))

HubSpec == HubInit /\ [][HubNext]_hubVars /\ HubFairness

-----------------------------------------------------------------------------
Envelope == [kind : {"link_open", "peer_closed", "data"}, link : Links]
Effect == [do : {"close", "notify"}, conn : NodeConns \cup CtrlConns,
           kind : {"", "link_open", "peer_closed"}, link : Links \cup {NoLink}]
          \cup [do : {"remove"}, conn : {NoConn}, kind : Nodes, link : {NoLink}]

(* Every variable has its type.                                            *)
HubTypeOK ==
    /\ nodes \in [Nodes -> NodeConns \cup {NoConn}]
    /\ links \in [Links -> [state : {"absent", "open", "gone"}, node : Nodes \cup {NoNode},
                            owner : Owners \cup {NoNode}, ctrl : CtrlConns \cup {NoConn}]]
    /\ nodeConn \in [NodeConns ->
          [pc : {"unused", "accepted", "online", "serving", "failing", "leaving", "done"},
           node : Nodes \cup {NoNode}]]
    /\ ctrlConn \in [CtrlConns -> [pc : {"unused", "serving", "done"},
                                   link : Links \cup {NoLink}]]
    /\ closed \subseteq NodeConns \cup CtrlConns
    /\ tasks \subseteq Seq(Effect)
    /\ inbox \in [NodeConns -> Seq(Envelope)]
    /\ sessions \in [Nodes -> [Links -> {"none", "open", "active"}]]
    /\ enrolled \subseteq Nodes
    /\ presence \in [Nodes -> {"online", "offline"}]

(* An open link leads to a registered socket of its node, in every         *)
(* interleaving of opens, reconnects, drops and removals: otherwise its    *)
(* controller would be served by nobody until the timer fires              *)
(* (fabric_hub.go:87-94, 233-249, 355-373).                                *)
LinksHaveNodes == \A l \in Links : IsOpen(l) => nodes[links[l].node] # NoConn

(* A link has one controller socket at a time: a socket that is served on  *)
(* an open link is the one the link forwards to (fabric_hub.go:143-148).   *)
OneControllerPerLink ==
    \A k \in CtrlConns :
        ctrlConn[k].pc = "serving" /\ IsOpen(ctrlConn[k].link)
            => links[ctrlConn[k].link].ctrl = k

(* The store shows a node online only while a handler that will mark it    *)
(* offline is running, whatever the order in which the sockets of a node   *)
(* end (directory/server.go:596-603).  The converse fails: a handler that  *)
(* was turned away, or one that is late, marks a connected node offline.   *)
OnlineIsOwned ==
    \A n \in enrolled : presence[n] = "online" =>
        \E c \in NodeConns : nodeConn[c].node = n
                             /\ nodeConn[c].pc \in {"online", "serving", "failing", "leaving"}

(* When its link is gone, a controller is disconnected, whoever took the   *)
(* link away and whenever it attached (fabric_hub.go:183-185, 258-260,     *)
(* 382-384).                                                               *)
DetachedControllersEnd ==
    \A k \in CtrlConns :
        []<>(ctrlConn[k].pc # "serving" \/ IsOpen(ctrlConn[k].link))

(* A dead socket gives its node's place up, so that the node can come      *)
(* back (fabric_hub.go:107, 358-360).                                      *)
DeadSocketsLeave ==
    \A n \in Nodes, c \in NodeConns : []<>(nodes[n] # c \/ c \notin closed)

(* "Closing or revoking one link must not close the Node socket or other   *)
(* Controller links" (plans/076-cradle-fabric-node-control-plane.md:229):  *)
(* relayd stops serving a node's socket only when that socket ended.       *)
NodeOutlivesItsLinks ==
    [][\A c \in NodeConns :
         nodeConn[c].pc = "serving" /\ nodeConn'[c].pc # "serving" => c \in closed]_hubVars
=============================================================================
