---------------------------- MODULE RelaydProofs ----------------------------
(***************************************************************************)
(* The two modules of relayd, for any number of nodes, links, sockets,     *)
(* streams, senders, budgets and frames.                                   *)
(*                                                                         *)
(* The hub: its tables agree with each other and with the handlers.  None  *)
(* of the three properties is inductive.  A registered socket belongs to   *)
(* the node it is registered for, which makes dropNode take the right      *)
(* links away; a handler that serves a controller has a link that exists,  *)
(* which keeps a link from being opened under it.  The queues (tasks,      *)
(* inbox, closed, sessions) only have their types, which say that nothing  *)
(* is left to do for a link, a node or a socket that does not exist.       *)
(*                                                                         *)
(* The outgoing queue: the round-robin order names exactly the lanes that  *)
(* hold frames, whatever the counters, the tokens and the writer do; the   *)
(* counters count a set, because a frame has one place; and the queue      *)
(* implements StreamFifo, because a control frame overtakes only what is   *)
(* not of its stream.                                                      *)
(***************************************************************************)
EXTENDS FabricHub, PeerScheduler, SequenceTheorems, FiniteSetTheorems,
        RecursionProofs, TLAPS

-----------------------------------------------------------------------------
(* The hub: relay/fabric_hub.go                                            *)

LinkRecord == [state : {"absent", "open", "gone"}, node : Nodes \cup {NoNode},
               owner : Owners \cup {NoNode}, ctrl : CtrlConns \cup {NoConn}]
NodeHandler == [pc : {"unused", "accepted", "online", "serving", "failing", "leaving", "done"},
                node : Nodes \cup {NoNode}]
CtrlHandler == [pc : {"unused", "serving", "done"}, link : Links \cup {NoLink}]

NodeTypes ==
    /\ nodes \in [Nodes -> NodeConns \cup {NoConn}]
    /\ nodeConn \in [NodeConns -> NodeHandler]
LinkTypes ==
    /\ links \in [Links -> LinkRecord]
    /\ ctrlConn \in [CtrlConns -> CtrlHandler]
StoreTypes ==
    /\ enrolled \subseteq Nodes
    /\ presence \in [Nodes -> {"online", "offline"}]

Owning == {"online", "serving", "failing", "leaving"}

(* A handler that runs knows its node, and a registration is its node's.   *)
Registered ==
    /\ \A c \in NodeConns : nodeConn[c].pc # "unused" => nodeConn[c].node \in Nodes
    /\ \A n \in Nodes : nodes[n] # NoConn =>
         nodeConn[nodes[n]].node = n /\ nodeConn[nodes[n]].pc # "unused"

Routed ==
    \A l \in Links : IsOpen(l) => links[l].node \in Nodes /\ nodes[links[l].node] # NoConn

Attached ==
    \A k \in CtrlConns : ctrlConn[k].pc = "serving" =>
        /\ ctrlConn[k].link \in Links
        /\ links[ctrlConn[k].link].state # "absent"
        /\ IsOpen(ctrlConn[k].link) => links[ctrlConn[k].link].ctrl = k

HubInv ==
    /\ NodeTypes /\ LinkTypes /\ StoreTypes
    /\ Registered /\ Routed /\ Attached /\ OnlineIsOwned

LEMMA InitHubInv == HubInit => HubInv
<1> SUFFICES ASSUME HubInit PROVE HubInv
  OBVIOUS
<1>1. NodeTypes /\ LinkTypes /\ StoreTypes
  BY DEF HubInit, NodeTypes, LinkTypes, StoreTypes, LinkRecord, NodeHandler, CtrlHandler,
         NoLinkRecord
<1>2. Registered /\ Attached /\ OnlineIsOwned
  BY DEF HubInit, Registered, Attached, OnlineIsOwned
<1>3. Routed
  BY DEF HubInit, Routed, IsOpen, NoLinkRecord
<1> QED BY <1>1, <1>2, <1>3 DEF HubInv

(* A new socket is one that was not used.                                  *)
LEMMA FreshNodeConn ==
    ASSUME NodeTypes, Unused(nodeConn) # {}
    PROVE  Fresh(nodeConn) \in NodeConns /\ nodeConn[Fresh(nodeConn)].pc = "unused"
<1>1. DOMAIN nodeConn = NodeConns
  BY DEF NodeTypes
<1>2. \E c \in DOMAIN nodeConn : nodeConn[c].pc = "unused"
  BY DEF Unused
<1> QED BY <1>1, <1>2 DEF Fresh

LEMMA FreshCtrlConn ==
    ASSUME LinkTypes, Unused(ctrlConn) # {}
    PROVE  Fresh(ctrlConn) \in CtrlConns /\ ctrlConn[Fresh(ctrlConn)].pc = "unused"
<1>1. DOMAIN ctrlConn = CtrlConns
  BY DEF LinkTypes
<1>2. \E c \in DOMAIN ctrlConn : ctrlConn[c].pc = "unused"
  BY DEF Unused
<1> QED BY <1>1, <1>2 DEF Fresh

-----------------------------------------------------------------------------
(* A step of one handler that keeps its node, the tables of links and the  *)
(* rows: a handler that owned the presence may only stop with it.          *)
LEMMA HandlerKeepsInv ==
    ASSUME HubInv, NEW c \in NodeConns, NEW pc \in {"online", "serving", "failing", "leaving", "done"},
           nodeConn[c].pc # "unused", nodeConn' = [nodeConn EXCEPT ![c].pc = pc],
           UNCHANGED <<hubTables, ctrlConn, enrolled>>,
           presence' \in [Nodes -> {"online", "offline"}],
           \A n \in enrolled \ {nodeConn[c].node} : presence'[n] = presence[n],
           nodeConn[c].node \in enrolled /\ presence'[nodeConn[c].node] = "online" =>
             \/ pc \in Owning
             \/ nodeConn[c].pc \notin Owning /\ presence'[nodeConn[c].node] = presence[nodeConn[c].node]
    PROVE  HubInv'
<1>1. UNCHANGED <<nodes, links>>
  BY DEF hubTables
<1>2. /\ nodeConn' \in [NodeConns -> NodeHandler]
      /\ \A d \in NodeConns : nodeConn'[d].node = nodeConn[d].node
      /\ \A d \in NodeConns \ {c} : nodeConn'[d] = nodeConn[d]
      /\ nodeConn'[c].pc = pc
  BY DEF HubInv, NodeTypes, NodeHandler
<1>3. NodeTypes' /\ LinkTypes' /\ StoreTypes'
  BY <1>1, <1>2 DEF HubInv, NodeTypes, LinkTypes, StoreTypes
<1>4. Registered'
  <2>1. \A d \in NodeConns : nodeConn'[d].pc # "unused" => nodeConn[d].pc # "unused"
    BY <1>2
  <2>2. \A d \in NodeConns : nodeConn[d].pc # "unused" => nodeConn'[d].pc # "unused"
    BY <1>2
  <2>3. \A n \in Nodes : nodes[n] # NoConn => nodes[n] \in NodeConns
    BY DEF HubInv, NodeTypes
  <2> QED BY <1>1, <1>2, <2>1, <2>2, <2>3 DEF HubInv, Registered
<1>5. Routed' /\ Attached'
  BY <1>1 DEF HubInv, Routed, Attached, IsOpen
<1>6. OnlineIsOwned'
  <2> SUFFICES ASSUME NEW n \in enrolled, presence'[n] = "online"
               PROVE  \E d \in NodeConns : nodeConn'[d].node = n /\ nodeConn'[d].pc \in Owning
    BY DEF OnlineIsOwned, Owning
  <2>1. CASE n = nodeConn[c].node /\ pc \in Owning
    BY <1>2, <2>1
  <2>2. CASE ~(n = nodeConn[c].node /\ pc \in Owning)
    <3>1. presence[n] = "online"
      BY <2>2
    <3>2. PICK d \in NodeConns : nodeConn[d].node = n /\ nodeConn[d].pc \in Owning
      BY <3>1 DEF HubInv, OnlineIsOwned, Owning
    <3>3. d # c
      BY <2>2, <3>2
    <3> QED BY <1>2, <3>2, <3>3
  <2> QED BY <2>1, <2>2
<1> QED BY <1>3, <1>4, <1>5, <1>6 DEF HubInv

(* Links that are taken away, and a step of the tables of nodes that keeps *)
(* every node with an open link, keep what is said about links.            *)
LEMMA GoneKeeps ==
    ASSUME HubInv, NEW S, Gone(S), UNCHANGED ctrlConn,
           nodes' \in [Nodes -> NodeConns \cup {NoConn}],
           \A l \in Links \ S : IsOpen(l) => nodes'[links[l].node] # NoConn
    PROVE  LinkTypes' /\ Routed' /\ Attached'
<1>1. /\ links \in [Links -> LinkRecord]
      /\ \A l \in Links : links'[l] = IF l \in S THEN [links[l] EXCEPT !.state = "gone"] ELSE links[l]
      /\ links' = [l \in Links |-> IF l \in S THEN [links[l] EXCEPT !.state = "gone"] ELSE links[l]]
  BY DEF HubInv, LinkTypes, Gone
<1>2. ASSUME NEW l \in Links
      PROVE  /\ links'[l] \in LinkRecord
             /\ l \in S => links'[l].state = "gone"
             /\ l \notin S => links'[l] = links[l]
  BY <1>1, <1>2 DEF LinkRecord
<1>3. LinkTypes'
  BY <1>1, <1>2 DEF HubInv, LinkTypes
<1>4. Routed'
  BY <1>2 DEF HubInv, Routed, IsOpen
<1>5. Attached'
  BY <1>2 DEF HubInv, Attached, IsOpen
<1> QED BY <1>3, <1>4, <1>5

LEMMA NodeDialsKeepsInv ==
    ASSUME HubInv, NEW n \in Nodes, NodeDials(n) PROVE HubInv'
<1> DEFINE f == Fresh(nodeConn)
<1>1. f \in NodeConns /\ nodeConn[f].pc = "unused"
  BY FreshNodeConn DEF NodeDials, HubInv
<1>2. /\ nodeConn' = [nodeConn EXCEPT ![f] = [pc |-> "accepted", node |-> n]]
      /\ UNCHANGED <<nodes, links, ctrlConn, enrolled, presence>>
  BY DEF NodeDials, hubTables
<1> HIDE DEF f
<1>3. /\ nodeConn' \in [NodeConns -> NodeHandler]
      /\ nodeConn'[f] = [pc |-> "accepted", node |-> n]
      /\ \A d \in NodeConns \ {f} : nodeConn'[d] = nodeConn[d]
  BY <1>1, <1>2 DEF HubInv, NodeTypes, NodeHandler
<1>4. NodeTypes' /\ LinkTypes' /\ StoreTypes'
  BY <1>2, <1>3 DEF HubInv, NodeTypes, LinkTypes, StoreTypes
<1>5. Registered'
  <2>1. \A m \in Nodes : nodes[m] # NoConn => nodes[m] \in NodeConns \ {f}
    BY <1>1 DEF HubInv, NodeTypes, Registered
  <2> QED BY <1>2, <1>3, <2>1 DEF HubInv, Registered
<1>6. Routed' /\ Attached'
  BY <1>2 DEF HubInv, Routed, Attached, IsOpen
<1>7. OnlineIsOwned'
  BY <1>1, <1>2, <1>3 DEF HubInv, OnlineIsOwned
<1> QED BY <1>4, <1>5, <1>6, <1>7 DEF HubInv

LEMMA HandleNodeKeepsInv ==
    ASSUME HubInv, NEW c \in NodeConns, HandleNode(c) PROVE HubInv'
<1> DEFINE n == nodeConn[c].node
<1>1. nodeConn[c].pc = "online" /\ n \in Nodes
      /\ UNCHANGED <<links, ctrlConn, enrolled, presence>>
  BY DEF HandleNode, HubInv, Registered
<1>2. CASE nodes[n] # NoConn
  <2>1. nodeConn' = [nodeConn EXCEPT ![c].pc = "leaving"] /\ nodes' = nodes
    BY <1>2 DEF HandleNode
  <2>2. presence' \in [Nodes -> {"online", "offline"}]
    BY <1>1 DEF HubInv, StoreTypes
  <2> QED BY <1>1, <2>1, <2>2, HandlerKeepsInv DEF hubTables, Owning
<1>3. CASE nodes[n] = NoConn
  <2>1. /\ nodes' = [nodes EXCEPT ![n] = c]
        /\ nodeConn' = [nodeConn EXCEPT ![c].pc = "serving"]
    BY <1>3 DEF HandleNode
  <2>2. /\ nodes' \in [Nodes -> NodeConns \cup {NoConn}] /\ nodes'[n] = c
        /\ \A m \in Nodes \ {n} : nodes'[m] = nodes[m]
    BY <1>1, <2>1 DEF HubInv, NodeTypes
  <2>3. /\ nodeConn' \in [NodeConns -> NodeHandler] /\ nodeConn'[c].pc = "serving"
        /\ \A d \in NodeConns : nodeConn'[d].node = nodeConn[d].node
        /\ \A d \in NodeConns \ {c} : nodeConn'[d] = nodeConn[d]
    BY <2>1 DEF HubInv, NodeTypes, NodeHandler
  <2>4. NodeTypes' /\ LinkTypes' /\ StoreTypes'
    BY <1>1, <2>2, <2>3 DEF HubInv, NodeTypes, LinkTypes, StoreTypes
  <2>5. NoConn \notin NodeConns
    BY FabricHubAssumption
  <2>6. Registered'
    <3>1. \A d \in NodeConns : nodeConn'[d].pc # "unused" => nodeConn'[d].node \in Nodes
      BY <1>1, <2>3 DEF HubInv, Registered
    <3>2. ASSUME NEW m \in Nodes, nodes'[m] # NoConn
          PROVE  nodeConn'[nodes'[m]].node = m /\ nodeConn'[nodes'[m]].pc # "unused"
      <4>1. CASE m = n
        BY <2>2, <2>3, <4>1
      <4>2. CASE m # n
        <5>1. nodes'[m] = nodes[m] /\ nodes[m] \in NodeConns
          BY <2>2, <3>2, <4>2 DEF HubInv, NodeTypes
        <5>2. nodeConn[nodes[m]].node = m /\ nodeConn[nodes[m]].pc # "unused"
          BY <3>2, <5>1 DEF HubInv, Registered
        <5> QED BY <2>3, <5>1, <5>2
      <4> QED BY <4>1, <4>2
    <3> QED BY <3>1, <3>2 DEF Registered
  <2>7. Routed' /\ Attached'
    BY <1>1, <2>2, <2>5 DEF HubInv, Routed, Attached, IsOpen
  <2>8. OnlineIsOwned'
    BY <1>1, <2>3 DEF HubInv, OnlineIsOwned
  <2> QED BY <2>4, <2>6, <2>7, <2>8 DEF HubInv
<1> QED BY <1>2, <1>3

(* The links that go are those of the node, and the registration that goes *)
(* is that of the node as well.                                            *)
LEMMA DropNodeKeepsInv ==
    ASSUME HubInv, NEW c \in NodeConns, DropNode(c) PROVE HubInv'
<1> DEFINE S == LinksTo(nodeConn[c].node)
<1>1. /\ nodeConn[c].pc \in {"failing", "serving"}
      /\ nodes' = Unregister(c) /\ Gone(S)
      /\ nodeConn' = [nodeConn EXCEPT ![c].pc = "leaving"]
      /\ UNCHANGED <<ctrlConn, enrolled, presence>>
  BY DEF DropNode
<1>2. /\ nodes' \in [Nodes -> NodeConns \cup {NoConn}]
      /\ \A n \in Nodes : nodes'[n] = IF nodes[n] = c THEN NoConn ELSE nodes[n]
  BY <1>1 DEF HubInv, NodeTypes, Unregister
<1>3. /\ nodeConn' \in [NodeConns -> NodeHandler] /\ nodeConn'[c].pc = "leaving"
      /\ \A d \in NodeConns : nodeConn'[d].node = nodeConn[d].node
      /\ \A d \in NodeConns \ {c} : nodeConn'[d] = nodeConn[d]
  BY <1>1 DEF HubInv, NodeTypes, NodeHandler
<1>4. LinkTypes' /\ Routed' /\ Attached'
  <2>1. ASSUME NEW l \in Links \ S, IsOpen(l) PROVE nodes'[links[l].node] # NoConn
    <3>1. links[l].node \in Nodes /\ nodes[links[l].node] # NoConn
      BY <2>1 DEF HubInv, Routed
    <3>2. links[l].node # nodeConn[c].node
      BY <2>1 DEF LinksTo
    <3>3. nodes[links[l].node] # c
      BY <3>1, <3>2 DEF HubInv, Registered
    <3> QED BY <1>2, <3>1, <3>3
  <2> HIDE DEF S
  <2> QED BY <1>1, <1>2, <2>1, GoneKeeps
<1>5. NodeTypes' /\ StoreTypes'
  BY <1>1, <1>2, <1>3 DEF HubInv, NodeTypes, StoreTypes
<1>6. Registered'
  <2>1. \A d \in NodeConns : nodeConn'[d].pc # "unused" => nodeConn'[d].node \in Nodes
    BY <1>1, <1>3 DEF HubInv, Registered
  <2>2. ASSUME NEW m \in Nodes, nodes'[m] # NoConn
        PROVE  nodeConn'[nodes'[m]].node = m /\ nodeConn'[nodes'[m]].pc # "unused"
    <3>1. nodes'[m] = nodes[m] /\ nodes[m] \in NodeConns \ {c}
      BY <1>2, <2>2 DEF HubInv, NodeTypes
    <3> QED BY <1>3, <2>2, <3>1 DEF HubInv, Registered
  <2> QED BY <2>1, <2>2 DEF Registered
<1>7. OnlineIsOwned'
  BY <1>1, <1>3 DEF HubInv, OnlineIsOwned
<1> QED BY <1>4, <1>5, <1>6, <1>7 DEF HubInv

LEMMA OpenLinkKeepsInv ==
    ASSUME HubInv, NEW n \in Nodes, NEW o \in Owners, OpenLink(n, o) PROVE HubInv'
<1>1. PICK l \in Links :
        /\ links[l].state = "absent" /\ nodes[n] # NoConn
        /\ links' = [links EXCEPT ![l] = [state |-> "open", node |-> n, owner |-> o, ctrl |-> NoConn]]
        /\ UNCHANGED <<nodes, nodeConn, ctrlConn, enrolled, presence>>
  BY DEF OpenLink
<1>2. /\ links' \in [Links -> LinkRecord]
      /\ links'[l] = [state |-> "open", node |-> n, owner |-> o, ctrl |-> NoConn]
      /\ \A m \in Links \ {l} : links'[m] = links[m]
  BY <1>1 DEF HubInv, LinkTypes, LinkRecord
<1>3. Routed'
  BY <1>1, <1>2 DEF HubInv, Routed, IsOpen
<1>4. Attached'
  <2> SUFFICES ASSUME NEW k \in CtrlConns, ctrlConn[k].pc = "serving"
               PROVE  ctrlConn[k].link \in Links \ {l}
    BY <1>1, <1>2 DEF HubInv, Attached, IsOpen
  <2> QED BY <1>1 DEF HubInv, Attached
<1>5. NodeTypes' /\ LinkTypes' /\ StoreTypes' /\ Registered' /\ OnlineIsOwned'
  BY <1>1, <1>2 DEF HubInv, NodeTypes, LinkTypes, StoreTypes, Registered, OnlineIsOwned
<1> QED BY <1>3, <1>4, <1>5 DEF HubInv

LEMMA HandleControllerKeepsInv ==
    ASSUME HubInv, NEW l \in Links, HandleController(l) PROVE HubInv'
<1> DEFINE f == Fresh(ctrlConn)
<1>1. f \in CtrlConns /\ ctrlConn[f].pc = "unused"
  BY FreshCtrlConn DEF HandleController, HubInv
<1>2. /\ UNCHANGED <<nodes, nodeConn, enrolled, presence>>
      /\ \/ /\ MayAttach(l) /\ links' = [links EXCEPT ![l].ctrl = f]
            /\ ctrlConn' = [ctrlConn EXCEPT ![f] = [pc |-> "serving", link |-> l]]
         \/ /\ ctrlConn' = [ctrlConn EXCEPT ![f] = [pc |-> "done", link |-> l]]
            /\ links' = links
  BY DEF HandleController
<1> HIDE DEF f
<1>3. NodeTypes' /\ StoreTypes' /\ Registered' /\ OnlineIsOwned'
  BY <1>2 DEF HubInv, NodeTypes, StoreTypes, Registered, OnlineIsOwned
<1>4. CASE /\ MayAttach(l) /\ links' = [links EXCEPT ![l].ctrl = f]
           /\ ctrlConn' = [ctrlConn EXCEPT ![f] = [pc |-> "serving", link |-> l]]
  <2>1. /\ links' \in [Links -> LinkRecord] /\ links'[l].ctrl = f
        /\ links'[l].state = links[l].state /\ links'[l].node = links[l].node
        /\ \A m \in Links \ {l} : links'[m] = links[m]
    BY <1>1, <1>4 DEF HubInv, LinkTypes, LinkRecord
  <2>2. /\ ctrlConn' \in [CtrlConns -> CtrlHandler]
        /\ ctrlConn'[f] = [pc |-> "serving", link |-> l]
        /\ \A k \in CtrlConns \ {f} : ctrlConn'[k] = ctrlConn[k]
    BY <1>1, <1>4 DEF HubInv, LinkTypes, CtrlHandler
  <2>3. Routed'
    <3>1. \A m \in Links : links'[m].state = links[m].state /\ links'[m].node = links[m].node
      BY <2>1
    <3> QED BY <1>2, <3>1 DEF HubInv, Routed, IsOpen
  <2>4. Attached'
    <3> SUFFICES ASSUME NEW k \in CtrlConns, ctrlConn'[k].pc = "serving"
                 PROVE  /\ ctrlConn'[k].link \in Links
                        /\ links'[ctrlConn'[k].link].state # "absent"
                        /\ links'[ctrlConn'[k].link].state = "open"
                             => links'[ctrlConn'[k].link].ctrl = k
      BY DEF Attached, IsOpen
    <3>1. CASE k = f
      BY <1>4, <2>1, <2>2, <3>1 DEF MayAttach, IsOpen
    <3>2. CASE k # f
      <4>1. ctrlConn'[k] = ctrlConn[k]
        BY <2>2, <3>2
      <4>2. /\ ctrlConn[k].link \in Links
            /\ links[ctrlConn[k].link].state # "absent"
            /\ links[ctrlConn[k].link].state = "open" => links[ctrlConn[k].link].ctrl = k
        BY <4>1 DEF HubInv, Attached, IsOpen
      <4>3. ctrlConn[k].link # l
        BY <1>4, <4>2, FabricHubAssumption DEF MayAttach, IsOpen
      <4> QED BY <2>1, <4>1, <4>2, <4>3
    <3> QED BY <3>1, <3>2
  <2> QED BY <1>3, <2>1, <2>2, <2>3, <2>4 DEF HubInv, LinkTypes
<1>5. CASE /\ ctrlConn' = [ctrlConn EXCEPT ![f] = [pc |-> "done", link |-> l]]
           /\ links' = links
  <2>1. /\ ctrlConn' \in [CtrlConns -> CtrlHandler] /\ ctrlConn'[f].pc = "done"
        /\ \A k \in CtrlConns \ {f} : ctrlConn'[k] = ctrlConn[k]
    BY <1>1, <1>5 DEF HubInv, LinkTypes, CtrlHandler
  <2>2. Routed' /\ LinkTypes'
    BY <1>2, <1>5, <2>1 DEF HubInv, Routed, IsOpen, LinkTypes
  <2>3. Attached'
    BY <1>5, <2>1 DEF HubInv, Attached, IsOpen
  <2> QED BY <1>3, <2>2, <2>3 DEF HubInv
<1> QED BY <1>2, <1>4, <1>5

LEMMA DropControllerKeepsInv ==
    ASSUME HubInv, NEW k \in CtrlConns, DropController(k) PROVE HubInv'
<1> DEFINE l == ctrlConn[k].link
<1>1. /\ ctrlConn[k].pc = "serving" /\ l \in Links
      /\ links' = IF IsOpen(l) /\ links[l].ctrl = k
                  THEN [links EXCEPT ![l].ctrl = NoConn] ELSE links
      /\ ctrlConn' = [ctrlConn EXCEPT ![k].pc = "done"]
      /\ UNCHANGED <<nodes, nodeConn, enrolled, presence>>
  BY DEF DropController, HubInv, Attached
<1>2. NodeTypes' /\ StoreTypes' /\ Registered' /\ OnlineIsOwned'
  BY <1>1 DEF HubInv, NodeTypes, StoreTypes, Registered, OnlineIsOwned
<1>3. /\ ctrlConn' \in [CtrlConns -> CtrlHandler] /\ ctrlConn'[k].pc = "done"
      /\ \A i \in CtrlConns \ {k} : ctrlConn'[i] = ctrlConn[i]
  BY <1>1 DEF HubInv, LinkTypes, CtrlHandler
<1>4. /\ links' \in [Links -> LinkRecord]
      /\ \A m \in Links : links'[m].state = links[m].state /\ links'[m].node = links[m].node
      /\ \A m \in Links : links'[m].ctrl = links[m].ctrl \/ links[m].ctrl = k
  <2>1. CASE IsOpen(l) /\ links[l].ctrl = k
    BY <1>1, <2>1 DEF HubInv, LinkTypes, LinkRecord
  <2>2. CASE ~(IsOpen(l) /\ links[l].ctrl = k)
    BY <1>1, <2>2 DEF HubInv, LinkTypes
  <2> QED BY <2>1, <2>2
<1>5. Routed'
  BY <1>1, <1>4 DEF HubInv, Routed, IsOpen
<1>6. Attached'
  BY <1>3, <1>4 DEF HubInv, Attached, IsOpen
<1> QED BY <1>2, <1>3, <1>4, <1>5, <1>6 DEF HubInv, LinkTypes

LEMMA RevokeLinkKeepsInv ==
    ASSUME HubInv, NEW l \in Links, RevokeLink(l) PROVE HubInv'
<1>1. Gone({l}) /\ UNCHANGED <<nodes, nodeConn, ctrlConn, enrolled, presence>>
  BY DEF RevokeLink
<1>2. LinkTypes' /\ Routed' /\ Attached'
  BY <1>1, GoneKeeps DEF HubInv, NodeTypes, Routed
<1>3. NodeTypes' /\ StoreTypes' /\ Registered' /\ OnlineIsOwned'
  BY <1>1 DEF HubInv, NodeTypes, StoreTypes, Registered, OnlineIsOwned
<1> QED BY <1>2, <1>3 DEF HubInv

(* RemoveNode takes its links away with the registration.                  *)
LEMMA RemoveNodeKeepsInv == ASSUME HubInv, RemoveNode PROVE HubInv'
<1>1. PICK n, S :
        /\ S = {l \in Links : IsOpen(l) /\ n \in {links[l].node, links[l].owner}}
        /\ nodes' = [nodes EXCEPT ![n] = NoConn] /\ Gone(S)
        /\ UNCHANGED <<nodeConn, ctrlConn, enrolled, presence>>
  BY DEF RemoveNode
<1>2. /\ nodes' \in [Nodes -> NodeConns \cup {NoConn}]
      /\ \A m \in Nodes : m # n => nodes'[m] = nodes[m]
      /\ \A m \in Nodes : nodes'[m] # NoConn => nodes'[m] = nodes[m]
  BY <1>1 DEF HubInv, NodeTypes
<1>3. ASSUME NEW l \in Links \ S, IsOpen(l) PROVE nodes'[links[l].node] # NoConn
  BY <1>1, <1>2, <1>3 DEF HubInv, Routed
<1>4. LinkTypes' /\ Routed' /\ Attached'
  BY <1>1, <1>2, <1>3, GoneKeeps
<1>5. NodeTypes' /\ StoreTypes' /\ Registered' /\ OnlineIsOwned'
  BY <1>1, <1>2 DEF HubInv, NodeTypes, StoreTypes, Registered, OnlineIsOwned
<1> QED BY <1>4, <1>5 DEF HubInv

LEMMA RemoveNodeRowsKeepsInv ==
    ASSUME HubInv, NEW n \in Nodes, RemoveNodeRows(n) PROVE HubInv'
<1>1. /\ enrolled' = enrolled \ {n} /\ presence' = [presence EXCEPT ![n] = "offline"]
      /\ UNCHANGED <<nodes, links, nodeConn, ctrlConn>>
  BY DEF RemoveNodeRows, hubTables
<1>2. StoreTypes' /\ OnlineIsOwned'
  BY <1>1 DEF HubInv, StoreTypes, OnlineIsOwned
<1> QED BY <1>1, <1>2 DEF HubInv, NodeTypes, LinkTypes, Registered, Routed, Attached, IsOpen

LEMMA PresenceKeepsInv ==
    ASSUME HubInv, NEW c \in NodeConns, NodeMarkedOnline(c) \/ NodeMarkedOffline(c) PROVE HubInv'
<1> DEFINE n == nodeConn[c].node
<1>1. /\ nodeConn[c].pc \in {"accepted", "leaving"} /\ n \in Nodes
      /\ UNCHANGED <<hubTables, ctrlConn, enrolled>>
      /\ presence \in [Nodes -> {"online", "offline"}]
  BY DEF NodeMarkedOnline, NodeMarkedOffline, HubInv, Registered, StoreTypes
<1>2. CASE NodeMarkedOnline(c) /\ n \in enrolled
  <2>1. /\ presence' = [presence EXCEPT ![n] = "online"]
        /\ nodeConn' = [nodeConn EXCEPT ![c].pc = "online"]
    BY <1>2 DEF NodeMarkedOnline
  <2>2. presence' \in [Nodes -> {"online", "offline"}]
        /\ \A m \in enrolled \ {n} : presence'[m] = presence[m]
    BY <1>1, <2>1 DEF HubInv, StoreTypes
  <2> QED BY <1>1, <2>1, <2>2, HandlerKeepsInv DEF Owning
<1>3. CASE NodeMarkedOnline(c) /\ n \notin enrolled
  <2>1. presence' = presence /\ nodeConn' = [nodeConn EXCEPT ![c].pc = "done"]
    BY <1>3 DEF NodeMarkedOnline
  <2> QED BY <1>1, <1>3, <2>1, HandlerKeepsInv
<1>4. CASE NodeMarkedOffline(c)
  <2>1. /\ nodeConn' = [nodeConn EXCEPT ![c].pc = "done"]
        /\ presence' = [presence EXCEPT ![n] = IF n \in enrolled THEN "offline" ELSE presence[n]]
    BY <1>4 DEF NodeMarkedOffline, PresenceAfter
  <2>2. /\ presence' \in [Nodes -> {"online", "offline"}]
        /\ \A m \in enrolled \ {n} : presence'[m] = presence[m]
        /\ n \in enrolled => presence'[n] = "offline"
    BY <1>1, <2>1 DEF HubInv, StoreTypes
  <2> QED BY <1>1, <2>1, <2>2, HandlerKeepsInv
<1> QED BY <1>2, <1>3, <1>4

LEMMA NodeForwardsKeepsInv ==
    ASSUME HubInv, NEW c \in NodeConns, NEW l \in Links, NodeForwards(c, l) PROVE HubInv'
<1>1. /\ nodeConn[c].pc = "serving" /\ nodeConn' = [nodeConn EXCEPT ![c].pc = "failing"]
      /\ UNCHANGED <<hubTables, ctrlConn, enrolled, presence>>
      /\ presence \in [Nodes -> {"online", "offline"}]
  BY DEF NodeForwards, HubInv, StoreTypes
<1> QED BY <1>1, HandlerKeepsInv DEF Owning

(* The steps that only move frames and sockets.                            *)
LEMMA QueuesKeepInv ==
    ASSUME HubInv, UNCHANGED <<nodes, links, nodeConn, ctrlConn, enrolled, presence>>
    PROVE  HubInv'
  BY DEF HubInv, NodeTypes, LinkTypes, StoreTypes, Registered, Routed, Attached, IsOpen,
         OnlineIsOwned

LEMMA NextHubInv == HubInv /\ [HubNext]_hubVars => HubInv'
<1> SUFFICES ASSUME HubInv, [HubNext]_hubVars PROVE HubInv'
  OBVIOUS
<1>1. CASE UNCHANGED hubVars \/ RunTask
  BY <1>1, QueuesKeepInv DEF hubVars, RunTask, hubTables
<1>2. ASSUME NEW c \in NodeConns, NodeConnLost(c) \/ NodeReceives(c) PROVE HubInv'
  BY <1>2, QueuesKeepInv DEF NodeConnLost, NodeReceives, hubTables
<1>3. ASSUME NEW k \in CtrlConns, CtrlConnLost(k) \/ CtrlForwards(k) PROVE HubInv'
  BY <1>3, QueuesKeepInv DEF CtrlConnLost, CtrlForwards, hubTables
<1>4. ASSUME NEW n \in Nodes, NEW l \in Links, SessionFails(n, l) PROVE HubInv'
  BY <1>4, QueuesKeepInv DEF SessionFails, hubTables
<1>5. ASSUME NEW c \in NodeConns,
             \/ NodeMarkedOnline(c) \/ HandleNode(c) \/ DropNode(c) \/ NodeMarkedOffline(c)
             \/ \E l \in Links : NodeForwards(c, l)
      PROVE  HubInv'
  BY <1>5, PresenceKeepsInv, HandleNodeKeepsInv, DropNodeKeepsInv, NodeForwardsKeepsInv
<1>6. ASSUME NEW l \in Links, HandleController(l) \/ RevokeLink(l) PROVE HubInv'
  BY <1>6, HandleControllerKeepsInv, RevokeLinkKeepsInv
<1>7. ASSUME NEW k \in CtrlConns, DropController(k) PROVE HubInv'
  BY <1>7, DropControllerKeepsInv
<1>8. ASSUME NEW n \in Nodes,
             NodeDials(n) \/ RemoveNodeRows(n) \/ \E o \in Owners : OpenLink(n, o)
      PROVE  HubInv'
  BY <1>8, NodeDialsKeepsInv, RemoveNodeRowsKeepsInv, OpenLinkKeepsInv
<1>9. CASE RemoveNode
  BY <1>9, RemoveNodeKeepsInv
<1> QED BY <1>1, <1>2, <1>3, <1>4, <1>5, <1>6, <1>7, <1>8, <1>9 DEF HubNext

LEMMA HubInvAlways == HubSpec => []HubInv
  BY InitHubInv, NextHubInv, PTL DEF HubSpec

-----------------------------------------------------------------------------
(* An open link leads to a registered socket of its node                   *)
(* (fabric_hub.go:87-94, 233-249, 355-373).                                *)
THEOREM LinksHaveNodesAlways == HubSpec => []LinksHaveNodes
<1>1. HubInv => LinksHaveNodes
  BY DEF HubInv, Routed, LinksHaveNodes
<1> QED BY <1>1, HubInvAlways, PTL

(* A controller socket that is served on an open link is the one the link  *)
(* forwards to (fabric_hub.go:143-148).                                    *)
THEOREM OneControllerAlways == HubSpec => []OneControllerPerLink
<1>1. HubInv => OneControllerPerLink
  BY DEF HubInv, Attached, OneControllerPerLink
<1> QED BY <1>1, HubInvAlways, PTL

(* A node is shown online only while one of its handlers runs              *)
(* (directory/server.go:596-603).                                          *)
THEOREM OnlineIsOwnedAlways == HubSpec => []OnlineIsOwned
<1>1. HubInv => OnlineIsOwned
  BY DEF HubInv
<1> QED BY <1>1, HubInvAlways, PTL

-----------------------------------------------------------------------------
(* The effects that are still to come and the frames on their way          *)

Work == [do : {"close"}, conn : NodeConns \cup CtrlConns, kind : {""}, link : {NoLink}]
        \cup [do : {"notify"}, conn : NodeConns, kind : {"link_open", "peer_closed"}, link : Links]
        \cup [do : {"remove"}, conn : {NoConn}, kind : Nodes, link : {NoLink}]

TrafficTypes ==
    /\ closed \subseteq NodeConns \cup CtrlConns
    /\ tasks \subseteq Seq(Work) \ {<<>>}
    /\ inbox \in [NodeConns -> Seq(Envelope)]
    /\ sessions \in [Nodes -> [Links -> {"none", "open", "active"}]]

LEMMA EffectsOfLink ==
    ASSUME NodeTypes, LinkTypes, NEW l \in Links
    PROVE  /\ CloseCtrl(l) \in Seq(Work)
           /\ \A n \in Nodes, m \in {"link_open", "peer_closed"} : TellNode(n, m, l) \in Seq(Work)
<1>1. CloseCtrl(l) \in Seq(Work)
  <2>1. CASE links[l].ctrl \in closed \cup {NoConn}
    BY <2>1 DEF CloseCtrl
  <2>2. CASE links[l].ctrl \notin closed \cup {NoConn}
    <3>1. links[l].ctrl \in CtrlConns
      BY <2>2 DEF LinkTypes, LinkRecord
    <3>2. Close(links[l].ctrl) \in Work
      BY <3>1 DEF Close, Work
    <3> QED BY <2>2, <3>2 DEF CloseCtrl
  <2> QED BY <2>1, <2>2
<1>2. ASSUME NEW n \in Nodes, NEW m \in {"link_open", "peer_closed"}
      PROVE  TellNode(n, m, l) \in Seq(Work)
  <2>1. CASE nodes[n] \in closed \cup {NoConn}
    BY <2>1 DEF TellNode
  <2>2. CASE nodes[n] \notin closed \cup {NoConn}
    <3>1. nodes[n] \in NodeConns
      BY <2>2 DEF NodeTypes
    <3>2. Notify(nodes[n], m, l) \in Work
      BY <3>1 DEF Notify, Work
    <3> QED BY <2>2, <3>2 DEF TellNode
  <2> QED BY <2>1, <2>2
<1> QED BY <1>1, <1>2

(* The rounds of a removal over links that lead to nodes are effects.      *)
LEMMA RoundsAreWork ==
    ASSUME NodeTypes, LinkTypes, NEW n,
           NEW S \in SUBSET Links, \A l \in S : links[l].node \in Nodes,
           NEW order \in Seq(S)
    PROVE  RemovalRounds(n, order) \in Seq(Work)
<1> DEFINE m       == Len(order)
           More(s, k) == s \o RemovalWork(n, order[k])
           step    == [k \in 1..m |-> [s \in Seq(Work) |-> More(s, k)]]
           UpTo(f) == f = [k \in 0..Len(order) |->
                             IF k = 0 THEN <<>> ELSE f[k - 1] \o RemovalWork(n, order[k])]
<1>1. m \in Nat /\ <<>> \in Seq(Work)
  OBVIOUS
<1>2. step \in [1..m -> [Seq(Work) -> Seq(Work)]]
  <2>1. ASSUME NEW k \in 1..m, NEW s \in Seq(Work) PROVE More(s, k) \in Seq(Work)
    <3>1. PICK l \in S : l = order[k]
      OBVIOUS
    <3>2. CloseCtrl(l) \in Seq(Work) /\ TellNode(links[l].node, "peer_closed", l) \in Seq(Work)
      BY EffectsOfLink
    <3>3. RemovalWork(n, l) \in Seq(Work)
      BY <3>2 DEF RemovalWork
    <3>4. s \o RemovalWork(n, l) \in Seq(Work)
      BY <3>3
    <3> QED BY <3>1, <3>4
  <2> HIDE DEF More
  <2> QED BY <2>1
<1>3. PICK g \in [0..m -> Seq(Work)] : g[0] = <<>> /\ \A k \in 1..m : g[k] = step[k][g[k - 1]]
  <2> HIDE DEF step, m
  <2>1. HasRecursion(Seq(Work), <<>>, m, step)
    BY <1>1, <1>2, RecursionExists
  <2> QED BY <2>1 DEF HasRecursion
<1>4. \A k \in 1..m : g[k] = More(g[k - 1], k)
  <2> TAKE k \in 1..m
  <2>1. g[k - 1] \in Seq(Work)
    <3>1. k - 1 \in 0..m
      BY <1>1
    <3> HIDE DEF m, step
    <3> QED BY <1>3, <3>1
  <2>2. step[k][g[k - 1]] = More(g[k - 1], k)
    <3> HIDE DEF More
    <3> QED BY <2>1
  <2> HIDE DEF More, step
  <2> QED BY <1>3, <2>2
<1>5. UpTo(g)
  <2>1. \A k \in 0..m : g[k] = IF k = 0 THEN <<>> ELSE More(g[k - 1], k)
    <3> HIDE DEF More
    <3> QED BY <1>1, <1>3, <1>4
  <2>2. g = [k \in 0..m |-> IF k = 0 THEN <<>> ELSE More(g[k - 1], k)]
    <3> HIDE DEF More
    <3> QED BY <1>3, <2>1
  <2> QED BY <2>2
<1>6. PICK f : UpTo(f) /\ RemovalRounds(n, order) = f[m]
  <2>1. UpTo(CHOOSE f : UpTo(f))
    BY <1>5
  <2>2. RemovalRounds(n, order) = (CHOOSE f : UpTo(f))[m]
    BY DEF RemovalRounds
  <2> QED BY <2>1, <2>2
<1>7. \A k \in 0..m : f[k] = IF k = 0 THEN <<>> ELSE More(f[k - 1], k)
  <2>1. f = [k \in 0..m |-> IF k = 0 THEN <<>> ELSE More(f[k - 1], k)]
    BY <1>6
  <2> HIDE DEF More, UpTo, m
  <2> QED BY <2>1
<1> DEFINE T == {k \in 0..m : f[k] \in Seq(Work)}
<1> HIDE DEF UpTo, m, step
<1>8. 0 \in T
  <2>1. 0 \in 0..m
    BY <1>1
  <2>2. f[0] = <<>>
    BY <1>7, <2>1
  <2> QED BY <1>1, <2>1, <2>2
<1>9. ASSUME NEW k \in 1..m, k - 1 \in T PROVE k \in T
  <2>1. f[k - 1] \in Seq(Work) /\ k \in 0..m /\ k # 0
    BY <1>9
  <2>2. More(f[k - 1], k) \in Seq(Work)
    <3>1. step[k][f[k - 1]] = More(f[k - 1], k)
      <4> HIDE DEF More
      <4> QED BY <2>1 DEF step
    <3> HIDE DEF More
    <3> QED BY <1>2, <2>1, <3>1
  <2> HIDE DEF More
  <2> QED BY <1>7, <2>1, <2>2
<1>10. 0..m \subseteq T
  <2> HIDE DEF T
  <2> QED BY <1>1, <1>8, <1>9, BoundedInduction
<1>11. m \in T
  BY <1>1, <1>10
<1> QED BY <1>6, <1>11

LEMMA OrdersAreSequences ==
    ASSUME NEW S \in SUBSET Links, NEW order \in SetToSeqs(S) PROVE order \in Seq(S)
<1>1. Cardinality(S) \in Nat
  BY FabricHubAssumption, FS_Subset, FS_CardinalityType
<1>2. order \in [1..Cardinality(S) -> S]
  BY DEF SetToSeqs
<1> QED BY <1>1, <1>2, SeqDef

LEMMA SpawnKeepsTasks ==
    ASSUME TrafficTypes, NEW T \in SUBSET Seq(Work), Spawn(T)
    PROVE  tasks' \subseteq Seq(Work) \ {<<>>}
BY DEF Spawn, TrafficTypes

LEMMA CloseKeepsTypes ==
    ASSUME TrafficTypes, NEW S \in SUBSET (NodeConns \cup CtrlConns), CloseSockets(S)
    PROVE  closed' \subseteq NodeConns \cup CtrlConns /\ inbox' \in [NodeConns -> Seq(Envelope)]
BY DEF CloseSockets, TrafficTypes

(* What is left of a call when its first effect is over.                   *)
LEMMA RestOfTask ==
    ASSUME TrafficTypes, NEW t \in tasks
    PROVE  /\ t \in Seq(Work) /\ t # <<>> /\ Head(t) \in Work
           /\ Len(t) # 1 => Tail(t) \in Seq(Work) \ {<<>>}
<1>1. t \in Seq(Work) /\ t # <<>>
  BY DEF TrafficTypes
<1>2. Head(t) \in Work /\ Tail(t) \in Seq(Work) /\ Len(Tail(t)) = Len(t) - 1
      /\ Len(t) \in Nat \ {0}
  BY <1>1, HeadTailProperties, EmptySeq
<1>3. Len(t) # 1 => Tail(t) # <<>>
  BY <1>2
<1> QED BY <1>1, <1>2, <1>3

LEMMA RunTaskKeepsTraffic == ASSUME TrafficTypes, RunTask PROVE TrafficTypes'
<1>1. PICK t \in tasks :
        /\ tasks' = IF Len(t) = 1 THEN tasks \ {t} ELSE (tasks \ {t}) \cup {Tail(t)}
        /\ \/ Head(t).do = "close" /\ CloseSockets({Head(t).conn})
           \/ /\ Head(t).do = "notify" /\ closed' = closed
              /\ \/ inbox' = inbox
                 \/ inbox' = [inbox EXCEPT ![Head(t).conn] =
                        Append(@, [kind |-> Head(t).kind, link |-> Head(t).link])]
        /\ sessions' = sessions
  BY DEF RunTask
<1>2. tasks' \subseteq Seq(Work) \ {<<>>} /\ Head(t) \in Work
  <2>1. tasks \subseteq Seq(Work) \ {<<>>}
    BY DEF TrafficTypes
  <2> QED BY <1>1, <2>1, RestOfTask
<1>3. CASE Head(t).do = "close" /\ CloseSockets({Head(t).conn})
  <2>1. Head(t).conn \in NodeConns \cup CtrlConns
    BY <1>2, <1>3 DEF Work
  <2> QED BY <1>1, <1>2, <1>3, <2>1, CloseKeepsTypes DEF TrafficTypes
<1>4. CASE Head(t).do = "notify" /\ closed' = closed
  <2>1. Head(t).conn \in NodeConns
        /\ [kind |-> Head(t).kind, link |-> Head(t).link] \in Envelope
    BY <1>2, <1>4 DEF Work, Envelope
  <2>2. inbox' \in [NodeConns -> Seq(Envelope)]
    <3>1. inbox \in [NodeConns -> Seq(Envelope)]
      BY DEF TrafficTypes
    <3>2. Append(inbox[Head(t).conn], [kind |-> Head(t).kind, link |-> Head(t).link])
            \in Seq(Envelope)
      BY <2>1, <3>1
    <3>3. CASE inbox' = inbox
      BY <3>1, <3>3
    <3>4. CASE inbox' = [inbox EXCEPT ![Head(t).conn] =
                        Append(@, [kind |-> Head(t).kind, link |-> Head(t).link])]
      BY <2>1, <3>1, <3>2, <3>4
    <3>5. CASE Head(t).do = "close"
      BY <1>4, <3>5
    <3> QED BY <1>1, <1>4, <3>3, <3>4
  <2> QED BY <1>1, <1>2, <1>4, <2>2 DEF TrafficTypes
<1> QED BY <1>1, <1>3, <1>4

LEMMA RemoveNodeKeepsTraffic == ASSUME HubInv, TrafficTypes, RemoveNode PROVE TrafficTypes'
<1>0. PICK t \in tasks :
        LET n == Head(t).kind
            S == {l \in Links : IsOpen(l) /\ n \in {links[l].node, links[l].owner}}
            socket == IF nodes[n] = NoConn THEN <<>> ELSE <<Close(nodes[n])>>
        IN  /\ Head(t).do = "remove"
            /\ \E order \in SetToSeqs(S) :
                 tasks' = (tasks \ {t}) \cup ({RemovalRounds(n, order) \o socket} \ {<<>>})
            /\ UNCHANGED <<closed, inbox, sessions>>
  BY DEF RemoveNode
<1> DEFINE n == Head(t).kind
           S == {l \in Links : IsOpen(l) /\ n \in {links[l].node, links[l].owner}}
           socket == IF nodes[n] = NoConn THEN <<>> ELSE <<Close(nodes[n])>>
<1>1. /\ Head(t).do = "remove" /\ \A l \in S : IsOpen(l)
      /\ UNCHANGED <<closed, inbox, sessions>>
  BY <1>0
<1>2. PICK order \in SetToSeqs(S) :
        tasks' = (tasks \ {t}) \cup ({RemovalRounds(n, order) \o socket} \ {<<>>})
  BY <1>0
<1>3. n \in Nodes
  BY <1>1, RestOfTask DEF Work
<1>4. socket \in Seq(Work)
  <2>1. CASE nodes[n] = NoConn
    BY <2>1
  <2>2. CASE nodes[n] # NoConn
    <3>1. nodes[n] \in NodeConns
      BY <1>3, <2>2 DEF HubInv, NodeTypes
    <3>2. Close(nodes[n]) \in Work
      BY <3>1 DEF Close, Work
    <3> QED BY <2>2, <3>2
  <2> QED BY <2>1, <2>2
<1> HIDE DEF S
<1>5. RemovalRounds(n, order) \in Seq(Work)
  <2>1. S \in SUBSET Links
    BY DEF S
  <2>2. order \in Seq(S)
    BY <2>1, OrdersAreSequences
  <2>3. \A l \in S : links[l].node \in Nodes
    BY <1>1, <2>1 DEF HubInv, Routed
  <2> QED BY <2>1, <2>2, <2>3, RoundsAreWork DEF HubInv
<1>6. RemovalRounds(n, order) \o socket \in Seq(Work)
  <2> HIDE DEF n, socket
  <2> QED BY <1>4, <1>5
<1>7. tasks' \subseteq Seq(Work) \ {<<>>}
  <2>1. tasks \subseteq Seq(Work) \ {<<>>}
    BY DEF TrafficTypes
  <2> HIDE DEF n, socket
  <2> QED BY <1>2, <1>6, <2>1
<1> QED BY <1>1, <1>7 DEF TrafficTypes

(* The steps that leave work behind.                                       *)
LEMMA SpawningKeepsTraffic ==
    ASSUME HubInv, TrafficTypes,
           \/ \E c \in NodeConns : DropNode(c)
           \/ \E l \in Links : RevokeLink(l)
           \/ \E n \in Nodes : RemoveNodeRows(n) \/ \E o \in Owners : OpenLink(n, o)
    PROVE  TrafficTypes'
<1>1. ASSUME NEW c \in NodeConns, DropNode(c) PROVE TrafficTypes'
  <2>1. {CloseCtrl(l) : l \in LinksTo(nodeConn[c].node)} \in SUBSET Seq(Work)
    BY EffectsOfLink DEF LinksTo, HubInv
  <2>2. Spawn({CloseCtrl(l) : l \in LinksTo(nodeConn[c].node)}) /\ CloseSockets({c})
        /\ sessions' = sessions
    BY <1>1 DEF DropNode
  <2> QED BY <2>1, <2>2, SpawnKeepsTasks, CloseKeepsTypes DEF TrafficTypes
<1>2. ASSUME NEW l \in Links, RevokeLink(l) PROVE TrafficTypes'
  <2>1. links[l].node \in Nodes
    BY <1>2 DEF RevokeLink, HubInv, Routed
  <2>2. CloseCtrl(l) \in Seq(Work) /\ TellNode(links[l].node, "peer_closed", l) \in Seq(Work)
    BY <2>1, EffectsOfLink DEF HubInv
  <2>3. {RevocationWork(l)} \in SUBSET Seq(Work)
    BY <2>2 DEF RevocationWork
  <2>4. Spawn({RevocationWork(l)}) /\ UNCHANGED <<closed, inbox, sessions>>
    BY <1>2 DEF RevokeLink
  <2> QED BY <2>3, <2>4, SpawnKeepsTasks DEF TrafficTypes
<1>3. ASSUME NEW n \in Nodes, RemoveNodeRows(n) PROVE TrafficTypes'
  <2> DEFINE removal == [do |-> "remove", conn |-> NoConn, kind |-> n, link |-> NoLink]
  <2>1. removal \in Work
    BY DEF Work
  <2>2. {<<removal>>} \in SUBSET Seq(Work)
    <3> HIDE DEF removal
    <3> QED BY <2>1
  <2>3. Spawn({<<removal>>}) /\ UNCHANGED <<closed, inbox, sessions>>
    BY <1>3 DEF RemoveNodeRows
  <2> QED BY <2>2, <2>3, SpawnKeepsTasks DEF TrafficTypes
<1>4. ASSUME NEW n \in Nodes, NEW o \in Owners, OpenLink(n, o) PROVE TrafficTypes'
  <2>1. PICK l \in Links : Spawn({TellNode(n, "link_open", l)}) /\ UNCHANGED <<closed, inbox, sessions>>
    BY <1>4 DEF OpenLink
  <2>2. {TellNode(n, "link_open", l)} \in SUBSET Seq(Work)
    BY EffectsOfLink DEF HubInv
  <2> QED BY <2>1, <2>2, SpawnKeepsTasks DEF TrafficTypes
<1> QED BY <1>1, <1>2, <1>3, <1>4

(* The steps that at most close a socket.                                  *)
LEMMA ClosingKeepsTraffic ==
    ASSUME HubInv, TrafficTypes,
           \/ \E c \in NodeConns : \/ NodeMarkedOnline(c) \/ HandleNode(c) \/ NodeConnLost(c)
                                   \/ NodeMarkedOffline(c) \/ \E l \in Links : NodeForwards(c, l)
           \/ \E l \in Links : HandleController(l)
           \/ \E k \in CtrlConns : CtrlConnLost(k) \/ DropController(k)
           \/ \E n \in Nodes : NodeDials(n)
    PROVE  TrafficTypes'
<1>1. tasks' = tasks /\ sessions' = sessions
  BY DEF NodeMarkedOnline, HandleNode, NodeConnLost, NodeMarkedOffline, NodeForwards,
         HandleController, CtrlConnLost, DropController, NodeDials
<1>2. \/ closed' = closed /\ inbox' = inbox
      \/ \E k \in NodeConns \cup CtrlConns : CloseSockets({k})
  <2>1. ASSUME NEW c \in NodeConns, NodeMarkedOnline(c) \/ HandleNode(c) \/ NodeConnLost(c)
                                    \/ NodeMarkedOffline(c) \/ \E l \in Links : NodeForwards(c, l)
        PROVE  (closed' = closed /\ inbox' = inbox) \/ CloseSockets({c})
    BY <2>1 DEF NodeMarkedOnline, HandleNode, NodeConnLost, NodeMarkedOffline, NodeForwards
  <2>2. ASSUME NEW l \in Links, HandleController(l)
        PROVE  (closed' = closed /\ inbox' = inbox) \/ \E k \in CtrlConns : CloseSockets({k})
    <3>1. Fresh(ctrlConn) \in CtrlConns
      BY <2>2, FreshCtrlConn DEF HandleController, HubInv
    <3> QED BY <2>2, <3>1 DEF HandleController
  <2>3. ASSUME NEW k \in CtrlConns, CtrlConnLost(k) \/ DropController(k)
        PROVE  (closed' = closed /\ inbox' = inbox) \/ CloseSockets({k})
    BY <2>3 DEF CtrlConnLost, DropController
  <2>4. ASSUME NEW n \in Nodes, NodeDials(n) PROVE closed' = closed /\ inbox' = inbox
    BY <2>4 DEF NodeDials
  <2> QED BY <2>1, <2>2, <2>3, <2>4
<1> QED BY <1>1, <1>2, CloseKeepsTypes DEF TrafficTypes

LEMMA CtrlForwardsKeepsTraffic ==
    ASSUME HubInv, TrafficTypes, NEW k \in CtrlConns, CtrlForwards(k) PROVE TrafficTypes'
<1> DEFINE l == ctrlConn[k].link
           n == links[l].node
<1>1. tasks' = tasks /\ sessions' = sessions
  BY DEF CtrlForwards
<1>2. CASE CloseSockets({k})
  BY <1>1, <1>2, CloseKeepsTypes DEF TrafficTypes
<1>3. CASE /\ IsOpen(l) /\ nodes[n] \notin closed \cup {NoConn}
           /\ inbox' = [inbox EXCEPT ![nodes[n]] = Append(@, [kind |-> "data", link |-> l])]
           /\ closed' = closed
  <2>1. l \in Links
    BY DEF CtrlForwards, HubInv, Attached
  <2>2. n \in Nodes
    BY <1>3, <2>1 DEF HubInv, Routed
  <2>3. nodes[n] \in NodeConns
    BY <1>3, <2>2 DEF HubInv, NodeTypes
  <2>4. [kind |-> "data", link |-> l] \in Envelope
    BY <2>1 DEF Envelope
  <2>5. inbox \in [NodeConns -> Seq(Envelope)]
    BY DEF TrafficTypes
  <2>6. Append(inbox[nodes[n]], [kind |-> "data", link |-> l]) \in Seq(Envelope)
    <3> HIDE DEF l, n
    <3> QED BY <2>3, <2>4, <2>5
  <2>7. inbox' \in [NodeConns -> Seq(Envelope)]
    <3> HIDE DEF l, n
    <3> QED BY <1>3, <2>3, <2>5, <2>6
  <2> QED BY <1>1, <1>3, <2>7 DEF TrafficTypes
<1> QED BY <1>2, <1>3 DEF CtrlForwards

LEMMA SessionsKeepTraffic ==
    ASSUME TrafficTypes,
           \/ \E c \in NodeConns : NodeReceives(c)
           \/ \E n \in Nodes, l \in Links : SessionFails(n, l)
    PROVE  TrafficTypes'
<1>1. ASSUME NEW c \in NodeConns, NodeReceives(c) PROVE TrafficTypes'
  <2> DEFINE f == Head(inbox[c])
             n == nodeConn[c].node
  <2>1. tasks' = tasks /\ inbox[c] # <<>> /\ inbox[c] \in Seq(Envelope)
    BY <1>1 DEF NodeReceives, TrafficTypes
  <2>2. f \in Envelope /\ Tail(inbox[c]) \in Seq(Envelope)
    BY <2>1
  <2>3. CASE CloseSockets({c}) /\ sessions' = sessions
    BY <2>1, <2>3, CloseKeepsTypes DEF TrafficTypes
  <2>4. CASE /\ inbox' = [inbox EXCEPT ![c] = Tail(@)] /\ closed' = closed
             /\ sessions' = [sessions EXCEPT ![n][f.link] = SessionAfter(f.kind, @)]
    <3>1. inbox' \in [NodeConns -> Seq(Envelope)]
      BY <2>2, <2>4 DEF TrafficTypes
    <3>2. \A state \in {"none", "open", "active"} : SessionAfter(f.kind, state) \in {"none", "open", "active"}
      BY <2>2 DEF SessionAfter, Envelope
    <3>3. sessions' \in [Nodes -> [Links -> {"none", "open", "active"}]]
      <4>1. sessions \in [Nodes -> [Links -> {"none", "open", "active"}]] /\ f.link \in Links
        BY <2>2 DEF TrafficTypes, Envelope
      <4> HIDE DEF f, n
      <4>2. CASE n \in Nodes
        <5>1. SessionAfter(f.kind, sessions[n][f.link]) \in {"none", "open", "active"}
          BY <3>2, <4>1, <4>2
        <5> QED BY <2>4, <4>1, <4>2, <5>1
      <4>3. CASE n \notin Nodes
        BY <2>4, <4>1, <4>3
      <4> QED BY <4>2, <4>3
    <3> QED BY <2>1, <2>4, <3>1, <3>3 DEF TrafficTypes
  <2> QED BY <1>1, <2>3, <2>4 DEF NodeReceives
<1>2. ASSUME NEW n \in Nodes, NEW l \in Links, SessionFails(n, l) PROVE TrafficTypes'
  BY <1>2 DEF SessionFails, TrafficTypes
<1> QED BY <1>1, <1>2

LEMMA NextTraffic == ASSUME HubInv, TrafficTypes, [HubNext]_hubVars PROVE TrafficTypes'
<1>1. CASE UNCHANGED hubVars
  BY <1>1 DEF hubVars, TrafficTypes
<1>2. CASE RunTask \/ RemoveNode
  BY <1>2, RunTaskKeepsTraffic, RemoveNodeKeepsTraffic
<1>3. ASSUME NEW c \in NodeConns,
             \/ NodeMarkedOnline(c) \/ HandleNode(c) \/ NodeConnLost(c)
             \/ DropNode(c) \/ NodeMarkedOffline(c) \/ NodeReceives(c)
             \/ \E l \in Links : NodeForwards(c, l)
      PROVE  TrafficTypes'
  BY <1>3, SpawningKeepsTraffic, ClosingKeepsTraffic, SessionsKeepTraffic
<1>4. ASSUME NEW l \in Links,
             (\E n \in Nodes : SessionFails(n, l)) \/ HandleController(l) \/ RevokeLink(l)
      PROVE  TrafficTypes'
  BY <1>4, SpawningKeepsTraffic, ClosingKeepsTraffic, SessionsKeepTraffic
<1>5. ASSUME NEW k \in CtrlConns, CtrlConnLost(k) \/ DropController(k) \/ CtrlForwards(k)
      PROVE  TrafficTypes'
  BY <1>5, ClosingKeepsTraffic, CtrlForwardsKeepsTraffic
<1>6. ASSUME NEW n \in Nodes,
             NodeDials(n) \/ RemoveNodeRows(n) \/ \E o \in Owners : OpenLink(n, o)
      PROVE  TrafficTypes'
  BY <1>6, SpawningKeepsTraffic, ClosingKeepsTraffic
<1> QED BY <1>1, <1>2, <1>3, <1>4, <1>5, <1>6 DEF HubNext

(* Every variable of the hub keeps its type (relay/fabric_hub.go).         *)
THEOREM HubTypesCorrect == HubSpec => []HubTypeOK
<1>1. HubInit => TrafficTypes
  <2> SUFFICES ASSUME HubInit PROVE TrafficTypes
    OBVIOUS
  <2>1. <<>> \in Seq(Envelope)
    OBVIOUS
  <2> QED BY <2>1 DEF HubInit, TrafficTypes
<1>2. HubSpec => []TrafficTypes
  BY <1>1, HubInvAlways, NextTraffic, PTL DEF HubSpec
<1>3. HubInv /\ TrafficTypes => HubTypeOK
  <2> SUFFICES ASSUME HubInv, TrafficTypes PROVE HubTypeOK
    OBVIOUS
  <2>1. Work \subseteq Effect
    BY DEF Work, Effect
  <2>2. tasks \subseteq Seq(Effect)
    <3>1. \A t \in Seq(Work) : t \in Seq(Effect)
      BY <2>1
    <3> QED BY <3>1 DEF TrafficTypes
  <2> QED BY <2>2 DEF HubInv, NodeTypes, LinkTypes, StoreTypes, LinkRecord, NodeHandler,
                      CtrlHandler, TrafficTypes, HubTypeOK
<1> QED BY <1>2, <1>3, HubInvAlways, PTL

-----------------------------------------------------------------------------
(* The outgoing queue: relay/scheduler.go                                  *)

QueueTypes ==
    /\ control \in Seq(Frames)
    /\ lanes \in [LaneIds -> Seq(Frames)]
    /\ streamOrder \in Seq(LaneIds)
    /\ nextStream \in Nat

(* What a sender will try again is a frame.                                *)
SenderTypes ==
    /\ sender \in [Senders -> [pc : {"idle", "waiting", "woken", "gone"},
                               frame : Frames \cup {NoFrame}]]
    /\ \A s \in Senders : sender[s].pc \in {"waiting", "woken"} => sender[s].frame \in Frames
    /\ arrived \in 0..MaxFrames

(* LanesAreScheduled, in terms of the places of the order.                 *)
Placed(l)     == \E i \in 1..Len(streamOrder) : streamOrder[i] = l
OrderIsExact  == \A l \in LaneIds : lanes[l] # <<>> <=> Placed(l)
OrderIsUnique == \A i, j \in 1..Len(streamOrder) : streamOrder[i] = streamOrder[j] => i = j

SchedInv == QueueTypes /\ SenderTypes /\ OrderIsExact /\ OrderIsUnique

LEMMA InitSchedInv == SchedInit => SchedInv
<1> SUFFICES ASSUME SchedInit PROVE SchedInv
  OBVIOUS
<1>1. QueueTypes
  BY DEF SchedInit, QueueTypes
<1>2. SenderTypes
  BY SchedulerAssumption DEF SchedInit, SenderTypes
<1>3. OrderIsExact /\ OrderIsUnique
  BY DEF SchedInit, OrderIsExact, OrderIsUnique, Placed
<1> QED BY <1>1, <1>2, <1>3 DEF SchedInv

-----------------------------------------------------------------------------
(* A frame is queued                                                       *)

LEMMA EnqueueKeepsOrder ==
    ASSUME QueueTypes, OrderIsExact, OrderIsUnique, NEW f \in Frames, EnqueueLocked(f)
    PROVE  QueueTypes' /\ OrderIsExact' /\ OrderIsUnique'
<1> DEFINE l == f.stream
<1>0. l \in LaneIds /\ nextStream' = nextStream
  BY DEF Frames, EnqueueLocked
<1>1. CASE BypassesLanes(f)
  <2>1. control' = Append(control, f) /\ UNCHANGED <<lanes, streamOrder>>
    BY <1>1 DEF EnqueueLocked
  <2>2. QueueTypes'
    BY <1>0, <2>1 DEF QueueTypes
  <2> QED BY <2>1, <2>2 DEF OrderIsExact, OrderIsUnique, Placed
<1>2. CASE ~BypassesLanes(f)
  <2>1. /\ lanes' = [lanes EXCEPT ![l] = Append(@, f)]
        /\ streamOrder' = OrderWith(l)
        /\ UNCHANGED control
    BY <1>2 DEF EnqueueLocked
  <2>2. lanes[l] \in Seq(Frames) /\ Append(lanes[l], f) \in Seq(Frames) /\ Append(lanes[l], f) # <<>>
    <3>1. lanes[l] \in Seq(Frames)
      BY <1>0 DEF QueueTypes
    <3> HIDE DEF l
    <3> QED BY <3>1, AppendProperties
  <2>3. /\ lanes'[l] # <<>>
        /\ \A m \in LaneIds \ {l} : lanes'[m] = lanes[m]
    BY <1>0, <2>1, <2>2 DEF QueueTypes
  <2>4. CASE lanes[l] = <<>>
    <3>1. streamOrder' = Append(streamOrder, l) /\ streamOrder \in Seq(LaneIds)
      BY <2>1, <2>4 DEF OrderWith, QueueTypes
    <3>2. /\ Len(streamOrder') = Len(streamOrder) + 1 /\ Len(streamOrder) \in Nat
          /\ streamOrder'[Len(streamOrder) + 1] = l
          /\ \A i \in 1..Len(streamOrder) : streamOrder'[i] = streamOrder[i]
          /\ streamOrder' \in Seq(LaneIds)
      BY <1>0, <3>1
    <3>3. ~Placed(l)
      BY <1>0, <2>4 DEF OrderIsExact
    <3>4. OrderIsExact'
      BY <1>0, <2>3, <3>2 DEF OrderIsExact, Placed
    <3>5. OrderIsUnique'
      BY <3>2, <3>3 DEF OrderIsUnique, Placed
    <3>6. QueueTypes'
      BY <1>0, <2>1, <2>2, <3>2 DEF QueueTypes
    <3> QED BY <3>4, <3>5, <3>6
  <2>5. CASE lanes[l] # <<>>
    <3>1. streamOrder' = streamOrder
      BY <2>1, <2>5 DEF OrderWith
    <3>2. OrderIsExact'
      BY <1>0, <2>3, <2>5, <3>1 DEF OrderIsExact, Placed
    <3>3. QueueTypes'
      BY <1>0, <2>1, <2>2, <3>1 DEF QueueTypes
    <3> QED BY <3>1, <3>2, <3>3 DEF OrderIsUnique
  <2> QED BY <2>4, <2>5
<1> QED BY <1>1, <1>2

(* The frame of a sender is queued or kept.                                *)
LEMMA EnqueueTurnKeepsInv ==
    ASSUME SchedInv, NEW s \in Senders, NEW f \in Frames, EnqueueTurn(s, f),
           arrived' \in 0..MaxFrames
    PROVE  SchedInv'
<1>1. CASE EnqueueLocked(f) /\ sender' = [sender EXCEPT ![s] = [pc |-> "idle", frame |-> NoFrame]]
  <2>1. SenderTypes'
    BY <1>1 DEF SchedInv, SenderTypes
  <2> QED BY <1>1, <2>1, EnqueueKeepsOrder DEF SchedInv
<1>2. CASE /\ sender' = [sender EXCEPT ![s] = [pc |-> "waiting", frame |-> f]]
           /\ UNCHANGED schedQueue
  <2>1. SenderTypes'
    BY <1>2 DEF SchedInv, SenderTypes
  <2> QED BY <1>2, <2>1 DEF SchedInv, QueueTypes, OrderIsExact, OrderIsUnique, Placed, schedQueue
<1> QED BY <1>1, <1>2 DEF EnqueueTurn

LEMMA ForwardKeepsInv == ASSUME SchedInv, NEW s \in Senders, ForwardFrame(s) PROVE SchedInv'
<1>1. PICK kind \in Traffic, size \in FrameSizes :
        EnqueueTurn(s, [from |-> s, n |-> arrived', stream |-> kind[1],
                        control |-> kind[2], size |-> size])
  BY DEF ForwardFrame
<1>2. arrived' \in 0..MaxFrames
  BY SchedulerAssumption DEF ForwardFrame, SchedInv, SenderTypes
<1>3. kind[1] \in LaneIds /\ kind[2] \in BOOLEAN
  BY SchedulerAssumption DEF LaneIds
<1>4. [from |-> s, n |-> arrived', stream |-> kind[1], control |-> kind[2], size |-> size] \in Frames
  BY <1>2, <1>3 DEF Frames
<1> QED BY <1>1, <1>2, <1>4, EnqueueTurnKeepsInv

LEMMA RetryKeepsInv == ASSUME SchedInv, NEW s \in Senders, RetryEnqueue(s) PROVE SchedInv'
<1>1. sender[s].frame \in Frames /\ arrived' \in 0..MaxFrames /\ EnqueueTurn(s, sender[s].frame)
  BY DEF RetryEnqueue, SchedInv, SenderTypes
<1> QED BY <1>1, EnqueueTurnKeepsInv

LEMMA SendersKeepInv ==
    ASSUME SchedInv, NEW s \in Senders, WakeForSpace(s) \/ EnqueueFails(s)
    PROVE  SchedInv'
<1>1. SenderTypes'
  BY DEF WakeForSpace, EnqueueFails, SchedInv, SenderTypes
<1>2. UNCHANGED schedQueue
  BY DEF WakeForSpace, EnqueueFails
<1> QED BY <1>1, <1>2 DEF SchedInv, QueueTypes, OrderIsExact, OrderIsUnique, Placed, schedQueue

-----------------------------------------------------------------------------
(* The writer takes a frame                                                *)

(* What is left of an order when the place at k is given up.               *)
LEMMA RemoveAtKeeps ==
    ASSUME NEW S, NEW seq \in Seq(S), NEW k \in 1..Len(seq)
    PROVE  /\ RemoveAt(seq, k) \in Seq(S)
           /\ Len(RemoveAt(seq, k)) = Len(seq) - 1
           /\ \A i \in 1..(Len(seq) - 1) :
                RemoveAt(seq, k)[i] = IF i < k THEN seq[i] ELSE seq[i + 1]
<1> DEFINE before == SubSeq(seq, 1, k - 1)
           after  == SubSeq(seq, k + 1, Len(seq))
<1>1. before \in Seq(S) /\ Len(before) = k - 1 /\ \A i \in 1..(k - 1) : before[i] = seq[i]
  OBVIOUS
<1>2. /\ after \in Seq(S) /\ Len(after) = Len(seq) - k
      /\ \A i \in 1..(Len(seq) - k) : after[i] = seq[k + i]
  OBVIOUS
<1>3. RemoveAt(seq, k) = before \o after /\ k \in Nat /\ Len(seq) \in Nat
  BY DEF RemoveAt
<1> HIDE DEF before, after
<1>4. /\ before \o after \in Seq(S) /\ Len(before \o after) = Len(before) + Len(after)
      /\ \A i \in 1..(Len(before) + Len(after)) :
           (before \o after)[i] = IF i <= Len(before) THEN before[i] ELSE after[i - Len(before)]
  BY <1>1, <1>2, ConcatProperties
<1>5. ASSUME NEW i \in 1..(Len(seq) - 1)
      PROVE  (before \o after)[i] = IF i < k THEN seq[i] ELSE seq[i + 1]
  <2>1. CASE i < k
    BY <1>1, <1>2, <1>3, <1>4, <2>1
  <2>2. CASE ~(i < k)
    <3>1. (before \o after)[i] = after[i - (k - 1)] /\ i - (k - 1) \in 1..(Len(seq) - k)
      BY <1>1, <1>2, <1>3, <1>4, <2>2
    <3>2. after[i - (k - 1)] = seq[k + (i - (k - 1))] /\ k + (i - (k - 1)) = i + 1
      BY <1>2, <1>3, <3>1
    <3> QED BY <2>2, <3>1, <3>2
  <2> QED BY <2>1, <2>2
<1> QED BY <1>1, <1>2, <1>3, <1>4, <1>5

LEMMA TakeFromLaneKeepsOrder ==
    ASSUME QueueTypes, OrderIsExact, OrderIsUnique, TakeFromLane
    PROVE  QueueTypes' /\ OrderIsExact' /\ OrderIsUnique'
<1>0. /\ streamOrder \in Seq(LaneIds) /\ nextStream \in Nat
      /\ Len(streamOrder) \in Nat /\ Len(streamOrder) # 0
  BY DEF TakeFromLane, QueueTypes
<1>n. PICK n \in Nat \ {0} : n = Len(streamOrder)
  BY <1>0
<1>i. PICK index \in 0..(n - 1) : index = nextStream % n
  BY <1>0
<1>l. PICK lane \in LaneIds : lane = streamOrder[index + 1]
  BY <1>0, <1>n
<1>1. /\ streamOrder \in Seq(LaneIds) /\ n = Len(streamOrder)
      /\ lane = streamOrder[index + 1]
  BY <1>0, <1>n, <1>l
<1>2. /\ lanes[lane] # <<>>
      /\ lanes' = [lanes EXCEPT ![lane] = Tail(@)]
      /\ control' = control
      /\ \/ /\ Len(lanes[lane]) = 1
            /\ streamOrder' = RemoveAt(streamOrder, index + 1)
            /\ nextStream' = AfterRemoval(index)
         \/ /\ Len(lanes[lane]) # 1
            /\ nextStream' = AfterService(index)
            /\ streamOrder' = streamOrder
  BY <1>n, <1>i, <1>l DEF TakeFromLane
<1>3. /\ lanes[lane] \in Seq(Frames) /\ Tail(lanes[lane]) \in Seq(Frames)
      /\ Len(Tail(lanes[lane])) = Len(lanes[lane]) - 1 /\ Len(lanes[lane]) \in Nat \ {0}
  <2>1. lanes[lane] \in Seq(Frames)
    BY <1>1 DEF QueueTypes
  <2> QED BY <1>2, <2>1
<1>4. /\ lanes' \in [LaneIds -> Seq(Frames)] /\ control' \in Seq(Frames)
      /\ lanes'[lane] = Tail(lanes[lane])
      /\ \A m \in LaneIds \ {lane} : lanes'[m] = lanes[m]
  BY <1>1, <1>2, <1>3 DEF QueueTypes
<1>5. CASE Len(lanes[lane]) = 1
  <2>1. /\ streamOrder' \in Seq(LaneIds) /\ Len(streamOrder') = n - 1
        /\ \A i \in 1..(n - 1) :
             streamOrder'[i] = IF i < index + 1 THEN streamOrder[i] ELSE streamOrder[i + 1]
    <3>1. index + 1 \in 1..Len(streamOrder) /\ streamOrder' = RemoveAt(streamOrder, index + 1)
      BY <1>1, <1>2, <1>5
    <3> QED BY <1>1, <3>1, RemoveAtKeeps
  <2>2. nextStream' \in Nat
    <3>1. CASE n = 1
      BY <1>1, <1>2, <1>5, <3>1 DEF AfterRemoval
    <3>2. CASE n # 1
      <4>1. nextStream' = index % (n - 1) /\ n - 1 \in Nat \ {0} /\ index \in Nat
        BY <1>1, <1>2, <1>5, <3>2 DEF AfterRemoval
      <4>2. \A a \in Nat, d \in Nat \ {0} : a % d \in Nat
        OBVIOUS
      <4> QED BY <4>1, <4>2
    <3> QED BY <3>1, <3>2
  <2>3. lanes'[lane] = <<>>
    <3>1. Len(lanes'[lane]) = 0 /\ lanes'[lane] \in Seq(Frames)
      BY <1>3, <1>4, <1>5
    <3> QED BY <3>1, EmptySeq
  <2>4. ~Placed(lane)'
    <3>1. SUFFICES ASSUME NEW i \in 1..(n - 1), streamOrder'[i] = lane PROVE FALSE
      BY <2>1, <1>1 DEF Placed
    <3>2. CASE i < index + 1
      <4>1. streamOrder[i] = streamOrder[index + 1] /\ i \in 1..n /\ index + 1 \in 1..n
        BY <1>1, <2>1, <3>1, <3>2
      <4> QED BY <3>2, <4>1, <1>1 DEF OrderIsUnique
    <3>3. CASE ~(i < index + 1)
      <4>1. streamOrder[i + 1] = streamOrder[index + 1] /\ i + 1 \in 1..n /\ index + 1 \in 1..n
        BY <1>1, <2>1, <3>1, <3>3
      <4> QED BY <3>3, <4>1, <1>1 DEF OrderIsUnique
    <3> QED BY <3>2, <3>3
  <2>5. ASSUME NEW m \in LaneIds \ {lane} PROVE Placed(m)' <=> Placed(m)
    <3>1. ASSUME Placed(m) PROVE Placed(m)'
      <4>1. PICK i \in 1..n : streamOrder[i] = m
        BY <1>1, <3>1 DEF Placed
      <4>2. i # index + 1
        BY <1>1, <4>1, <2>5
      <4>3. CASE i < index + 1
        <5>1. i \in 1..(n - 1) /\ streamOrder'[i] = m
          BY <1>1, <2>1, <4>1, <4>3
        <5> QED BY <5>1, <2>1 DEF Placed
      <4>4. CASE i > index + 1
        <5>1. i - 1 \in 1..(n - 1) /\ ~(i - 1 < index + 1) /\ streamOrder'[i - 1] = streamOrder[(i - 1) + 1]
          BY <1>1, <2>1, <4>1, <4>4
        <5>2. (i - 1) + 1 = i
          BY <4>1, <1>1
        <5> QED BY <5>1, <5>2, <4>1, <2>1 DEF Placed
      <4> QED BY <4>1, <4>2, <4>3, <4>4, <1>1
    <3>2. ASSUME Placed(m)' PROVE Placed(m)
      <4>1. PICK i \in 1..(n - 1) : streamOrder'[i] = m
        BY <3>2, <2>1 DEF Placed
      <4>2. i \in 1..n /\ i + 1 \in 1..n /\ (streamOrder[i] = m \/ streamOrder[i + 1] = m)
        BY <1>1, <2>1, <4>1
      <4> QED BY <1>1, <4>2 DEF Placed
    <3> QED BY <3>1, <3>2
  <2>6. OrderIsExact'
    <3>1. \A m \in LaneIds \ {lane} : lanes'[m] # <<>> <=> Placed(m)'
      BY <1>4, <2>5 DEF OrderIsExact
    <3> QED BY <2>3, <2>4, <3>1 DEF OrderIsExact
  <2>7. OrderIsUnique'
    <3>1. SUFFICES ASSUME NEW i \in 1..(n - 1), NEW j \in 1..(n - 1),
                          streamOrder'[i] = streamOrder'[j]
                   PROVE  i = j
      BY <2>1 DEF OrderIsUnique
    <3> DEFINE p == IF i < index + 1 THEN i ELSE i + 1
               q == IF j < index + 1 THEN j ELSE j + 1
    <3>2. p \in 1..n /\ q \in 1..n /\ streamOrder[p] = streamOrder[q]
      BY <1>1, <2>1, <3>1
    <3>3. p = q
      BY <1>1, <3>2 DEF OrderIsUnique
    <3> QED BY <3>3, <1>1
  <2> QED BY <1>4, <2>1, <2>2, <2>6, <2>7 DEF QueueTypes
<1>6. CASE Len(lanes[lane]) # 1
  <2>1. streamOrder' = streamOrder /\ nextStream' = (index + 1) % n
    BY <1>1, <1>2, <1>6 DEF AfterService
  <2>2. nextStream' \in Nat
    BY <1>1, <2>1
  <2>3. lanes'[lane] # <<>>
    <3>1. Len(lanes'[lane]) # 0
      BY <1>3, <1>4, <1>6
    <3> QED BY <3>1, EmptySeq
  <2>4. OrderIsExact'
    BY <1>2, <1>4, <2>1, <2>3 DEF OrderIsExact, Placed
  <2> QED BY <1>1, <1>4, <2>1, <2>2, <2>4 DEF QueueTypes, OrderIsUnique
<1> QED BY <1>5, <1>6

LEMMA WriterKeepsInv == ASSUME SchedInv, WriterNext PROVE SchedInv'
<1>1. SenderTypes'
  BY DEF WriterNext, SchedInv, SenderTypes
<1>2. CASE TakeControl
  <2>1. control' \in Seq(Frames) /\ UNCHANGED <<lanes, streamOrder, nextStream>>
    BY <1>2 DEF TakeControl, SchedInv, QueueTypes
  <2> QED BY <1>1, <2>1 DEF SchedInv, QueueTypes, OrderIsExact, OrderIsUnique, Placed
<1>3. CASE TakeFromLane
  BY <1>1, <1>3, TakeFromLaneKeepsOrder DEF SchedInv
<1>4. CASE NothingToTake
  BY <1>1, <1>4 DEF NothingToTake, SchedInv, QueueTypes, OrderIsExact, OrderIsUnique, Placed,
                    schedQueue
<1> QED BY <1>2, <1>3, <1>4 DEF WriterNext

-----------------------------------------------------------------------------
(* The connection closes                                                   *)

LEMMA CloseQueueKeepsInv == ASSUME SchedInv, CloseQueue PROVE SchedInv'
<1>1. SenderTypes'
  BY DEF CloseQueue, SchedInv, SenderTypes
<1>2. /\ control' = <<>> /\ lanes' = [l \in LaneIds |-> <<>>]
      /\ streamOrder' = <<>> /\ nextStream' = nextStream
  BY DEF CloseQueue
<1>3. QueueTypes'
  BY <1>2 DEF SchedInv, QueueTypes
<1>4. OrderIsExact' /\ OrderIsUnique'
  BY <1>2 DEF OrderIsExact, OrderIsUnique, Placed
<1> QED BY <1>1, <1>3, <1>4 DEF SchedInv

LEMMA NextSchedInv == SchedInv /\ [SchedNext]_schedVars => SchedInv'
<1> SUFFICES ASSUME SchedInv, [SchedNext]_schedVars PROVE SchedInv'
  OBVIOUS
<1>1. ASSUME UNCHANGED <<schedQueue, sender, arrived>> PROVE SchedInv'
  BY <1>1 DEF SchedInv, QueueTypes, SenderTypes, OrderIsExact, OrderIsUnique, Placed, schedQueue
<1>2. CASE UNCHANGED schedVars
  BY <1>1, <1>2 DEF schedVars, schedQueue
<1>3. CASE WriterWakes \/ WriterSignals \/ WriteSucceeds \/ WriteFails \/ WriterCancelled
           \/ CloseSocket \/ CloseDone
  BY <1>1, <1>3 DEF WriterWakes, WriterSignals, WriteSucceeds, WriteFails, WriterCancelled,
                    CloseSocket, CloseDone
<1> QED BY <1>2, <1>3, ForwardKeepsInv, RetryKeepsInv, SendersKeepInv, WriterKeepsInv,
           CloseQueueKeepsInv DEF SchedNext

-----------------------------------------------------------------------------
(* The round-robin order names exactly the lanes that hold frames, each    *)
(* once, for any senders, streams and budgets (scheduler.go:114-116,       *)
(* 149-157, 174-194).                                                      *)
THEOREM LanesScheduledAlways == SchedSpec => []LanesAreScheduled
<1>1. SchedInv => LanesAreScheduled
  <2> SUFFICES ASSUME SchedInv PROVE LanesAreScheduled
    OBVIOUS
  <2>1. DOMAIN streamOrder = 1..Len(streamOrder)
    BY DEF SchedInv, QueueTypes
  <2>2. \A l : l \in Range(streamOrder) <=> Placed(l)
    BY <2>1 DEF Range, Placed
  <2> QED BY <2>1, <2>2 DEF SchedInv, OrderIsExact, OrderIsUnique, LanesAreScheduled
<1> QED BY <1>1, InitSchedInv, NextSchedInv, PTL DEF SchedSpec

-----------------------------------------------------------------------------
(* A frame has one place: what the counters count is a set                 *)

Once(seq) == \A i, j \in 1..Len(seq) : seq[i] = seq[j] => i = j

OnePlace ==
    /\ Once(control)
    /\ \A l \in LaneIds : /\ Once(lanes[l])
                          /\ \A f \in Range(lanes[l]) : f.stream = l /\ f \notin Range(control)

(* Frames are numbered as they arrive; a refused sender keeps one of its   *)
(* own, which the queue does not hold.                                     *)
Numbered ==
    /\ \A f \in QueuedFrames : f.n <= arrived
    /\ \A s \in Senders : sender[s].pc \in {"waiting", "woken"}
         => /\ sender[s].frame.from = s /\ sender[s].frame.n <= arrived
            /\ sender[s].frame \notin QueuedFrames

LEMMA AppendOnce ==
    ASSUME NEW S, NEW seq \in Seq(S), NEW x \in S
    PROVE  /\ Range(Append(seq, x)) = Range(seq) \cup {x}
           /\ Once(seq) /\ x \notin Range(seq) => Once(Append(seq, x))
<1> DEFINE longer == Append(seq, x)
<1>1. /\ DOMAIN seq = 1..Len(seq) /\ Len(seq) \in Nat
      /\ DOMAIN longer = 1..(Len(seq) + 1) /\ Len(longer) = Len(seq) + 1
      /\ longer[Len(seq) + 1] = x
      /\ \A i \in 1..Len(seq) : longer[i] = seq[i]
  BY AppendProperties
<1> HIDE DEF longer
<1>2. Range(longer) = Range(seq) \cup {x}
  <2>1. ASSUME NEW y \in Range(longer) PROVE y \in Range(seq) \cup {x}
    <3>1. PICK i \in 1..(Len(seq) + 1) : longer[i] = y
      BY <1>1, <2>1 DEF Range
    <3> QED BY <1>1, <3>1 DEF Range
  <2>2. ASSUME NEW y \in Range(seq) \cup {x} PROVE y \in Range(longer)
    <3>1. CASE y = x
      BY <1>1, <3>1 DEF Range
    <3>2. CASE y \in Range(seq)
      <4>1. PICK i \in 1..Len(seq) : seq[i] = y
        BY <1>1, <3>2 DEF Range
      <4> QED BY <1>1, <4>1 DEF Range
    <3> QED BY <3>1, <3>2, <2>2
  <2> QED BY <2>1, <2>2
<1>3. ASSUME Once(seq), x \notin Range(seq) PROVE Once(longer)
  BY <1>1, <1>3 DEF Once, Range
<1> QED BY <1>2, <1>3 DEF longer

LEMMA TailOnce ==
    ASSUME NEW S, NEW seq \in Seq(S), seq # <<>>, Once(seq)
    PROVE  /\ Head(seq) \in S /\ Head(seq) \in Range(seq)
           /\ Once(Tail(seq)) /\ Tail(seq) \in Seq(S)
           /\ Range(Tail(seq)) = Range(seq) \ {Head(seq)}
<1> DEFINE rest == Tail(seq)
<1>1. /\ DOMAIN seq = 1..Len(seq) /\ Len(seq) \in Nat \ {0}
      /\ rest \in Seq(S) /\ DOMAIN rest = 1..(Len(seq) - 1) /\ Len(rest) = Len(seq) - 1
      /\ Head(seq) = seq[1] /\ seq[1] \in S
      /\ \A i \in 1..(Len(seq) - 1) : rest[i] = seq[i + 1]
  BY EmptySeq
<1> HIDE DEF rest
<1>2. Once(rest)
  BY <1>1 DEF Once
<1>3. Range(rest) = Range(seq) \ {Head(seq)}
  <2>1. ASSUME NEW y \in Range(rest) PROVE y \in Range(seq) \ {Head(seq)}
    <3>1. PICK i \in 1..(Len(seq) - 1) : rest[i] = y
      BY <1>1, <2>1 DEF Range
    <3>2. seq[i + 1] = y /\ i + 1 \in 1..Len(seq) /\ i + 1 # 1 /\ 1 \in 1..Len(seq)
      BY <1>1, <3>1
    <3> QED BY <1>1, <3>2 DEF Range, Once
  <2>2. ASSUME NEW y \in Range(seq) \ {Head(seq)} PROVE y \in Range(rest)
    <3>1. PICK i \in 1..Len(seq) : seq[i] = y
      BY <1>1, <2>2 DEF Range
    <3>2. i - 1 \in 1..(Len(seq) - 1) /\ (i - 1) + 1 = i
      BY <1>1, <2>2, <3>1
    <3>3. rest[i - 1] = y
      BY <1>1, <3>1, <3>2
    <3> QED BY <1>1, <3>2, <3>3 DEF Range
  <2> QED BY <2>1, <2>2
<1>4. Head(seq) \in S /\ Head(seq) \in Range(seq)
  BY <1>1 DEF Range
<1> QED BY <1>1, <1>2, <1>3, <1>4 DEF rest

LEMMA EmptyOnce == Range(<<>>) = {} /\ Once(<<>>)
BY DEF Range, Once

LEMMA EnqueueAddsFrame ==
    ASSUME QueueTypes, OnePlace, NEW f \in Frames, f \notin QueuedFrames, EnqueueLocked(f)
    PROVE  OnePlace' /\ QueuedFrames' = QueuedFrames \cup {f}
<1>0. /\ f.stream \in LaneIds /\ control \in Seq(Frames)
      /\ \A l \in LaneIds : lanes[l] \in Seq(Frames)
      /\ f \notin Range(control) /\ \A l \in LaneIds : f \notin Range(lanes[l])
  BY DEF Frames, QueueTypes, QueuedFrames
<1>1. CASE BypassesLanes(f)
  <2>1. control' = Append(control, f) /\ lanes' = lanes
    BY <1>1 DEF EnqueueLocked
  <2>2. Range(control') = Range(control) \cup {f} /\ Once(control')
    BY <1>0, <2>1, AppendOnce DEF OnePlace
  <2>3. OnePlace'
    BY <1>0, <2>1, <2>2 DEF OnePlace
  <2> QED BY <2>1, <2>2, <2>3 DEF QueuedFrames
<1>2. CASE ~BypassesLanes(f)
  <2>1. lanes' = [lanes EXCEPT ![f.stream] = Append(@, f)] /\ control' = control
    BY <1>2 DEF EnqueueLocked
  <2>2. /\ \A l \in LaneIds \ {f.stream} : lanes'[l] = lanes[l]
        /\ lanes'[f.stream] = Append(lanes[f.stream], f)
    BY <1>0, <2>1 DEF QueueTypes
  <2>3. Range(lanes'[f.stream]) = Range(lanes[f.stream]) \cup {f} /\ Once(lanes'[f.stream])
    BY <1>0, <2>2, AppendOnce DEF OnePlace
  <2>4. OnePlace'
    <3>1. ASSUME NEW l \in LaneIds
          PROVE  /\ Once(lanes'[l])
                 /\ \A g \in Range(lanes'[l]) : g.stream = l /\ g \notin Range(control)
      <4>1. CASE l = f.stream
        BY <1>0, <2>3, <4>1 DEF OnePlace
      <4>2. CASE l # f.stream
        BY <2>2, <4>2 DEF OnePlace
      <4> QED BY <4>1, <4>2
    <3> QED BY <2>1, <3>1 DEF OnePlace
  <2>5. QueuedFrames' = QueuedFrames \cup {f}
    <3>1. \A l \in LaneIds : Range(lanes'[l])
            = IF l = f.stream THEN Range(lanes[l]) \cup {f} ELSE Range(lanes[l])
      BY <2>2, <2>3
    <3>2. \A x : x \in QueuedFrames'
            <=> x \in Range(control) \/ \E l \in LaneIds : x \in Range(lanes'[l])
      BY <2>1 DEF QueuedFrames
    <3>3. \A x : x \in QueuedFrames
            <=> x \in Range(control) \/ \E l \in LaneIds : x \in Range(lanes[l])
      BY DEF QueuedFrames
    <3>4. f.stream \in LaneIds
      BY <1>0
    <3>5. ASSUME NEW x PROVE x \in QueuedFrames' <=> x \in QueuedFrames \/ x = f
      <4>1. (\E l \in LaneIds : x \in Range(lanes'[l]))
              <=> (\E l \in LaneIds : x \in Range(lanes[l])) \/ x = f
        BY <3>1, <3>4
      <4> QED BY <3>2, <3>3, <4>1
    <3> QED BY <3>5
  <2> QED BY <2>4, <2>5
<1> QED BY <1>1, <1>2

LEMMA TakeControlRemovesFrame ==
    ASSUME QueueTypes, OnePlace, TakeControl
    PROVE  /\ OnePlace' /\ QueuedFrames' = QueuedFrames \ {Head(control)}
           /\ Head(control) \in QueuedFrames /\ queued' = Uncounted(Head(control))
<1>1. /\ control \in Seq(Frames) /\ control # <<>> /\ Once(control)
      /\ control' = Tail(control) /\ lanes' = lanes /\ queued' = Uncounted(Head(control))
  BY DEF QueueTypes, OnePlace, TakeControl
<1>2. /\ Once(control') /\ Range(control') = Range(control) \ {Head(control)}
      /\ Head(control) \in Range(control)
  BY <1>1, TailOnce
<1>3. \A l \in LaneIds : Head(control) \notin Range(lanes[l])
  BY <1>2 DEF OnePlace
<1>4. OnePlace'
  BY <1>1, <1>2 DEF OnePlace
<1>5. QueuedFrames' = QueuedFrames \ {Head(control)}
  BY <1>1, <1>2, <1>3 DEF QueuedFrames
<1> QED BY <1>1, <1>2, <1>4, <1>5 DEF QueuedFrames

LEMMA TakeFromLaneRemovesFrame ==
    ASSUME QueueTypes, OnePlace, TakeFromLane
    PROVE  OnePlace' /\ \E f \in QueuedFrames : /\ QueuedFrames' = QueuedFrames \ {f}
                                                /\ queued' = Uncounted(f)
<1>0. Len(streamOrder) \in Nat \ {0} /\ nextStream \in Nat /\ streamOrder \in Seq(LaneIds)
  BY EmptySeq DEF TakeFromLane, QueueTypes
<1>1. PICK index : index = nextStream % Len(streamOrder)
  OBVIOUS
<1>2. index + 1 \in 1..Len(streamOrder)
  BY <1>0, <1>1
<1>3. PICK lane \in LaneIds : lane = streamOrder[index + 1]
  BY <1>0, <1>2
<1>4. PICK f : f = Head(lanes[lane])
  OBVIOUS
<1>5. /\ lanes[lane] # <<>> /\ lanes' = [lanes EXCEPT ![lane] = Tail(@)]
      /\ queued' = Uncounted(f) /\ control' = control
  BY <1>1, <1>3, <1>4 DEF TakeFromLane
<1>6. /\ \A l \in LaneIds \ {lane} : lanes'[l] = lanes[l]
      /\ lanes'[lane] = Tail(lanes[lane]) /\ lanes[lane] \in Seq(Frames)
  BY <1>5 DEF QueueTypes
<1>7. /\ Once(lanes'[lane]) /\ Range(lanes'[lane]) = Range(lanes[lane]) \ {f}
      /\ f \in Range(lanes[lane])
  BY <1>4, <1>5, <1>6, TailOnce DEF OnePlace
<1>8. f \notin Range(control) /\ \A l \in LaneIds \ {lane} : f \notin Range(lanes[l])
  BY <1>7 DEF OnePlace
<1>9. OnePlace'
  <2>1. ASSUME NEW l \in LaneIds
        PROVE  /\ Once(lanes'[l])
               /\ \A g \in Range(lanes'[l]) : g.stream = l /\ g \notin Range(control)
    <3>1. CASE l = lane
      BY <1>7, <3>1 DEF OnePlace
    <3>2. CASE l # lane
      BY <1>6, <3>2 DEF OnePlace
    <3> QED BY <3>1, <3>2
  <2> QED BY <1>5, <2>1 DEF OnePlace
<1>10. QueuedFrames' = QueuedFrames \ {f}
  <2>1. \A l \in LaneIds : Range(lanes'[l]) = Range(lanes[l]) \ {f}
    BY <1>6, <1>7, <1>8
  <2>2. \A x : x \in QueuedFrames'
          <=> x \in Range(control) \/ \E l \in LaneIds : x \in Range(lanes'[l])
    BY <1>5 DEF QueuedFrames
  <2>3. \A x : x \in QueuedFrames
          <=> x \in Range(control) \/ \E l \in LaneIds : x \in Range(lanes[l])
    BY DEF QueuedFrames
  <2>4. \A x : x \in QueuedFrames' <=> x \in QueuedFrames /\ x # f
    BY <1>8, <2>1, <2>2, <2>3
  <2> QED BY <2>4
<1> QED BY <1>5, <1>7, <1>9, <1>10 DEF QueuedFrames

-----------------------------------------------------------------------------
(* Counting frames and their bytes                                         *)

DataOf(S)  == {f \in S : ~f.control}

Counts(S, q) ==
    /\ IsFiniteSet(S) /\ q.count = Cardinality(S)
    /\ IsFiniteSet(BytesOf(S)) /\ q.bytes = Cardinality(BytesOf(S))

(* The counters, and the budget that only admission enforces.              *)
CountersInv ==
    /\ Counts(QueuedFrames, queued)
    /\ Counts(DataOf(QueuedFrames), [count |-> queued.dataCount, bytes |-> queued.dataBytes])
    /\ queued.dataCount <= MaxDataCount /\ queued.dataBytes <= MaxDataBytes

LEMMA BytesOfFrame ==
    ASSUME NEW f, f.size \in Nat
    PROVE  /\ IsFiniteSet({f} \X (1..f.size))
           /\ Cardinality({f} \X (1..f.size)) = f.size
<1> DEFINE g == [k \in 1..f.size |-> <<f, k>>]
<1>1. IsFiniteSet(1..f.size) /\ Cardinality(1..f.size) = f.size
  BY FS_Interval
<1>2. g \in Bijection(1..f.size, {f} \X (1..f.size))
  <2>1. g \in [1..f.size -> {f} \X (1..f.size)]
    OBVIOUS
  <2>2. \A i, j \in 1..f.size : g[i] = g[j] => i = j
    OBVIOUS
  <2>3. \A p \in {f} \X (1..f.size) : \E k \in 1..f.size : g[k] = p
    OBVIOUS
  <2> QED BY <2>1, <2>2, <2>3 DEF Bijection, Injection, Surjection, IsInjective
<1>3. ExistsBijection(1..f.size, {f} \X (1..f.size))
  BY <1>2 DEF ExistsBijection
<1> QED BY <1>1, <1>3, FS_Bijection

LEMMA CountOneMore ==
    ASSUME NEW S, NEW f, f \notin S, f.size \in Nat, NEW q, Counts(S, q)
    PROVE  Counts(S \cup {f}, [count |-> q.count + 1, bytes |-> q.bytes + f.size])
<1>1. IsFiniteSet(S \cup {f}) /\ Cardinality(S \cup {f}) = Cardinality(S) + 1
  BY FS_AddElement DEF Counts
<1>2. /\ BytesOf(S \cup {f}) = BytesOf(S) \cup ({f} \X (1..f.size))
      /\ BytesOf(S) \cap ({f} \X (1..f.size)) = {}
  BY DEF BytesOf
<1>3. /\ IsFiniteSet(BytesOf(S \cup {f}))
      /\ Cardinality(BytesOf(S \cup {f})) = Cardinality(BytesOf(S)) + f.size
  <2>1. Cardinality(BytesOf(S)) \in Nat /\ Cardinality({}) = 0
    BY FS_CardinalityType, FS_EmptySet DEF Counts
  <2>2. /\ IsFiniteSet(BytesOf(S) \cup ({f} \X (1..f.size)))
        /\ Cardinality(BytesOf(S) \cup ({f} \X (1..f.size)))
             = Cardinality(BytesOf(S)) + f.size - Cardinality(BytesOf(S) \cap ({f} \X (1..f.size)))
    BY BytesOfFrame, FS_Union DEF Counts
  <2>3. Cardinality(BytesOf(S) \cap ({f} \X (1..f.size))) = 0
    BY <1>2, <2>1
  <2>4. Cardinality(BytesOf(S)) + f.size - 0 = Cardinality(BytesOf(S)) + f.size
    BY <2>1
  <2> QED BY <1>2, <2>2, <2>3, <2>4
<1> QED BY <1>1, <1>3 DEF Counts

LEMMA CountOneLess ==
    ASSUME NEW S, NEW f \in S, f.size \in Nat, NEW q, Counts(S, q)
    PROVE  Counts(S \ {f}, [count |-> q.count - 1, bytes |-> q.bytes - f.size])
<1>1. IsFiniteSet(S \ {f}) /\ Cardinality(S \ {f}) = Cardinality(S) - 1
  BY FS_RemoveElement DEF Counts
<1>2. /\ BytesOf(S \ {f}) = BytesOf(S) \ ({f} \X (1..f.size))
      /\ BytesOf(S) \cap ({f} \X (1..f.size)) = {f} \X (1..f.size)
  BY DEF BytesOf
<1>3. /\ IsFiniteSet(BytesOf(S \ {f}))
      /\ Cardinality(BytesOf(S \ {f})) = Cardinality(BytesOf(S)) - f.size
  <2>1. /\ IsFiniteSet(BytesOf(S) \ ({f} \X (1..f.size)))
        /\ Cardinality(BytesOf(S) \ ({f} \X (1..f.size)))
             = Cardinality(BytesOf(S)) - Cardinality(BytesOf(S) \cap ({f} \X (1..f.size)))
    BY FS_Difference DEF Counts
  <2> QED BY <1>2, <2>1, BytesOfFrame
<1> QED BY <1>1, <1>3 DEF Counts

LEMMA CountNothing == Counts({}, [count |-> 0, bytes |-> 0])
<1>1. BytesOf({}) = {}
  BY DEF BytesOf
<1> QED BY <1>1, FS_EmptySet DEF Counts

LEMMA SizesAreNumbers == \A size \in FrameSizes : size \in Nat
<1>1. FrameSizes \subseteq 1..MaxFrameBytes /\ MaxFrameBytes \in Nat
  BY SchedulerAssumption
<1> QED BY <1>1

LEMMA CountsAreNumbers ==
    ASSUME NEW S, NEW q, Counts(S, q)
    PROVE  q.count \in Nat /\ q.bytes \in Nat
BY FS_CardinalityType DEF Counts

LEMMA AdmissionCounts ==
    ASSUME NEW f \in Frames, f \notin QueuedFrames, CountersInv, ~SlowConsumer(f),
           QueuedFrames' = QueuedFrames \cup {f}, queued' = Counted(f)
    PROVE  CountersInv'
<1> DEFINE data == [count |-> queued.dataCount, bytes |-> queued.dataBytes]
<1>1. f.size \in Nat
  BY SizesAreNumbers DEF Frames
<1>2. /\ data.count \in Nat /\ data.bytes \in Nat
      /\ data.count = queued.dataCount /\ data.bytes = queued.dataBytes
  BY CountsAreNumbers DEF CountersInv
<1>3. Counts(QueuedFrames', queued')
  <2>1. /\ queued'.count = queued.count + 1 /\ queued'.bytes = queued.bytes + f.size
    BY DEF Counted
  <2>2. Counts(QueuedFrames', [count |-> queued.count + 1, bytes |-> queued.bytes + f.size])
    BY <1>1, CountOneMore DEF CountersInv
  <2> QED BY <2>1, <2>2 DEF Counts
<1>4. CASE f.control
  <2>1. DataOf(QueuedFrames') = DataOf(QueuedFrames)
    BY <1>4 DEF DataOf
  <2>2. queued'.dataCount = queued.dataCount /\ queued'.dataBytes = queued.dataBytes
    BY <1>1, <1>2, <1>4 DEF Counted, Budget
  <2> QED BY <1>3, <2>1, <2>2 DEF CountersInv
<1>5. CASE ~f.control
  <2>1. DataOf(QueuedFrames') = DataOf(QueuedFrames) \cup {f} /\ f \notin DataOf(QueuedFrames)
    BY <1>5 DEF DataOf
  <2>2. /\ queued'.dataCount = queued.dataCount + 1
        /\ queued'.dataBytes = queued.dataBytes + f.size
    BY <1>1, <1>2, <1>5 DEF Counted, Budget
  <2>3. Counts(DataOf(QueuedFrames'), [count |-> data.count + 1, bytes |-> data.bytes + f.size])
    <3>1. Counts(DataOf(QueuedFrames), data)
      BY DEF CountersInv
    <3> HIDE DEF data
    <3>2. Counts(DataOf(QueuedFrames) \cup {f},
                 [count |-> data.count + 1, bytes |-> data.bytes + f.size])
      BY <1>1, <2>1, <3>1, CountOneMore
    <3> QED BY <2>1, <3>2
  <2>4. queued.dataBytes + f.size <= MaxDataBytes /\ queued.dataCount < MaxDataCount
    <3>1. MaxDataBytes \in Int /\ MaxDataCount \in Int
      BY SchedulerAssumption DEF MaxDataBytes, MaxDataCount, AtMost, AtLeast
    <3>2. ~DataFull(f)
      BY <1>5 DEF SlowConsumer, BypassesLanes
    <3> QED BY <1>1, <1>2, <1>5, <3>1, <3>2 DEF DataFull
  <2>5. MaxDataCount \in Int
    BY SchedulerAssumption DEF MaxDataCount, AtMost, AtLeast
  <2> QED BY <1>2, <1>3, <2>2, <2>3, <2>4, <2>5 DEF CountersInv
<1> QED BY <1>4, <1>5

LEMMA RemovalCounts ==
    ASSUME NEW f \in Frames, f \in QueuedFrames, CountersInv,
           QueuedFrames' = QueuedFrames \ {f}, queued' = Uncounted(f)
    PROVE  CountersInv'
<1> DEFINE data == [count |-> queued.dataCount, bytes |-> queued.dataBytes]
<1>1. f.size \in Nat
  BY SizesAreNumbers DEF Frames
<1>2. /\ data.count \in Nat /\ data.bytes \in Nat
      /\ data.count = queued.dataCount /\ data.bytes = queued.dataBytes
      /\ MaxDataBytes \in Int /\ MaxDataCount \in Int
  BY CountsAreNumbers, SchedulerAssumption
     DEF CountersInv, MaxDataBytes, MaxDataCount, AtMost, AtLeast
<1>3. Counts(QueuedFrames', queued')
  <2>1. /\ queued'.count = queued.count - 1 /\ queued'.bytes = queued.bytes - f.size
    BY DEF Uncounted
  <2>2. Counts(QueuedFrames', [count |-> queued.count - 1, bytes |-> queued.bytes - f.size])
    BY <1>1, CountOneLess DEF CountersInv
  <2> QED BY <2>1, <2>2 DEF Counts
<1>4. CASE f.control
  <2>1. DataOf(QueuedFrames') = DataOf(QueuedFrames)
    BY <1>4 DEF DataOf
  <2>2. queued'.dataCount = queued.dataCount /\ queued'.dataBytes = queued.dataBytes
    BY <1>1, <1>2, <1>4 DEF Uncounted, Budget
  <2> QED BY <1>3, <2>1, <2>2 DEF CountersInv
<1>5. CASE ~f.control
  <2>1. DataOf(QueuedFrames') = DataOf(QueuedFrames) \ {f} /\ f \in DataOf(QueuedFrames)
    BY <1>5 DEF DataOf
  <2>2. /\ queued'.dataCount = queued.dataCount - 1
        /\ queued'.dataBytes = queued.dataBytes - f.size
    BY <1>1, <1>2, <1>5 DEF Uncounted, Budget
  <2>3. Counts(DataOf(QueuedFrames'), [count |-> data.count - 1, bytes |-> data.bytes - f.size])
    <3>1. Counts(DataOf(QueuedFrames), data)
      BY DEF CountersInv
    <3> HIDE DEF data
    <3>2. Counts(DataOf(QueuedFrames) \ {f},
                 [count |-> data.count - 1, bytes |-> data.bytes - f.size])
      BY <1>1, <2>1, <3>1, CountOneLess
    <3> QED BY <2>1, <3>2
  <2>4. queued'.dataCount <= MaxDataCount /\ queued'.dataBytes <= MaxDataBytes
    BY <1>1, <1>2, <2>2 DEF CountersInv
  <2> QED BY <1>2, <1>3, <2>2, <2>3, <2>4 DEF CountersInv
<1> QED BY <1>4, <1>5

-----------------------------------------------------------------------------
(* Every step keeps the places, the numbers and the counts                 *)

CountedInv == OnePlace /\ Numbered /\ CountersInv

LEMMA InitCountedInv == SchedInit => CountedInv
<1> SUFFICES ASSUME SchedInit PROVE CountedInv
  OBVIOUS
<1>1. /\ control = <<>> /\ \A l \in LaneIds : lanes[l] = <<>>
      /\ queued = NothingQueued
      /\ \A s \in Senders : sender[s].pc = "idle"
  BY DEF SchedInit
<1>2. QueuedFrames = {}
  BY <1>1, EmptyOnce DEF QueuedFrames
<1>3. OnePlace /\ Numbered
  BY <1>1, <1>2, EmptyOnce DEF OnePlace, Numbered
<1>4. Counts({}, queued)
  BY <1>1, CountNothing DEF NothingQueued, Counts
<1>5. Counts({}, [count |-> queued.dataCount, bytes |-> queued.dataBytes]) /\ DataOf({}) = {}
  BY <1>1, CountNothing DEF NothingQueued, Counts, DataOf
<1>6. queued.dataCount <= MaxDataCount /\ queued.dataBytes <= MaxDataBytes
  BY <1>1, FramesFit, SchedulerAssumption
     DEF NothingQueued, MaxDataCount, MaxDataBytes, AtMost, AtLeast
<1> QED BY <1>2, <1>3, <1>4, <1>5, <1>6 DEF CountersInv, CountedInv

LEMMA EnqueueTurnCounts ==
    ASSUME SchedInv, CountedInv, NEW s \in Senders, NEW f \in Frames, EnqueueTurn(s, f),
           f.from = s, f.n <= arrived', f \notin QueuedFrames,
           arrived <= arrived', arrived' \in Nat
    PROVE  CountedInv'
<1>0. /\ sender \in [Senders -> [pc : {"idle", "waiting", "woken", "gone"},
                                 frame : Frames \cup {NoFrame}]]
      /\ arrived \in Nat /\ QueueTypes
      /\ \A g \in QueuedFrames : g \in Frames
      /\ \A t \in Senders : sender[t].pc \in {"waiting", "woken"} => sender[t].frame \in Frames
      /\ \A g \in Frames : g.n \in Nat
  <2>1. \A g \in QueuedFrames : g \in Frames
    BY DEF SchedInv, QueueTypes, QueuedFrames, Range
  <2> QED BY <2>1, SchedulerAssumption DEF SchedInv, SenderTypes, Frames
<1>1. CASE ~SlowConsumer(f) /\ EnqueueLocked(f)
           /\ sender' = [sender EXCEPT ![s] = [pc |-> "idle", frame |-> NoFrame]]
  <2>1. OnePlace' /\ QueuedFrames' = QueuedFrames \cup {f}
    BY <1>0, <1>1, EnqueueAddsFrame DEF CountedInv
  <2>2. queued' = Counted(f)
    BY <1>1 DEF EnqueueLocked
  <2>3. CountersInv'
    BY <1>1, <2>1, <2>2, AdmissionCounts DEF CountedInv
  <2>4. Numbered'
    <3>1. \A g \in QueuedFrames' : g.n <= arrived'
      BY <1>0, <2>1 DEF CountedInv, Numbered
    <3>2. ASSUME NEW t \in Senders, sender'[t].pc \in {"waiting", "woken"}
          PROVE  /\ sender'[t].frame.from = t /\ sender'[t].frame.n <= arrived'
                 /\ sender'[t].frame \notin QueuedFrames'
      <4>1. t # s /\ sender'[t] = sender[t]
        BY <1>0, <1>1, <3>2
      <4> QED BY <1>0, <2>1, <3>2, <4>1 DEF CountedInv, Numbered
    <3> QED BY <3>1, <3>2 DEF Numbered
  <2> QED BY <2>1, <2>3, <2>4 DEF CountedInv
<1>2. CASE sender' = [sender EXCEPT ![s] = [pc |-> "waiting", frame |-> f]] /\ UNCHANGED schedQueue
  <2>1. QueuedFrames' = QueuedFrames /\ OnePlace' /\ CountersInv'
    BY <1>2 DEF CountedInv, QueuedFrames, OnePlace, CountersInv, schedQueue
  <2>2. Numbered'
    <3>1. \A g \in QueuedFrames' : g.n <= arrived'
      BY <1>0, <2>1 DEF CountedInv, Numbered
    <3>2. ASSUME NEW t \in Senders, sender'[t].pc \in {"waiting", "woken"}
          PROVE  /\ sender'[t].frame.from = t /\ sender'[t].frame.n <= arrived'
                 /\ sender'[t].frame \notin QueuedFrames'
      <4>1. CASE t = s
        BY <1>0, <1>2, <2>1, <4>1
      <4>2. CASE t # s
        <5>1. sender'[t] = sender[t]
          BY <1>0, <1>2, <4>2
        <5> QED BY <1>0, <2>1, <3>2, <5>1 DEF CountedInv, Numbered
      <4> QED BY <4>1, <4>2
    <3> QED BY <3>1, <3>2 DEF Numbered
  <2> QED BY <2>1, <2>2 DEF CountedInv
<1> QED BY <1>1, <1>2 DEF EnqueueTurn

LEMMA ForwardCounts ==
    ASSUME SchedInv, CountedInv, NEW s \in Senders, ForwardFrame(s) PROVE CountedInv'
<1>1. PICK kind \in Traffic, size \in FrameSizes :
        EnqueueTurn(s, [from |-> s, n |-> arrived', stream |-> kind[1],
                        control |-> kind[2], size |-> size])
  BY DEF ForwardFrame
<1> DEFINE f == [from |-> s, n |-> arrived', stream |-> kind[1],
                 control |-> kind[2], size |-> size]
<1>2. arrived' = arrived + 1 /\ arrived \in Nat /\ arrived' \in 0..MaxFrames
  BY SchedulerAssumption DEF ForwardFrame, SchedInv, SenderTypes
<1>3. kind[1] \in LaneIds /\ kind[2] \in BOOLEAN
  BY SchedulerAssumption DEF LaneIds
<1>4. f \in Frames /\ f.from = s /\ f.n = arrived'
  BY <1>2, <1>3 DEF Frames
<1>5. f \notin QueuedFrames
  BY <1>2, <1>4 DEF CountedInv, Numbered
<1> HIDE DEF f
<1>6. EnqueueTurn(s, f)
  BY <1>1 DEF f
<1> QED BY <1>2, <1>4, <1>5, <1>6, EnqueueTurnCounts

LEMMA RetryCounts ==
    ASSUME SchedInv, CountedInv, NEW s \in Senders, RetryEnqueue(s) PROVE CountedInv'
<1>1. /\ sender[s].frame \in Frames /\ EnqueueTurn(s, sender[s].frame)
      /\ arrived' = arrived /\ arrived \in Nat
  BY SchedulerAssumption DEF RetryEnqueue, SchedInv, SenderTypes
<1>2. /\ sender[s].frame.from = s /\ sender[s].frame.n <= arrived
      /\ sender[s].frame \notin QueuedFrames
  BY DEF RetryEnqueue, CountedInv, Numbered
<1> QED BY <1>1, <1>2, EnqueueTurnCounts

LEMMA SendersCount ==
    ASSUME SchedInv, CountedInv, NEW s \in Senders, WakeForSpace(s) \/ EnqueueFails(s)
    PROVE  CountedInv'
<1>1. UNCHANGED schedQueue /\ arrived' = arrived
  BY DEF WakeForSpace, EnqueueFails
<1>2. QueuedFrames' = QueuedFrames /\ OnePlace' /\ CountersInv'
  BY <1>1 DEF CountedInv, QueuedFrames, OnePlace, CountersInv, schedQueue
<1>3. ASSUME NEW t \in Senders, sender'[t].pc \in {"waiting", "woken"}
      PROVE  sender[t].pc \in {"waiting", "woken"} /\ sender'[t].frame = sender[t].frame
  BY <1>3 DEF WakeForSpace, EnqueueFails, SchedInv, SenderTypes
<1>4. Numbered'
  BY <1>1, <1>2, <1>3 DEF CountedInv, Numbered
<1> QED BY <1>2, <1>4 DEF CountedInv

LEMMA WriterCounts == ASSUME SchedInv, CountedInv, WriterNext PROVE CountedInv'
<1>0. /\ QueueTypes /\ sender' = sender /\ arrived' = arrived
      /\ \A g \in QueuedFrames : g \in Frames
  BY DEF SchedInv, QueueTypes, QueuedFrames, Range, WriterNext
<1>1. ASSUME OnePlace', NEW f \in QueuedFrames, QueuedFrames' = QueuedFrames \ {f},
             queued' = Uncounted(f)
      PROVE  CountedInv'
  <2>1. CountersInv'
    BY <1>0, <1>1, RemovalCounts DEF CountedInv
  <2>2. Numbered'
    BY <1>0, <1>1 DEF CountedInv, Numbered
  <2> QED BY <1>1, <2>1, <2>2 DEF CountedInv
<1>2. CASE TakeControl
  BY <1>0, <1>1, <1>2, TakeControlRemovesFrame DEF CountedInv
<1>3. CASE TakeFromLane
  BY <1>0, <1>1, <1>3, TakeFromLaneRemovesFrame DEF CountedInv
<1>4. CASE NothingToTake
  BY <1>0, <1>4 DEF NothingToTake, CountedInv, QueuedFrames, OnePlace, Numbered, CountersInv,
                    schedQueue
<1> QED BY <1>2, <1>3, <1>4 DEF WriterNext

LEMMA CloseQueueCounts == ASSUME SchedInv, CountedInv, CloseQueue PROVE CountedInv'
<1>1. /\ control' = <<>> /\ \A l \in LaneIds : lanes'[l] = <<>>
      /\ queued' = NothingQueued /\ UNCHANGED <<sender, arrived>>
  BY DEF CloseQueue, CountersAfterClose
<1>2. QueuedFrames' = {}
  BY <1>1, EmptyOnce DEF QueuedFrames
<1>3. OnePlace'
  BY <1>1, EmptyOnce DEF OnePlace
<1>4. Numbered'
  BY <1>1, <1>2 DEF CountedInv, Numbered
<1>5. Counts({}, queued')
  BY <1>1, CountNothing DEF NothingQueued, Counts
<1>6. Counts({}, [count |-> queued'.dataCount, bytes |-> queued'.dataBytes]) /\ DataOf({}) = {}
  BY <1>1, CountNothing DEF NothingQueued, Counts, DataOf
<1>7. queued'.dataCount <= MaxDataCount /\ queued'.dataBytes <= MaxDataBytes
  BY <1>1, FramesFit, SchedulerAssumption
     DEF NothingQueued, MaxDataCount, MaxDataBytes, AtMost, AtLeast
<1> QED BY <1>2, <1>3, <1>4, <1>5, <1>6, <1>7 DEF CountersInv, CountedInv

LEMMA NextCountedInv == SchedInv /\ CountedInv /\ [SchedNext]_schedVars => CountedInv'
<1> SUFFICES ASSUME SchedInv, CountedInv, [SchedNext]_schedVars PROVE CountedInv'
  OBVIOUS
<1>1. ASSUME UNCHANGED <<schedQueue, sender, arrived>> PROVE CountedInv'
  BY <1>1 DEF CountedInv, QueuedFrames, OnePlace, Numbered, CountersInv, schedQueue
<1>2. CASE UNCHANGED schedVars
  BY <1>1, <1>2 DEF schedVars, schedQueue
<1>3. CASE WriterWakes \/ WriterSignals \/ WriteSucceeds \/ WriteFails \/ WriterCancelled
           \/ CloseSocket \/ CloseDone
  BY <1>1, <1>3 DEF WriterWakes, WriterSignals, WriteSucceeds, WriteFails, WriterCancelled,
                    CloseSocket, CloseDone
<1> QED BY <1>2, <1>3, ForwardCounts, RetryCounts, SendersCount, WriterCounts,
           CloseQueueCounts DEF SchedNext

LEMMA CountedInvAlways == SchedSpec => [](SchedInv /\ CountedInv)
BY InitSchedInv, NextSchedInv, InitCountedInv, NextCountedInv, PTL DEF SchedSpec

-----------------------------------------------------------------------------
(* The four counters that admit frames say what the queue holds, in frames *)
(* and in bytes, all of it and the data alone, whatever the sizes of the   *)
(* frames and however the senders, the writer and close interleave         *)
(* (scheduler.go:123-124, 149-152, 195-201).                               *)
THEOREM CountersMatchAlways == SchedSpec => []CountersMatchQueue
<1>1. CountedInv => CountersMatchQueue
  <2> SUFFICES ASSUME CountedInv PROVE CountersMatchQueue
    OBVIOUS
  <2>1. {f \in QueuedFrames : TRUE} = QueuedFrames
    OBVIOUS
  <2>2. /\ queued.count = Cardinality(QueuedFrames)
        /\ queued.bytes = Cardinality(BytesOf(QueuedFrames))
    BY DEF CountedInv, CountersInv, Counts
  <2>3. /\ queued.dataCount = Cardinality(DataOf(QueuedFrames))
        /\ queued.dataBytes = Cardinality(BytesOf(DataOf(QueuedFrames)))
    BY DEF CountedInv, CountersInv, Counts
  <2>4. DataOf(QueuedFrames) = {f \in QueuedFrames : ~f.control}
    BY DEF DataOf
  <2> QED BY <2>1, <2>2, <2>3, <2>4 DEF CountersMatchQueue, Holding, HoldingBytes
<1> QED BY <1>1, CountedInvAlways, PTL

(* A control frame of any legal size is refused only while other control   *)
(* frames are queued: what data may fill leaves room for one               *)
(* (scheduler.go:102-104).                                                 *)
THEOREM BulkNeverBlocksAlways == SchedSpec => []BulkNeverBlocksControl
<1>1. SchedInv /\ CountedInv => BulkNeverBlocksControl
  <2> SUFFICES ASSUME SchedInv, CountedInv,
                      \/ queued.count >= MaxQueuedEnvelopes
                      \/ queued.bytes + MaxFrameBytes > MaxQueuedBytes
               PROVE  Holding(LAMBDA f : f.control) > 0
    BY DEF BulkNeverBlocksControl
  <2> DEFINE data  == [count |-> queued.dataCount, bytes |-> queued.dataBytes]
             urgent == {f \in QueuedFrames : f.control}
  <2>1. /\ queued.count \in Nat /\ queued.bytes \in Nat
        /\ queued.dataCount \in Nat /\ queued.dataBytes \in Nat
    BY CountsAreNumbers DEF CountedInv, CountersInv
  <2>2. MaxDataCount < MaxQueuedEnvelopes /\ MaxDataBytes + MaxFrameBytes <= MaxQueuedBytes
    BY SchedulerAssumption, FramesFit DEF MaxDataCount, MaxDataBytes, AtMost, AtLeast
  <2>3. urgent # {}
    <3>1. SUFFICES ASSUME urgent = {} PROVE FALSE
      OBVIOUS
    <3>2. DataOf(QueuedFrames) = QueuedFrames
      BY <3>1 DEF DataOf
    <3>3. queued.count = queued.dataCount /\ queued.bytes = queued.dataBytes
      BY <3>2 DEF CountedInv, CountersInv, Counts
    <3> QED BY <2>1, <2>2, <3>3, SchedulerAssumption
            DEF CountedInv, CountersInv, MaxDataCount, MaxDataBytes, AtMost, AtLeast
  <2>4. IsFiniteSet(urgent)
    BY FS_Subset DEF CountedInv, CountersInv, Counts
  <2>5. Cardinality(urgent) \in Nat /\ Cardinality(urgent) # 0
    BY <2>3, <2>4, FS_CardinalityType, FS_EmptySet
  <2> HIDE DEF urgent
  <2>6. Cardinality(urgent) > 0
    BY <2>5
  <2> QED BY <2>6 DEF Holding, urgent
<1> QED BY <1>1, CountedInvAlways, PTL

-----------------------------------------------------------------------------
(* The variables about which nothing else is needed                        *)

RestTypes ==
    /\ queued \in [bytes : Nat, count : Nat, dataBytes : Nat, dataCount : Nat]
    /\ signal \in BOOLEAN /\ space \in BOOLEAN
    /\ writer \in [pc : {"scan", "taken", "writing", "parked", "stopped"},
                   frame : Frames \cup {NoFrame}]
    /\ conn \in {"open", "socket", "drained", "closed"}

(* A change of the counters leaves numbers, as they are cardinalities.     *)
LEMMA CountersStayTyped ==
    ASSUME CountersInv', NEW b, NEW c, NEW db, NEW dc,
           queued' = [bytes |-> b, count |-> c, dataBytes |-> db, dataCount |-> dc]
    PROVE  queued' \in [bytes : Nat, count : Nat, dataBytes : Nat, dataCount : Nat]
<1>1. queued'.count \in Nat /\ queued'.bytes \in Nat
  BY CountsAreNumbers DEF CountersInv
<1>2. queued'.dataCount \in Nat /\ queued'.dataBytes \in Nat
  <2> DEFINE data == [count |-> queued'.dataCount, bytes |-> queued'.dataBytes]
  <2>1. Counts(DataOf(QueuedFrames'), data)
    BY DEF CountersInv
  <2>2. data.count = queued'.dataCount /\ data.bytes = queued'.dataBytes
    OBVIOUS
  <2> HIDE DEF data
  <2> QED BY <2>1, <2>2, CountsAreNumbers
<1>3. queued'.bytes = b /\ queued'.count = c /\ queued'.dataBytes = db /\ queued'.dataCount = dc
  OBVIOUS
<1> QED BY <1>1, <1>2, <1>3

LEMMA SendersKeepRest ==
    ASSUME RestTypes, CountersInv', NEW s,
           ForwardFrame(s) \/ RetryEnqueue(s) \/ WakeForSpace(s) \/ EnqueueFails(s)
    PROVE  RestTypes'
<1>1. /\ writer' = writer /\ conn' = conn
      /\ signal' = TRUE \/ signal' = signal
      /\ space' = FALSE \/ space' = space
  BY DEF ForwardFrame, RetryEnqueue, WakeForSpace, EnqueueFails, EnqueueTurn, EnqueueLocked
<1>2. queued' = queued \/ \E f : queued' = Counted(f)
  BY DEF ForwardFrame, RetryEnqueue, WakeForSpace, EnqueueFails, EnqueueTurn, EnqueueLocked,
         schedQueue
<1>3. queued' \in [bytes : Nat, count : Nat, dataBytes : Nat, dataCount : Nat]
  BY <1>2, CountersStayTyped DEF Counted, RestTypes
<1> QED BY <1>1, <1>3 DEF RestTypes

LEMMA WriterKeepsRest ==
    ASSUME SchedInv, RestTypes, CountersInv', WriterNext PROVE RestTypes'
<1>1. UNCHANGED <<signal, space, conn>>
  BY DEF WriterNext
<1>2. CASE NothingToTake
  BY <1>1, <1>2 DEF NothingToTake, RestTypes, schedQueue
<1>3. CASE TakeControl \/ TakeFromLane
  <2>1. PICK f \in Frames : queued' = Uncounted(f) /\ writer' = [pc |-> "taken", frame |-> f]
    <3>1. CASE TakeControl
      <4>1. Head(control) \in Frames
        BY <3>1 DEF TakeControl, SchedInv, QueueTypes
      <4> QED BY <3>1, <4>1 DEF TakeControl
    <3>2. CASE TakeFromLane
      <4>1. Len(streamOrder) \in Nat \ {0} /\ (nextStream % Len(streamOrder)) + 1 \in 1..Len(streamOrder)
        BY <3>2, EmptySeq DEF TakeFromLane, SchedInv, QueueTypes
      <4>2. streamOrder[(nextStream % Len(streamOrder)) + 1] \in LaneIds
        BY <4>1 DEF SchedInv, QueueTypes
      <4>3. PICK l \in LaneIds : /\ lanes[l] # <<>> /\ queued' = Uncounted(Head(lanes[l]))
                                 /\ writer' = [pc |-> "taken", frame |-> Head(lanes[l])]
        BY <3>2, <4>2 DEF TakeFromLane
      <4>4. Head(lanes[l]) \in Frames
        BY <4>3 DEF SchedInv, QueueTypes
      <4> QED BY <4>3, <4>4
    <3> QED BY <1>3, <3>1, <3>2
  <2>2. queued' \in [bytes : Nat, count : Nat, dataBytes : Nat, dataCount : Nat]
    BY <2>1, CountersStayTyped DEF Uncounted
  <2> QED BY <1>1, <2>1, <2>2 DEF RestTypes
<1> QED BY <1>2, <1>3 DEF WriterNext

LEMMA NextRestTypes ==
    ASSUME SchedInv, CountedInv', RestTypes, [SchedNext]_schedVars PROVE RestTypes'
<1>1. CASE WriterWakes \/ WriterSignals \/ WriteSucceeds \/ WriteFails \/ WriterCancelled
           \/ CloseSocket \/ CloseDone
  <2>1. /\ queued' = queued
        /\ signal' \in BOOLEAN /\ space' \in BOOLEAN
        /\ conn' \in {"open", "socket", "drained", "closed"}
    BY <1>1 DEF WriterWakes, WriterSignals, WriteSucceeds, WriteFails, WriterCancelled,
                CloseSocket, CloseDone, SignalSpace, RestTypes, schedQueue
  <2>2. \/ writer' = writer
        \/ \E pc \in {"scan", "writing", "stopped"} : writer' = [writer EXCEPT !.pc = pc]
    BY <1>1 DEF WriterWakes, WriterSignals, WriteSucceeds, WriteFails, WriterCancelled,
                CloseSocket, CloseDone
  <2> QED BY <2>1, <2>2 DEF RestTypes
<1>2. CASE CloseQueue
  BY <1>2 DEF CloseQueue, CountersAfterClose, NothingQueued, RestTypes
<1>3. CASE UNCHANGED schedVars
  BY <1>3 DEF schedVars, RestTypes
<1> QED BY <1>1, <1>2, <1>3, SendersKeepRest, WriterKeepsRest DEF SchedNext, CountedInv

(* Every variable of the queue keeps its type (relay/scheduler.go).        *)
THEOREM SchedTypesCorrect == SchedSpec => []SchedTypeOK
<1>1. SchedInit => RestTypes
  <2> SUFFICES ASSUME SchedInit PROVE RestTypes
    OBVIOUS
  <2>1. 0 \in Nat
    OBVIOUS
  <2> QED BY <2>1 DEF SchedInit, RestTypes, NothingQueued
<1>2. SchedSpec => []RestTypes
  BY <1>1, CountedInvAlways, NextRestTypes, PTL DEF SchedSpec
<1>3. SchedInv /\ RestTypes => SchedTypeOK
  BY DEF SchedInv, QueueTypes, SenderTypes, RestTypes, SchedTypeOK
<1> QED BY <1>2, <1>3, CountedInvAlways, PTL

-----------------------------------------------------------------------------
(* The frames of one order domain                                          *)

Collects(d, S, seq) ==
    \E f \in [0..Len(seq) -> Seq(S)] :
        /\ FramesOf(d, seq) = f[Len(seq)] /\ f[0] = <<>>
        /\ \A k \in 1..Len(seq) :
             f[k] = IF OrderDomain(seq[k]) = d THEN Append(f[k - 1], seq[k]) ELSE f[k - 1]

LEMMA FramesOfSteps == ASSUME NEW d, NEW S, NEW seq \in Seq(S) PROVE Collects(d, S, seq)
<1> DEFINE n       == Len(seq)
           More(s, k) == IF OrderDomain(seq[k]) = d THEN Append(s, seq[k]) ELSE s
           step    == [k \in 1..n |-> [s \in Seq(S) |-> More(s, k)]]
           UpTo(f) == f = [k \in 0..Len(seq) |->
                             IF k = 0 THEN <<>>
                             ELSE IF OrderDomain(seq[k]) = d THEN Append(f[k - 1], seq[k])
                             ELSE f[k - 1]]
<1>1. n \in Nat /\ <<>> \in Seq(S)
  OBVIOUS
<1>2. step \in [1..n -> [Seq(S) -> Seq(S)]]
  <2>1. ASSUME NEW k \in 1..n, NEW s \in Seq(S) PROVE More(s, k) \in Seq(S)
    <3>1. seq[k] \in S
      OBVIOUS
    <3> QED BY <3>1
  <2> HIDE DEF More
  <2> QED BY <2>1
<1>3. PICK g \in [0..n -> Seq(S)] : g[0] = <<>> /\ \A k \in 1..n : g[k] = step[k][g[k - 1]]
  <2> HIDE DEF step, n
  <2>1. HasRecursion(Seq(S), <<>>, n, step)
    BY <1>1, <1>2, RecursionExists
  <2> QED BY <2>1 DEF HasRecursion
<1>4. \A k \in 1..n : g[k] = More(g[k - 1], k)
  <2> TAKE k \in 1..n
  <2>1. g[k - 1] \in Seq(S)
    BY <1>1, <1>3
  <2>2. step[k][g[k - 1]] = More(g[k - 1], k)
    <3> HIDE DEF More
    <3> QED BY <2>1
  <2> HIDE DEF More, step
  <2> QED BY <1>3, <2>2
<1>5. UpTo(g)
  <2>1. \A k \in 0..n : g[k] = IF k = 0 THEN <<>> ELSE More(g[k - 1], k)
    <3> HIDE DEF More
    <3> QED BY <1>1, <1>3, <1>4
  <2>2. g = [k \in 0..n |-> IF k = 0 THEN <<>> ELSE More(g[k - 1], k)]
    <3> HIDE DEF More
    <3> QED BY <1>3, <2>1
  <2> QED BY <2>2
<1>6. PICK f : UpTo(f) /\ FramesOf(d, seq) = f[n]
  <2>1. UpTo(CHOOSE f : UpTo(f))
    BY <1>5
  <2>2. FramesOf(d, seq) = (CHOOSE f : UpTo(f))[n]
    BY DEF FramesOf
  <2> QED BY <2>1, <2>2
<1>7. f = [k \in 0..n |-> IF k = 0 THEN <<>> ELSE More(f[k - 1], k)]
  BY <1>6
<1> HIDE DEF UpTo, n
<1>8. f[0] = <<>> /\ \A k \in 1..n : f[k] = More(f[k - 1], k)
  <2>1. \A k \in 0..n : f[k] = IF k = 0 THEN <<>> ELSE More(f[k - 1], k)
    <3> HIDE DEF More
    <3> QED BY <1>7
  <2>2. 0 \in 0..n /\ \A k \in 1..n : k \in 0..n /\ k # 0
    BY <1>1
  <2> HIDE DEF More
  <2> QED BY <2>1, <2>2
<1> DEFINE T == {k \in 0..n : f[k] = g[k]}
<1>9. 0 \in T
  BY <1>1, <1>3, <1>8
<1>10. ASSUME NEW k \in 1..n, k - 1 \in T PROVE k \in T
  <2>1. f[k - 1] = g[k - 1] /\ k \in 0..n
    BY <1>10
  <2>2. f[k] = g[k]
    <3> HIDE DEF More
    <3> QED BY <1>4, <1>8, <2>1
  <2> QED BY <2>1, <2>2
<1>11. 0..n \subseteq T
  <2> HIDE DEF T
  <2> QED BY <1>1, <1>9, <1>10, BoundedInduction
<1>12. f[n] = g[n]
  BY <1>1, <1>11
<1> QED BY <1>3, <1>4, <1>6, <1>12 DEF n, Collects

LEMMA FramesOfAppend ==
    ASSUME NEW d, NEW S, NEW seq \in Seq(S), NEW x \in S
    PROVE  /\ FramesOf(d, seq) \in Seq(S)
           /\ FramesOf(d, Append(seq, x))
                = IF OrderDomain(x) = d THEN Append(FramesOf(d, seq), x) ELSE FramesOf(d, seq)
<1> DEFINE n      == Len(seq)
           longer == Append(seq, x)
<1>1. /\ n \in Nat /\ longer \in Seq(S) /\ Len(longer) = n + 1 /\ longer[n + 1] = x
      /\ \A k \in 1..n : longer[k] = seq[k]
  BY AppendProperties
<1> HIDE DEF longer
<1>2. PICK f \in [0..n -> Seq(S)] :
        /\ FramesOf(d, seq) = f[n] /\ f[0] = <<>>
        /\ \A k \in 1..n :
             f[k] = IF OrderDomain(seq[k]) = d THEN Append(f[k - 1], seq[k]) ELSE f[k - 1]
  <2>1. Collects(d, S, seq)
    BY FramesOfSteps
  <2> QED BY <2>1 DEF Collects
<1>3. PICK g \in [0..(n + 1) -> Seq(S)] :
        /\ FramesOf(d, longer) = g[n + 1] /\ g[0] = <<>>
        /\ \A k \in 1..(n + 1) :
             g[k] = IF OrderDomain(longer[k]) = d THEN Append(g[k - 1], longer[k]) ELSE g[k - 1]
  <2>1. Collects(d, S, longer)
    BY <1>1, FramesOfSteps
  <2> QED BY <1>1, <2>1 DEF Collects
<1> HIDE DEF n
<1> DEFINE T == {k \in 0..n : f[k] = g[k]}
<1>4. 0 \in T
  BY <1>1, <1>2, <1>3
<1>5. ASSUME NEW k \in 1..n, k - 1 \in T PROVE k \in T
  <2>1. f[k - 1] = g[k - 1] /\ k \in 0..n /\ k \in 1..(n + 1) /\ longer[k] = seq[k]
    BY <1>1, <1>5
  <2>2. f[k] = g[k]
    BY <1>2, <1>3, <2>1
  <2> QED BY <2>1, <2>2
<1>6. 0..n \subseteq T
  <2> HIDE DEF T
  <2> QED BY <1>1, <1>4, <1>5, BoundedInduction
<1>7. f[n] = g[n] /\ (n + 1) - 1 = n /\ n + 1 \in 1..(n + 1)
  BY <1>1, <1>6
<1>8. g[n + 1] = IF OrderDomain(x) = d THEN Append(g[n], x) ELSE g[n]
  BY <1>1, <1>3, <1>7
<1>9. f[n] \in Seq(S)
  BY <1>1, <1>2
<1> QED BY <1>2, <1>3, <1>7, <1>8, <1>9 DEF longer

LEMMA FramesOfNothing == ASSUME NEW d PROVE FramesOf(d, <<>>) = <<>>
<1>1. <<>> \in Seq({}) /\ Len(<<>>) = 0
  OBVIOUS
<1>2. Collects(d, {}, <<>>)
  BY <1>1, FramesOfSteps
<1> QED BY <1>1, <1>2 DEF Collects

LEMMA FramesOfTail ==
    ASSUME NEW d, NEW S, NEW seq \in Seq(S), seq # <<>>
    PROVE  FramesOf(d, seq) = IF OrderDomain(Head(seq)) = d
                              THEN <<Head(seq)>> \o FramesOf(d, Tail(seq))
                              ELSE FramesOf(d, Tail(seq))
<1> DEFINE First(s) == IF OrderDomain(Head(s)) = d THEN <<Head(s)>> ELSE <<>>
           T        == {m \in Nat : \A s \in Seq(S) : Len(s) = m + 1
                           => FramesOf(d, s) = First(s) \o FramesOf(d, Tail(s))}
<1>1. 0 \in T
  <2> SUFFICES ASSUME NEW s \in Seq(S), Len(s) = 0 + 1
               PROVE  FramesOf(d, s) = First(s) \o FramesOf(d, Tail(s))
    OBVIOUS
  <2>1. s # <<>>
    BY NotEmpty
  <2>2. PICK front \in Seq(S), x \in S : s = Append(front, x) /\ Len(front) = Len(s) - 1
    BY <2>1, LastApart
  <2>3. front = <<>> /\ <<>> \in Seq(S)
    BY <2>2, EmptySeq
  <2>4. Head(s) = x /\ Tail(s) = <<>>
    BY <2>2, <2>3
  <2>5. FramesOf(d, s) = IF OrderDomain(x) = d THEN Append(<<>>, x) ELSE <<>>
    <3>1. FramesOf(d, Append(front, x)) = IF OrderDomain(x) = d THEN Append(FramesOf(d, front), x)
                                                                 ELSE FramesOf(d, front)
      BY FramesOfAppend
    <3> QED BY <2>2, <2>3, <3>1, FramesOfNothing
  <2>6. FramesOf(d, Tail(s)) = <<>>
    BY <2>4, FramesOfNothing
  <2>7. Append(<<>>, x) = <<x>> \o <<>> /\ <<>> \o <<>> = <<>>
    BY <2>2
  <2> QED BY <2>4, <2>5, <2>6, <2>7
<1>2. ASSUME NEW m \in Nat, m \in T PROVE m + 1 \in T
  <2> SUFFICES ASSUME NEW s \in Seq(S), Len(s) = (m + 1) + 1
               PROVE  FramesOf(d, s) = First(s) \o FramesOf(d, Tail(s))
    OBVIOUS
  <2>1. s # <<>>
    BY NotEmpty
  <2>2. PICK front \in Seq(S), x \in S : s = Append(front, x) /\ Len(front) = Len(s) - 1
    BY <2>1, LastApart
  <2>r. PICK rest : rest = Tail(front)
    OBVIOUS
  <2>3. /\ Len(front) = m + 1 /\ front # <<>>
        /\ Head(s) = Head(front) /\ Tail(s) = Append(rest, x) /\ rest \in Seq(S)
    BY <2>2, <2>r
  <2>4. FramesOf(d, front) = First(front) \o FramesOf(d, rest)
    BY <1>2, <2>3, <2>r
  <2>5. FramesOf(d, s) = IF OrderDomain(x) = d THEN Append(FramesOf(d, front), x)
                                               ELSE FramesOf(d, front)
    BY <2>2, FramesOfAppend
  <2>6. /\ FramesOf(d, Tail(s)) = IF OrderDomain(x) = d THEN Append(FramesOf(d, rest), x)
                                                        ELSE FramesOf(d, rest)
        /\ FramesOf(d, rest) \in Seq(S)
    <3>1. rest \in Seq(S) /\ Tail(s) = Append(rest, x)
      BY <2>3
    <3>2. /\ FramesOf(d, Append(rest, x)) = IF OrderDomain(x) = d THEN Append(FramesOf(d, rest), x)
                                                                  ELSE FramesOf(d, rest)
          /\ FramesOf(d, rest) \in Seq(S)
      BY <3>1, FramesOfAppend
    <3> QED BY <3>1, <3>2
  <2>7. First(s) = First(front) /\ First(s) \in Seq(S)
    <3>1. Head(s) \in S
      BY <2>1
    <3> QED BY <2>3, <3>1
  <2> HIDE DEF First
  <2>8. Append(First(s) \o FramesOf(d, rest), x) = First(s) \o Append(FramesOf(d, rest), x)
    <3>1. First(s) \in Seq(S) /\ FramesOf(d, rest) \in Seq(S) /\ x \in S
      BY <2>2, <2>6, <2>7
    <3>2. <<x>> \in Seq(S) /\ First(s) \o FramesOf(d, rest) \in Seq(S)
      BY <3>1
    <3>3. /\ Append(First(s) \o FramesOf(d, rest), x) = (First(s) \o FramesOf(d, rest)) \o <<x>>
          /\ Append(FramesOf(d, rest), x) = FramesOf(d, rest) \o <<x>>
      BY <3>1, <3>2, AppendIsConcat
    <3>4. (First(s) \o FramesOf(d, rest)) \o <<x>> = First(s) \o (FramesOf(d, rest) \o <<x>>)
      BY <3>1, <3>2, ConcatAssociative
    <3> QED BY <3>3, <3>4
  <2> QED BY <2>4, <2>5, <2>6, <2>7, <2>8
<1> HIDE DEF T
<1>3. Nat \subseteq T
  BY <1>1, <1>2, SetInduction
<1>4. Len(seq) - 1 \in Nat /\ Len(seq) = (Len(seq) - 1) + 1
  BY EmptySeq
<1>5. FramesOf(d, seq) = First(seq) \o FramesOf(d, Tail(seq))
  BY <1>3, <1>4 DEF T
<1>6. FramesOf(d, Tail(seq)) \in Seq(S)
  <2>1. Tail(seq) \in Seq(S) /\ Head(seq) \in S
    OBVIOUS
  <2> QED BY <2>1, FramesOfAppend
<1> QED BY <1>5, <1>6

-----------------------------------------------------------------------------
(* The queue implements a FIFO per stream                                  *)

(* Control frames without a stream never queue behind data.                *)
NothingUrgentUnclassified == \A f \in Range(lanes[NoStream]) : ~f.control

OrderInv == SchedInv /\ CountedInv /\ NothingUrgentUnclassified

LEMMA InitOrderInv == SchedInit => OrderInv
<1> SUFFICES ASSUME SchedInit PROVE OrderInv
  OBVIOUS
<1>1. lanes[NoStream] = <<>>
  BY DEF SchedInit, LaneIds
<1>2. NothingUrgentUnclassified
  BY <1>1, EmptyOnce DEF NothingUrgentUnclassified
<1> QED BY <1>2, InitSchedInv, InitCountedInv DEF OrderInv

LEMMA UrgentStaysClassified ==
    ASSUME OrderInv, [SchedNext]_schedVars PROVE NothingUrgentUnclassified'
<1>0. NoStream \in LaneIds /\ lanes \in [LaneIds -> Seq(Frames)] /\ control \in Seq(Frames)
  BY DEF LaneIds, OrderInv, SchedInv, QueueTypes
<1>1. ASSUME lanes' = lanes PROVE NothingUrgentUnclassified'
  BY <1>1 DEF OrderInv, NothingUrgentUnclassified
<1>2. ASSUME NEW f \in Frames, EnqueueLocked(f) PROVE NothingUrgentUnclassified'
  <2>1. CASE BypassesLanes(f)
    BY <1>1, <1>2, <2>1 DEF EnqueueLocked
  <2>2. CASE ~BypassesLanes(f) /\ f.stream = NoStream
    <3>1. lanes' = [lanes EXCEPT ![NoStream] = Append(@, f)] /\ ~f.control
      BY <1>2, <2>2 DEF EnqueueLocked, BypassesLanes
    <3>2. lanes'[NoStream] = Append(lanes[NoStream], f)
      BY <1>0, <3>1
    <3>3. Range(Append(lanes[NoStream], f)) = Range(lanes[NoStream]) \cup {f}
      BY <1>0, AppendOnce
    <3> QED BY <3>1, <3>2, <3>3 DEF OrderInv, NothingUrgentUnclassified
  <2>3. CASE ~BypassesLanes(f) /\ f.stream # NoStream
    <3>1. lanes' = [lanes EXCEPT ![f.stream] = Append(@, f)]
      BY <1>2, <2>3 DEF EnqueueLocked
    <3>2. lanes'[NoStream] = lanes[NoStream]
      BY <1>0, <2>3, <3>1
    <3> QED BY <3>2 DEF OrderInv, NothingUrgentUnclassified
  <2> QED BY <2>1, <2>2, <2>3
<1>3. ASSUME NEW s \in Senders, ForwardFrame(s) \/ RetryEnqueue(s)
      PROVE  NothingUrgentUnclassified'
  <2>1. ASSUME NEW f, EnqueueTurn(s, f), ~(lanes' = lanes) PROVE EnqueueLocked(f)
    BY <2>1 DEF EnqueueTurn, schedQueue
  <2>2. CASE ForwardFrame(s)
    <3>1. PICK kind \in Traffic, size \in FrameSizes :
            EnqueueTurn(s, [from |-> s, n |-> arrived', stream |-> kind[1],
                            control |-> kind[2], size |-> size])
      BY <2>2 DEF ForwardFrame
    <3>2. kind[1] \in LaneIds /\ kind[2] \in BOOLEAN
      BY SchedulerAssumption DEF LaneIds
    <3>3. arrived' \in 0..MaxFrames
      BY <2>2, SchedulerAssumption DEF ForwardFrame, OrderInv, SchedInv, SenderTypes
    <3>4. [from |-> s, n |-> arrived', stream |-> kind[1],
           control |-> kind[2], size |-> size] \in Frames
      BY <3>2, <3>3 DEF Frames
    <3> QED BY <1>1, <1>2, <2>1, <3>1, <3>4
  <2>3. CASE RetryEnqueue(s)
    <3>1. sender[s].frame \in Frames /\ EnqueueTurn(s, sender[s].frame)
      BY <2>3 DEF RetryEnqueue, OrderInv, SchedInv, SenderTypes
    <3> QED BY <1>1, <1>2, <2>1, <3>1
  <2> QED BY <1>3, <2>2, <2>3
<1>4. CASE WriterNext
  <2>1. CASE TakeControl \/ NothingToTake
    BY <1>1, <2>1 DEF TakeControl, NothingToTake, schedQueue
  <2>2. CASE TakeFromLane
    <3>1. PICK lane : /\ lanes[lane] # <<>>
                      /\ lanes' = [lanes EXCEPT ![lane] = Tail(@)]
      BY <2>2 DEF TakeFromLane
    <3>2. CASE lane # NoStream
      <4>1. lanes'[NoStream] = lanes[NoStream]
        BY <1>0, <3>1, <3>2
      <4> QED BY <4>1 DEF OrderInv, NothingUrgentUnclassified
    <3>3. CASE lane = NoStream
      <4>1. lanes'[NoStream] = Tail(lanes[NoStream]) /\ lanes[NoStream] \in Seq(Frames)
            /\ lanes[NoStream] # <<>> /\ Once(lanes[NoStream])
        BY <1>0, <3>1, <3>3 DEF OrderInv, CountedInv, OnePlace
      <4>2. Range(Tail(lanes[NoStream])) \subseteq Range(lanes[NoStream])
        BY <4>1, TailOnce
      <4> QED BY <4>1, <4>2 DEF OrderInv, NothingUrgentUnclassified
    <3> QED BY <3>2, <3>3
  <2> QED BY <1>4, <2>1, <2>2 DEF WriterNext
<1>5. CASE CloseQueue
  <2>1. lanes'[NoStream] = <<>>
    BY <1>0, <1>5 DEF CloseQueue
  <2> QED BY <2>1, EmptyOnce DEF NothingUrgentUnclassified
<1>6. CASE (\E s \in Senders : WakeForSpace(s) \/ EnqueueFails(s))
           \/ WriterWakes \/ WriterSignals \/ WriteSucceeds \/ WriteFails \/ WriterCancelled
           \/ CloseSocket \/ CloseDone \/ UNCHANGED schedVars
  BY <1>1, <1>6 DEF WakeForSpace, EnqueueFails, WriterWakes, WriterSignals, WriteSucceeds,
       WriteFails, WriterCancelled, CloseSocket, CloseDone, schedVars, schedQueue
<1> QED BY <1>3, <1>4, <1>5, <1>6 DEF SchedNext

LEMMA NextOrderInv == OrderInv /\ [SchedNext]_schedVars => OrderInv'
BY UrgentStaysClassified, NextSchedInv, NextCountedInv DEF OrderInv

(* The same, as the function the refinement maps to.                       *)
PendingFrames == [d \in OrderDomains |-> PendingOf(d)]

LEMMA InitIsFifo == SchedInit => Fifo!FifoInit
<1> SUFFICES ASSUME SchedInit PROVE Fifo!FifoInit
  OBVIOUS
<1>1. \A d \in OrderDomains : d[1] \in LaneIds
  BY DEF OrderDomains, LaneIds
<1>2. ASSUME NEW d \in OrderDomains PROVE PendingOf(d) = <<>>
  <2>1. control = <<>> /\ lanes[d[1]] = <<>>
    BY <1>1 DEF SchedInit
  <2>2. <<>> \o <<>> = <<>>
    OBVIOUS
  <2> QED BY <2>1, <2>2, FramesOfNothing DEF PendingOf
<1> QED BY <1>2 DEF Fifo!FifoInit

LEMMA FramesOfOthers ==
    ASSUME NEW d, NEW S, NEW seq \in Seq(S), \A x \in Range(seq) : OrderDomain(x) # d
    PROVE  FramesOf(d, seq) = <<>>
<1> DEFINE n == Len(seq)
<1>1. n \in Nat /\ \A k \in 1..n : seq[k] \in Range(seq)
  BY DEF Range
<1>2. PICK f \in [0..n -> Seq(S)] :
        /\ FramesOf(d, seq) = f[n] /\ f[0] = <<>>
        /\ \A k \in 1..n :
             f[k] = IF OrderDomain(seq[k]) = d THEN Append(f[k - 1], seq[k]) ELSE f[k - 1]
  <2>1. Collects(d, S, seq)
    BY FramesOfSteps
  <2> QED BY <2>1 DEF Collects
<1> HIDE DEF n
<1> DEFINE T == {k \in 0..n : f[k] = <<>>}
<1>3. 0 \in T
  BY <1>1, <1>2
<1>4. ASSUME NEW k \in 1..n, k - 1 \in T PROVE k \in T
  <2>1. OrderDomain(seq[k]) # d /\ k \in 0..n /\ f[k - 1] = <<>>
    BY <1>1, <1>4
  <2> QED BY <1>2, <2>1
<1>5. 0..n \subseteq T
  <2> HIDE DEF T
  <2> QED BY <1>1, <1>3, <1>4, BoundedInduction
<1> QED BY <1>1, <1>2, <1>5

LEMMA DomainOfFrame ==
    ASSUME NEW f \in Frames
    PROVE  OrderDomain(f) \in OrderDomains /\ OrderDomain(f)[1] = f.stream
BY DEF Frames, LaneIds, OrderDomain, OrderDomains

LEMMA FramesOfTyped ==
    ASSUME NEW d, NEW S, NEW seq \in Seq(S) PROVE FramesOf(d, seq) \in Seq(S)
<1>1. PICK f \in [0..Len(seq) -> Seq(S)] : FramesOf(d, seq) = f[Len(seq)]
  <2>1. Collects(d, S, seq)
    BY FramesOfSteps
  <2> QED BY <2>1 DEF Collects
<1>2. Len(seq) \in 0..Len(seq)
  OBVIOUS
<1> QED BY <1>1, <1>2

LEMMA PendingTypes ==
    ASSUME OrderInv, NEW d \in OrderDomains
    PROVE  /\ d[1] \in LaneIds
           /\ FramesOf(d, control) \in Seq(Frames)
           /\ FramesOf(d, lanes[d[1]]) \in Seq(Frames)
<1>1. d[1] \in LaneIds
  BY DEF OrderDomains, LaneIds
<1>2. control \in Seq(Frames) /\ lanes[d[1]] \in Seq(Frames)
  BY <1>1 DEF OrderInv, SchedInv, QueueTypes
<1> QED BY <1>1, <1>2, FramesOfTyped

Accepts(f) ==
    /\ PendingOf(OrderDomain(f))' = Append(PendingOf(OrderDomain(f)), f)
    /\ \A d \in OrderDomains \ {OrderDomain(f)} : PendingOf(d)' = PendingOf(d)

LEMMA BypassAccepts ==
    ASSUME OrderInv, NEW f \in Frames, EnqueueLocked(f), BypassesLanes(f) PROVE Accepts(f)
<1>1. control' = Append(control, f) /\ lanes' = lanes /\ control \in Seq(Frames)
  BY DEF EnqueueLocked, OrderInv, SchedInv, QueueTypes
<1>2. ASSUME NEW d \in OrderDomains PROVE PendingOf(d)' = FramesOf(d, Append(control, f)) \o FramesOf(d, lanes[d[1]])
  BY <1>1 DEF PendingOf
<1>3. ASSUME NEW d \in OrderDomains, d # OrderDomain(f) PROVE PendingOf(d)' = PendingOf(d)
  <2>1. FramesOf(d, Append(control, f)) = FramesOf(d, control)
    BY <1>1, <1>3, FramesOfAppend
  <2> QED BY <1>2, <2>1 DEF PendingOf
<1> DEFINE o == OrderDomain(f)
<1>4. o \in OrderDomains /\ o[1] = f.stream
  BY DomainOfFrame
<1>5. FramesOf(o, Append(control, f)) = Append(FramesOf(o, control), f)
  BY <1>1, FramesOfAppend
<1>6. FramesOf(o, lanes[f.stream]) = <<>>
  <2>1. CASE f.stream # NoStream
    BY <2>1, FramesOfNothing DEF BypassesLanes
  <2>2. CASE f.stream = NoStream
    <3>1. o = <<NoStream, "control">>
      BY <2>2 DEF OrderDomain, BypassesLanes
    <3>2. ASSUME NEW x \in Range(lanes[NoStream]) PROVE OrderDomain(x) # o
      <4>1. ~x.control
        BY <3>2 DEF OrderInv, NothingUrgentUnclassified
      <4> QED BY <3>1, <4>1 DEF OrderDomain
    <3>3. lanes[NoStream] \in Seq(Frames)
      BY DEF LaneIds, OrderInv, SchedInv, QueueTypes
    <3> HIDE DEF o
    <3> QED BY <2>2, <3>2, <3>3, FramesOfOthers
  <2> QED BY <2>1, <2>2
<1>7. FramesOf(o, control) \in Seq(Frames)
  BY <1>4, PendingTypes
<1>8. PendingOf(o) = FramesOf(o, control) \o <<>> /\ PendingOf(o)' = Append(FramesOf(o, control), f) \o <<>>
  <2> HIDE DEF o
  <2> QED BY <1>2, <1>4, <1>5, <1>6 DEF PendingOf
<1>9. PendingOf(o) = FramesOf(o, control) /\ PendingOf(o)' = Append(FramesOf(o, control), f)
  <2>1. Append(FramesOf(o, control), f) \in Seq(Frames)
    BY <1>7
  <2> QED BY <1>7, <1>8, <2>1, ConcatEmptySeq
<1> QED BY <1>3, <1>9 DEF Accepts

LEMMA LaneAccepts ==
    ASSUME OrderInv, NEW f \in Frames, EnqueueLocked(f), ~BypassesLanes(f) PROVE Accepts(f)
<1>1. control' = control /\ lanes' = [lanes EXCEPT ![f.stream] = Append(@, f)]
      /\ lanes \in [LaneIds -> Seq(Frames)] /\ f.stream \in LaneIds
  BY DEF EnqueueLocked, OrderInv, SchedInv, QueueTypes, Frames
<1>2. ASSUME NEW d \in OrderDomains, d # OrderDomain(f) PROVE PendingOf(d)' = PendingOf(d)
  <2>1. d[1] \in LaneIds
    BY <1>2, PendingTypes
  <2>2. FramesOf(d, lanes'[d[1]]) = FramesOf(d, lanes[d[1]])
    <3>1. CASE d[1] # f.stream
      BY <1>1, <2>1, <3>1
    <3>2. CASE d[1] = f.stream
      <4>1. lanes'[d[1]] = Append(lanes[d[1]], f) /\ lanes[d[1]] \in Seq(Frames)
        BY <1>1, <2>1, <3>2
      <4> QED BY <1>2, <4>1, FramesOfAppend
    <3> QED BY <3>1, <3>2
  <2> QED BY <1>1, <2>2 DEF PendingOf
<1> DEFINE o == OrderDomain(f)
<1>3. o \in OrderDomains /\ o[1] = f.stream
  BY DomainOfFrame
<1>4. FramesOf(o, Append(lanes[f.stream], f)) = Append(FramesOf(o, lanes[f.stream]), f)
  BY <1>1, FramesOfAppend
<1> HIDE DEF o
<1>5. FramesOf(o, control) \in Seq(Frames) /\ FramesOf(o, lanes[f.stream]) \in Seq(Frames)
  BY <1>3, PendingTypes
<1>6. /\ PendingOf(o) = FramesOf(o, control) \o FramesOf(o, lanes[f.stream])
      /\ PendingOf(o)' = FramesOf(o, control) \o Append(FramesOf(o, lanes[f.stream]), f)
  BY <1>1, <1>3, <1>4 DEF PendingOf
<1>7. FramesOf(o, control) \o Append(FramesOf(o, lanes[f.stream]), f)
        = Append(FramesOf(o, control) \o FramesOf(o, lanes[f.stream]), f)
  BY <1>5, LastOfConcat
<1> QED BY <1>2, <1>6, <1>7 DEF Accepts, o

Takes(f) ==
    /\ PendingOf(OrderDomain(f)) # <<>>
    /\ f = Head(PendingOf(OrderDomain(f))) /\ f = writer'.frame
    /\ PendingOf(OrderDomain(f))' = Tail(PendingOf(OrderDomain(f)))
    /\ \A d \in OrderDomains \ {OrderDomain(f)} : PendingOf(d)' = PendingOf(d)

LEMMA ControlTakes ==
    ASSUME OrderInv, TakeControl PROVE \E f \in Frames : Takes(f)
<1>1. PICK f \in Frames, rest \in Seq(Frames) :
        /\ f = Head(control) /\ rest = Tail(control) /\ control' = rest
        /\ lanes' = lanes /\ writer'.frame = f /\ control # <<>> /\ control \in Seq(Frames)
  <2>1. control \in Seq(Frames) /\ control # <<>>
    BY DEF TakeControl, OrderInv, SchedInv, QueueTypes
  <2>2. Head(control) \in Frames /\ Tail(control) \in Seq(Frames)
    BY <2>1
  <2> QED BY <2>1, <2>2 DEF TakeControl
<1> DEFINE o == OrderDomain(f)
<1>2. \A d : FramesOf(d, control) = IF o = d THEN <<f>> \o FramesOf(d, rest)
                                             ELSE FramesOf(d, rest)
  BY <1>1, FramesOfTail
<1>3. o \in OrderDomains
  BY DomainOfFrame
<1> HIDE DEF o
<1>4. ASSUME NEW d \in OrderDomains
      PROVE  /\ PendingOf(d) = FramesOf(d, control) \o FramesOf(d, lanes[d[1]])
             /\ PendingOf(d)' = FramesOf(d, rest) \o FramesOf(d, lanes[d[1]])
  BY <1>1 DEF PendingOf
<1>5. \A d \in OrderDomains \ {o} : PendingOf(d)' = PendingOf(d)
  BY <1>2, <1>4
<1>6. FramesOf(o, rest) \in Seq(Frames) /\ FramesOf(o, lanes[o[1]]) \in Seq(Frames)
  BY <1>1, <1>3, PendingTypes, FramesOfTyped
<1>7. PendingOf(o) = (<<f>> \o FramesOf(o, rest)) \o FramesOf(o, lanes[o[1]])
  BY <1>2, <1>3, <1>4
<1>8. /\ PendingOf(o) # <<>> /\ Head(PendingOf(o)) = f
      /\ Tail(PendingOf(o)) = FramesOf(o, rest) \o FramesOf(o, lanes[o[1]])
  BY <1>6, <1>7, FirstOfConcat
<1>9. PendingOf(o)' = Tail(PendingOf(o))
  BY <1>3, <1>4, <1>8
<1>10. Takes(f)
  BY <1>1, <1>5, <1>8, <1>9 DEF Takes, o
<1> QED BY <1>10

LEMMA LaneTakes ==
    ASSUME OrderInv, TakeFromLane PROVE \E f \in Frames : Takes(f)
<1>0. /\ Len(streamOrder) \in Nat \ {0} /\ nextStream \in Nat /\ streamOrder \in Seq(LaneIds)
      /\ lanes \in [LaneIds -> Seq(Frames)]
  BY EmptySeq DEF TakeFromLane, OrderInv, SchedInv, QueueTypes
<1> DEFINE index == nextStream % Len(streamOrder)
<1>1. index + 1 \in 1..Len(streamOrder)
  BY <1>0
<1>2. streamOrder[index + 1] \in LaneIds
  BY <1>0, <1>1
<1>3. PICK lane \in LaneIds :
        /\ lanes[lane] # <<>> /\ lanes' = [lanes EXCEPT ![lane] = Tail(@)]
        /\ writer'.frame = Head(lanes[lane]) /\ control = <<>> /\ control' = control
  BY <1>2 DEF TakeFromLane
<1>4. PICK f \in Frames, rest \in Seq(Frames) :
        f = Head(lanes[lane]) /\ rest = Tail(lanes[lane]) /\ lanes[lane] \in Seq(Frames)
  <2>1. lanes[lane] \in Seq(Frames)
    BY <1>0
  <2>2. Head(lanes[lane]) \in Frames /\ Tail(lanes[lane]) \in Seq(Frames)
    BY <1>3, <2>1
  <2> QED BY <2>1, <2>2
<1>5. f.stream = lane
  <2>1. Once(lanes[lane])
    BY DEF OrderInv, CountedInv, OnePlace
  <2>2. f \in Range(lanes[lane])
    BY <1>3, <1>4, <2>1, TailOnce
  <2> QED BY <2>2 DEF OrderInv, CountedInv, OnePlace
<1> DEFINE o == OrderDomain(f)
<1>6. \A d : FramesOf(d, lanes[lane]) = IF o = d THEN <<f>> \o FramesOf(d, rest)
                                                 ELSE FramesOf(d, rest)
  BY <1>3, <1>4, FramesOfTail
<1>7. o \in OrderDomains /\ o[1] = lane
  BY <1>5, DomainOfFrame
<1>8. lanes'[lane] = rest /\ \A l \in LaneIds \ {lane} : lanes'[l] = lanes[l]
  BY <1>0, <1>3, <1>4
<1> HIDE DEF o, index
<1>9. ASSUME NEW d \in OrderDomains \ {o} PROVE PendingOf(d)' = PendingOf(d)
  <2>1. d[1] \in LaneIds
    BY PendingTypes
  <2>2. FramesOf(d, lanes'[d[1]]) = FramesOf(d, lanes[d[1]])
    BY <1>6, <1>8, <2>1
  <2> QED BY <1>3, <2>2 DEF PendingOf
<1>10. FramesOf(o, rest) \in Seq(Frames)
  BY <1>4, FramesOfTyped
<1>11. PendingOf(o) = <<>> \o (<<f>> \o FramesOf(o, rest)) /\ PendingOf(o)' = <<>> \o FramesOf(o, rest)
  BY <1>3, <1>6, <1>7, <1>8, FramesOfNothing DEF PendingOf
<1>12. PendingOf(o) = <<f>> \o FramesOf(o, rest) /\ PendingOf(o)' = FramesOf(o, rest)
  <2>1. <<f>> \o FramesOf(o, rest) \in Seq(Frames)
    BY <1>10
  <2> QED BY <1>10, <1>11, <2>1, ConcatEmptySeq
<1>13. PendingOf(o) # <<>> /\ Head(PendingOf(o)) = f /\ Tail(PendingOf(o)) = FramesOf(o, rest)
  BY <1>10, <1>12, FirstApart
<1>14. Takes(f)
  BY <1>3, <1>4, <1>9, <1>12, <1>13 DEF Takes, o
<1> QED BY <1>14

LEMMA AcceptIsFifo ==
    ASSUME OrderInv, NEW f \in Frames, EnqueueLocked(f), writer' = writer
    PROVE  Fifo!FifoNext
<1> DEFINE o == OrderDomain(f)
<1>1. Accepts(f)
  BY BypassAccepts, LaneAccepts
<1>2. o \in OrderDomains
  BY DomainOfFrame
<1>3. PendingFrames' = [PendingFrames EXCEPT ![o] = Append(@, f)]
  <2> HIDE DEF o
  <2>1. \A d \in OrderDomains : PendingOf(d)' = IF d = o THEN Append(PendingOf(d), f) ELSE PendingOf(d)
    BY <1>1 DEF Accepts, o
  <2> QED BY <1>2, <2>1 DEF PendingFrames
<1>4. PendingFrames' # PendingFrames
  <2>1. PendingOf(o) \in Seq(Frames)
    BY <1>2, PendingTypes, ConcatProperties DEF PendingOf
  <2>2. Append(PendingOf(o), f) # PendingOf(o)
    BY <2>1, AppendProperties
  <2>3. PendingFrames'[o] # PendingFrames[o]
    <3> HIDE DEF o
    <3> QED BY <1>2, <1>3, <2>2 DEF PendingFrames
  <2> QED BY <2>3
<1>5. Fifo!Accept(f)
  BY <1>3 DEF Fifo!Accept, PendingFrames
<1> QED BY <1>4, <1>5 DEF Fifo!FifoNext, PendingFrames

LEMMA TakeIsFifo ==
    ASSUME OrderInv, TakeControl \/ TakeFromLane PROVE Fifo!FifoNext
<1>1. PICK f \in Frames : Takes(f)
  BY ControlTakes, LaneTakes
<1> DEFINE o == OrderDomain(f)
<1>2. o \in OrderDomains
  BY DomainOfFrame
<1> HIDE DEF o
<1>3. PendingFrames' = [PendingFrames EXCEPT ![o] = Tail(@)]
  <2>1. \A d \in OrderDomains : PendingOf(d)' = IF d = o THEN Tail(PendingOf(d)) ELSE PendingOf(d)
    BY <1>1 DEF Takes, o
  <2> QED BY <1>2, <2>1 DEF PendingFrames
<1>4. PendingFrames[o] = PendingOf(o) /\ PendingOf(o) # <<>> /\ writer'.frame = Head(PendingOf(o))
  BY <1>1, <1>2 DEF PendingFrames, Takes, o
<1>5. PendingFrames' # PendingFrames
  <2>1. PendingOf(o) \in Seq(Frames)
    BY <1>2, PendingTypes, ConcatProperties DEF PendingOf
  <2>2. Tail(PendingOf(o)) # PendingOf(o)
    <3>1. Len(Tail(PendingOf(o))) = Len(PendingOf(o)) - 1 /\ Len(PendingOf(o)) \in Nat
      BY <1>4, <2>1, HeadTailProperties, LenProperties
    <3> QED BY <3>1
  <2>3. PendingFrames'[o] = Tail(PendingOf(o))
    BY <1>2, <1>3, <1>4 DEF PendingFrames
  <2> QED BY <1>4, <2>2, <2>3
<1>6. Fifo!Take(o)
  BY <1>3, <1>4 DEF Fifo!Take, PendingFrames
<1> QED BY <1>2, <1>5, <1>6 DEF Fifo!FifoNext, PendingFrames

LEMMA CloseIsFifo ==
    ASSUME OrderInv, CloseQueue PROVE [Fifo!FifoNext]_Fifo!fifoVars
<1>1. PendingFrames' = [d \in OrderDomains |-> <<>>]
  <2>1. ASSUME NEW d \in OrderDomains PROVE PendingOf(d)' = <<>>
    <3>1. d[1] \in LaneIds
      BY PendingTypes
    <3>2. control' = <<>> /\ lanes'[d[1]] = <<>>
      BY <3>1 DEF CloseQueue
    <3>3. <<>> \o <<>> = <<>>
      OBVIOUS
    <3> QED BY <3>2, <3>3, FramesOfNothing DEF PendingOf
  <2> QED BY <2>1 DEF PendingFrames
<1>2. writer'.frame = writer.frame
  BY DEF CloseQueue
<1>3. CASE PendingFrames' = PendingFrames
  BY <1>2, <1>3 DEF Fifo!fifoVars, PendingFrames
<1>4. CASE PendingFrames' # PendingFrames
  BY <1>1, <1>2, <1>4 DEF Fifo!FifoNext, Fifo!Discard, PendingFrames
<1> QED BY <1>3, <1>4

LEMMA QuietIsFifo ==
    ASSUME control' = control, lanes' = lanes, writer'.frame = writer.frame
    PROVE  UNCHANGED Fifo!fifoVars
<1>1. \A d \in OrderDomains : PendingOf(d)' = PendingOf(d)
  BY DEF PendingOf
<1> QED BY <1>1 DEF Fifo!fifoVars

LEMMA TurnIsFifo ==
    ASSUME OrderInv, NEW s, NEW f \in Frames, EnqueueTurn(s, f), writer' = writer
    PROVE  [Fifo!FifoNext]_Fifo!fifoVars
<1>1. CASE EnqueueLocked(f)
  BY <1>1, AcceptIsFifo
<1>2. CASE UNCHANGED schedQueue
  BY <1>2, QuietIsFifo DEF schedQueue
<1> QED BY <1>1, <1>2 DEF EnqueueTurn

LEMMA StepIsFifo ==
    ASSUME OrderInv, [SchedNext]_schedVars PROVE [Fifo!FifoNext]_Fifo!fifoVars
<1>1. ASSUME NEW s \in Senders, ForwardFrame(s) PROVE [Fifo!FifoNext]_Fifo!fifoVars
  <2>1. PICK kind \in Traffic, size \in FrameSizes :
          EnqueueTurn(s, [from |-> s, n |-> arrived', stream |-> kind[1],
                          control |-> kind[2], size |-> size])
    BY <1>1 DEF ForwardFrame
  <2>2. kind[1] \in LaneIds /\ kind[2] \in BOOLEAN
    BY SchedulerAssumption DEF LaneIds
  <2>3. arrived' \in 0..MaxFrames
    BY <1>1, SchedulerAssumption DEF ForwardFrame, OrderInv, SchedInv, SenderTypes
  <2>4. PICK f \in Frames : EnqueueTurn(s, f)
    <3>1. [from |-> s, n |-> arrived', stream |-> kind[1],
           control |-> kind[2], size |-> size] \in Frames
      BY <2>2, <2>3 DEF Frames
    <3> QED BY <2>1, <3>1
  <2>5. writer' = writer
    BY <1>1 DEF ForwardFrame
  <2> QED BY <2>4, <2>5, TurnIsFifo
<1>2. ASSUME NEW s \in Senders, RetryEnqueue(s) PROVE [Fifo!FifoNext]_Fifo!fifoVars
  <2>1. sender[s].frame \in Frames /\ EnqueueTurn(s, sender[s].frame) /\ writer' = writer
    BY <1>2 DEF RetryEnqueue, OrderInv, SchedInv, SenderTypes
  <2>2. PICK f \in Frames : EnqueueTurn(s, f)
    BY <2>1
  <2> QED BY <2>1, <2>2, TurnIsFifo
<1>3. CASE WriterNext
  <2>1. CASE TakeControl \/ TakeFromLane
    BY <2>1, TakeIsFifo
  <2>2. CASE NothingToTake
    <3>1. writer'.frame = writer.frame
      BY <2>2 DEF NothingToTake, OrderInv, SchedInv, QueueTypes
    <3> QED BY <2>2, <3>1, QuietIsFifo DEF NothingToTake, schedQueue
  <2> QED BY <1>3, <2>1, <2>2 DEF WriterNext
<1>4. CASE CloseQueue
  BY <1>4, CloseIsFifo
<1>5. CASE WriterWakes \/ WriterSignals \/ WriteSucceeds \/ WriteFails \/ WriterCancelled
  <2>1. PICK pc : writer' = [writer EXCEPT !.pc = pc]
    BY <1>5 DEF WriterWakes, WriterSignals, WriteSucceeds, WriteFails, WriterCancelled
  <2>2. writer'.frame = writer.frame
    BY <2>1 DEF OrderInv, SchedInv, SenderTypes
  <2>3. UNCHANGED schedQueue
    BY <1>5 DEF WriterWakes, WriterSignals, WriteSucceeds, WriteFails, WriterCancelled
  <2> QED BY <2>2, <2>3, QuietIsFifo DEF schedQueue
<1>6. CASE (\E s \in Senders : WakeForSpace(s) \/ EnqueueFails(s))
           \/ CloseSocket \/ CloseDone \/ UNCHANGED schedVars
  <2>1. writer' = writer /\ UNCHANGED schedQueue
    BY <1>6 DEF WakeForSpace, EnqueueFails, CloseSocket, CloseDone, schedVars, schedQueue
  <2> QED BY <2>1, QuietIsFifo DEF schedQueue
<1> QED BY <1>1, <1>2, <1>3, <1>4, <1>5, <1>6 DEF SchedNext

(* The frames of one stream leave the queue in the order in which they     *)
(* were accepted, whatever their priority: the scheduler implements        *)
(* StreamFifo (relay/scheduler.go:93-97, 174-194).                         *)
THEOREM StreamsStayOrderedAlways == SchedSpec => StreamsStayOrdered
<1>1. SchedSpec => []OrderInv
  BY InitOrderInv, NextOrderInv, PTL DEF SchedSpec
<1>2. OrderInv /\ [SchedNext]_schedVars => [Fifo!FifoNext]_Fifo!fifoVars
  BY StepIsFifo
<1> QED BY <1>1, <1>2, InitIsFifo, PTL DEF SchedSpec, StreamsStayOrdered, Fifo!FifoSpec
=============================================================================
