------------------------------ MODULE NodesPage ------------------------------
(***************************************************************************)
(* The Nodes page of the web application (src/web/src/app/bootstrap.ts,    *)
(* features/nodes): list, revoke, and enrollment tokens.                   *)
(*                                                                         *)
(* Requests overlap, fail, and are answered in any order; nodes enroll at  *)
(* the Hub meanwhile.  The page does not poll.                             *)
(***************************************************************************)
EXTENDS Naturals, FiniteSets

CONSTANTS
  Nodes,         \* nodes that exist or may enroll
  MaxNodeCalls,  \* bound: requests the user makes
  NoNode

ASSUME NodesAssumption ==
  MaxNodeCalls \in Nat \ {0} /\ NoNode \notin Nodes /\ IsFiniteSet(Nodes)

VARIABLES
  nodesHub,    \* external: the Hub's nodes and their status
  tokens,      \* external: enrollment tokens issued
  nodes,       \* state.nodes.items
  count,       \* the number above the list
  nodeList,    \* what the list element shows
  nodeBusy,    \* nodes whose button, in the present rendering, a click disabled
  panel,       \* the token shown, 0 while the panel is hidden
  nodeCalls,   \* requests on their way, there or back
  nodesMade,   \* how many the user made
  due,         \* history: nodes the user was told are revoked, not shown since
  nodesAstray  \* history: calls overlapped or failed, or the Hub's nodes changed,
               \* since the last clean load

nodesPage == <<nodes, count, nodeList, nodeBusy, panel>>
nodesVars == <<nodesHub, tokens, nodesPage, nodeCalls, nodesMade, due, nodesAstray>>

Status == {"absent", "active", "revoked"}

NodeCall ==
  [n : 1 .. 2 * MaxNodeCalls, kind : {"list", "revoke", "enroll"}, id : Nodes \cup {NoNode},
   rendering : BOOLEAN, state : {"sent", "ok", "failed"}, answer : [Nodes -> Status],
   token : Nat]

Size(status) == Cardinality({n \in Nodes : status[n] # "absent"})

Request(n, kind, id) ==
  [n |-> n, kind |-> kind, id |-> id, rendering |-> TRUE, state |-> "sent",
   answer |-> [m \in Nodes |-> "absent"], token |-> 0]

\* A request numbered beyond those under way; what overlaps is history.
Unused(k) == \A c \in nodeCalls : c.n # k

SendsCall(pending, kind, id) ==
  LET n == CHOOSE k \in 1 .. 2 * MaxNodeCalls : Unused(k)
  IN  /\ nodeCalls' = pending \cup {Request(n, kind, id)}
      /\ nodesAstray' = IF pending # {} THEN TRUE ELSE IF kind = "list" THEN FALSE ELSE nodesAstray

\* The list element is written anew: buttons of the old one are gone, and
\* requests made with them no longer find theirs.
Redrawn(pending) == {[c EXCEPT !.rendering = FALSE] : c \in pending}

RenderNodes(status, shown) == nodes' = status /\ nodeList' = shown /\ nodeBusy' = {}

NodesInit ==
  /\ nodesHub \in [Nodes -> Status] /\ tokens = 0
  /\ nodes = [n \in Nodes |-> "absent"] /\ count = 0 /\ nodeList = "loading" /\ nodeBusy = {}
  /\ panel = 0
  /\ nodeCalls = {Request(1, "list", NoNode)} /\ nodesMade = 1 /\ due = {} /\ nodesAstray = FALSE
-----------------------------------------------------------------------------
(* The user. *)

UserCalls == nodesMade < MaxNodeCalls /\ nodesMade' = nodesMade + 1

\* Refresh, or opening the page again.
LoadNodes ==
  /\ UserCalls
  /\ SendsCall(Redrawn(nodeCalls), "list", NoNode)
  /\ RenderNodes(nodes, "loading")
  /\ UNCHANGED <<nodesHub, tokens, count, panel, due>>

\* Revoke is offered for nodes shown as not revoked, and confirmed.
Revoke(n) ==
  /\ nodeList = "nodes" /\ nodes[n] = "active" /\ n \notin nodeBusy
  /\ UserCalls
  /\ SendsCall(nodeCalls, "revoke", n)
  /\ nodeBusy' = nodeBusy \cup {n}
  /\ UNCHANGED <<nodesHub, tokens, nodes, count, nodeList, panel, due>>

CreateEnrollment ==
  /\ UserCalls
  /\ SendsCall(nodeCalls, "enroll", NoNode)
  /\ UNCHANGED <<nodesHub, tokens, nodesPage, due>>
-----------------------------------------------------------------------------
(* External: the Hub's /api/nodes, and Agents that enroll. *)

Enroll(n) ==
  /\ nodesHub[n] = "absent" /\ nodesHub' = [nodesHub EXCEPT ![n] = "active"] /\ nodesAstray' = TRUE
  /\ UNCHANGED <<tokens, nodesPage, nodeCalls, nodesMade, due>>

NodeServed(c) ==
  /\ c.state = "sent"
  /\ nodesHub' = IF c.kind = "revoke" THEN [nodesHub EXCEPT ![c.id] = "revoked"] ELSE nodesHub
  /\ tokens' = IF c.kind = "enroll" THEN tokens + 1 ELSE tokens
  /\ \E ok \in BOOLEAN :
       nodeCalls' = (nodeCalls \ {c}) \cup {[c EXCEPT !.state = IF ok THEN "ok" ELSE "failed",
                                              !.answer = IF ok THEN nodesHub' ELSE c.answer,
                                              !.token = tokens']}
  /\ UNCHANGED <<nodesPage, nodesMade, due, nodesAstray>>

NodeRefused(c) ==
  /\ c.state = "sent"
  /\ nodeCalls' = (nodeCalls \ {c}) \cup {[c EXCEPT !.state = "failed"]}
  /\ UNCHANGED <<nodesHub, tokens, nodesPage, nodesMade, due, nodesAstray>>
-----------------------------------------------------------------------------
(* The answers, in any order. *)

\* Slip: the number above the list is not updated.
NodesArriveUncounted(c) ==
  /\ c.kind = "list" /\ c.state = "ok"
  /\ RenderNodes(c.answer, "nodes") /\ count' = count
  /\ nodeCalls' = Redrawn(nodeCalls \ {c})
  /\ due' = {n \in due : c.answer[n] # "revoked"}
  /\ UNCHANGED <<nodesHub, tokens, panel, nodesMade, nodesAstray>>

NodesArrive(c) ==
  /\ c.kind = "list" /\ c.state = "ok"
  /\ RenderNodes(c.answer, "nodes") /\ count' = Size(c.answer)
  /\ nodeCalls' = Redrawn(nodeCalls \ {c})
  /\ due' = {n \in due : c.answer[n] # "revoked"}
  /\ UNCHANGED <<nodesHub, tokens, panel, nodesMade, nodesAstray>>

\* The error takes the place of the list; the number above it stays.
NodesFail(c) ==
  /\ c.kind = "list" /\ c.state = "failed"
  /\ RenderNodes(nodes, "error") /\ nodesAstray' = TRUE
  /\ nodeCalls' = Redrawn(nodeCalls \ {c}) /\ due' = {}
  /\ UNCHANGED <<nodesHub, tokens, count, panel, nodesMade>>

\* Slip: the list is not loaded again.
RevokeSucceedsQuietly(c) ==
  /\ c.kind = "revoke" /\ c.state = "ok"
  /\ nodeCalls' = nodeCalls \ {c} /\ nodesAstray' = nodesAstray
  /\ nodeBusy' = nodeBusy \ {c.id} /\ due' = due \cup {c.id}
  /\ UNCHANGED <<nodesHub, tokens, nodes, count, nodeList, panel, nodesMade>>

\* The user is told, and the list is loaded again.
RevokeSucceeds(c) ==
  /\ c.kind = "revoke" /\ c.state = "ok"
  /\ SendsCall(Redrawn(nodeCalls \ {c}), "list", NoNode)
  /\ RenderNodes(nodes, "loading") /\ due' = due \cup {c.id}
  /\ UNCHANGED <<nodesHub, tokens, count, panel, nodesMade>>

\* Slip: the button stays disabled.
RevokeFailsBusy(c) ==
  /\ c.kind = "revoke" /\ c.state = "failed"
  /\ nodeCalls' = nodeCalls \ {c} /\ nodeBusy' = nodeBusy /\ nodesAstray' = TRUE
  /\ UNCHANGED <<nodesHub, tokens, nodes, count, nodeList, panel, nodesMade, due>>

\* The button that was clicked is enabled again, if it is still there.
RevokeFails(c) ==
  /\ c.kind = "revoke" /\ c.state = "failed"
  /\ nodeCalls' = nodeCalls \ {c} /\ nodeBusy' = IF c.rendering THEN nodeBusy \ {c.id} ELSE nodeBusy
  /\ nodesAstray' = TRUE
  /\ UNCHANGED <<nodesHub, tokens, nodes, count, nodeList, panel, nodesMade, due>>

EnrollmentArrives(c) ==
  /\ c.kind = "enroll" /\ c.state # "sent"
  /\ nodeCalls' = nodeCalls \ {c}
  /\ panel' = IF c.state = "ok" THEN c.token ELSE panel
  /\ UNCHANGED <<nodesHub, tokens, nodes, count, nodeList, nodeBusy, nodesMade, due, nodesAstray>>

ServeNodes(c) == NodeServed(c) \/ NodeRefused(c)

NodesArrival(c) ==
  \/ NodesArrive(c) \/ NodesFail(c)
  \/ RevokeSucceeds(c) \/ RevokeFails(c)
  \/ EnrollmentArrives(c)

NodesNext ==
  \/ LoadNodes
  \/ CreateEnrollment
  \/ \E n \in Nodes : Revoke(n) \/ Enroll(n)
  \/ \E c \in nodeCalls : ServeNodes(c) \/ NodesArrival(c)

NodesSpec == NodesInit /\ [][NodesNext]_nodesVars

\* Requests end, with an answer or a failure.
NodesFairSpec ==
  /\ NodesSpec
  /\ WF_nodesVars(\E c \in nodeCalls : ServeNodes(c))
  /\ WF_nodesVars(\E c \in nodeCalls : NodesArrival(c))
-----------------------------------------------------------------------------
(* Type invariant. *)
NodesTypeOK ==
  /\ nodesHub \in [Nodes -> Status] /\ nodes \in [Nodes -> Status]
  /\ nodeList \in {"loading", "error", "nodes"} /\ count \in 0 .. Cardinality(Nodes)
  /\ nodeBusy \subseteq {n \in Nodes : nodes[n] = "active"} /\ (nodeList # "nodes" => nodeBusy = {})
  /\ nodeCalls \subseteq NodeCall /\ tokens \in Nat /\ panel \in 0 .. tokens
  /\ nodesMade \in 0 .. MaxNodeCalls /\ due \subseteq Nodes /\ nodesAstray \in BOOLEAN

\* A disabled button belongs to a request that will enable or replace it:
\* no other answer, in any order, leaves a node that cannot be revoked.
DisabledWhileRevoking ==
  \A n \in nodeBusy : \E c \in nodeCalls : c.kind = "revoke" /\ c.id = n /\ c.rendering

\* Used one request at a time, the page is in step with the Hub.
NodesMatchHub == nodeCalls = {} /\ ~nodesAstray => nodes = nodesHub /\ count = Size(nodesHub)

\* Used one request at a time, however many, the page stays in step with the Hub:
\* each handler puts its answer where a full load would.  No answer, in any
\* order, leaves a node that cannot be revoked.
NodesInStep == NodesTypeOK /\ DisabledWhileRevoking /\ NodesMatchHub

\* A node the user was told is revoked is then shown as revoked, unless the
\* list cannot be loaded; and a list being loaded comes.
RevokedIsShown ==
  /\ \A n \in Nodes : n \in due ~> n \notin due
  /\ nodeList = "loading" ~> nodeList # "loading"
=============================================================================
