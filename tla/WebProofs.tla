------------------------------ MODULE WebProofs ------------------------------
(***************************************************************************)
(* What the parts of the web application promise, for every number of      *)
(* nodes, requests, bars, callbacks and lexemes: the nodes page, the       *)
(* overlays, the timeline and the query editor.  With PageProofs, which    *)
(* holds the proofs about the pages' lists, they make the promises that    *)
(* WebApp states of several parts.                                         *)
(*                                                                         *)
(* Nothing bounds what is under way but the bounds of the modules, so each *)
(* argument is about what any request or callback still to come may carry: *)
(* an answer, a form, or a picture of the page that was.                   *)
(***************************************************************************)
EXTENDS WebApp, PageProofs
-----------------------------------------------------------------------------
(* The nodes page is in step with the Hub. *)

\* The user's requests are counted, and a reload takes the place of what it
\* follows: no more are under way than were made.
FewCalls == IsFiniteSet(nodeCalls) /\ Cardinality(nodeCalls) <= nodesMade

\* Tokens that are on their way were issued; who revokes, revokes a node.
CallsFit == \A c \in nodeCalls : c.token <= tokens /\ (c.kind = "revoke" => c.id \in Nodes)

NodesShown == nodes = nodesHub /\ count = Size(nodesHub)

\* Unless calls have overlapped or failed: one call is under way at most, a list
\* that was served is the Hub's, and but for lists and revocations the page
\* shows what the Hub has.
InTurn ==
  ~nodesAstray =>
    /\ \A c, d \in nodeCalls : c = d
    /\ \A c \in nodeCalls : c.kind = "list" /\ c.state = "ok" => c.answer = nodesHub
    /\ (\A c \in nodeCalls : c.kind = "enroll") => NodesShown

NodesInv == NodesTypeOK /\ DisabledWhileRevoking /\ FewCalls /\ CallsFit /\ InTurn

LEMMA SizeBound ==
  ASSUME NEW status PROVE Size(status) \in 0 .. Cardinality(Nodes)
<1> DEFINE S == {n \in Nodes : status[n] # "absent"}
<1>1. IsFiniteSet(Nodes) /\ S \in SUBSET Nodes
  BY NodesAssumption
<1> HIDE DEF S
<1>2. IsFiniteSet(S) /\ Cardinality(S) <= Cardinality(Nodes)
  BY <1>1, FS_Subset
<1>3. Cardinality(S) \in Nat /\ Cardinality(Nodes) \in Nat
  BY <1>1, <1>2, FS_CardinalityType
<1>4. Cardinality(S) \in 0 .. Cardinality(Nodes)
  BY <1>2, <1>3
<1> QED BY <1>4 DEF Size, S

\* A request finds a number: fewer are under way than there are numbers.
LEMMA UnusedThere ==
  ASSUME NodesInv, Cardinality(nodeCalls) < 2 * MaxNodeCalls
  PROVE  \E k \in 1 .. 2 * MaxNodeCalls : Unused(k)
<1> SUFFICES ASSUME \A k \in 1 .. 2 * MaxNodeCalls : ~Unused(k) PROVE FALSE
  OBVIOUS
<1> DEFINE K == 1 .. 2 * MaxNodeCalls
           f == [k \in K |-> CHOOSE c \in nodeCalls : c.n = k]
<1>1. \A k \in K : f[k] \in nodeCalls /\ f[k].n = k
  BY DEF Unused
<1>2. f \in [K -> nodeCalls] /\ \A k, l \in K : k # l => f[k] # f[l]
  BY <1>1
<1>3. 2 * MaxNodeCalls \in Nat \ {0} /\ 1 \in Int /\ 2 * MaxNodeCalls \in Int
  BY NodesAssumption
<1>4. IsFiniteSet(K) /\ Cardinality(K) = 2 * MaxNodeCalls
  <2>1. /\ IsFiniteSet(K)
        /\ Cardinality(K) = IF 1 > 2 * MaxNodeCalls THEN 0 ELSE 2 * MaxNodeCalls - 1 + 1
    BY ONLY <1>3, FS_Interval
  <2> QED BY <1>3, <2>1
<1> HIDE DEF K, f
<1>5. \E k, l \in K : k # l /\ f[k] = f[l]
  BY <1>2, <1>4, FS_PigeonHole DEF NodesInv, FewCalls
<1> QED BY <1>2, <1>5

LEMMA RedrawnFew ==
  ASSUME NEW pending, IsFiniteSet(pending)
  PROVE  IsFiniteSet(Redrawn(pending)) /\ Cardinality(Redrawn(pending)) <= Cardinality(pending)
<1> DEFINE f == [c \in pending |-> [c EXCEPT !.rendering = FALSE]]
<1>1. f \in Surjection(pending, Redrawn(pending))
  BY DEF Surjection, Redrawn
<1> HIDE DEF f
<1> QED BY <1>1, FS_Surjection

LEMMA NodesInitInv == NodesInit => NodesInv
<1> SUFFICES ASSUME NodesInit PROVE NodesInv
  OBVIOUS
<1>1. MaxNodeCalls \in Nat \ {0} /\ NoNode \notin Nodes
  BY NodesAssumption
<1>2. Request(1, "list", NoNode) \in NodeCall
  BY <1>1 DEF Request, NodeCall, Status
<1>3. NodesTypeOK
  <2>1. Cardinality(Nodes) \in Nat
    BY NodesAssumption, FS_CardinalityType
  <2>2. /\ nodesHub \in [Nodes -> Status] /\ nodes \in [Nodes -> Status]
        /\ nodeBusy = {} /\ nodeCalls \subseteq NodeCall /\ due \subseteq Nodes
    BY <1>2 DEF NodesInit, Status
  <2>3. count \in 0 .. Cardinality(Nodes) /\ nodesMade \in 0 .. MaxNodeCalls
    BY <1>1, <2>1 DEF NodesInit
  <2>4. panel \in 0 .. tokens /\ tokens \in Nat /\ nodeList = "loading"
    BY DEF NodesInit
  <2>5. nodesAstray \in BOOLEAN
    BY DEF NodesInit
  <2> QED BY <2>2, <2>3, <2>4, <2>5 DEF NodesTypeOK
<1>4. FewCalls
  <2>1. nodeCalls = {Request(1, "list", NoNode)} /\ nodesMade = 1
    BY DEF NodesInit
  <2> QED BY <2>1, FS_Singleton DEF FewCalls
<1>5. DisabledWhileRevoking /\ CallsFit /\ InTurn
  BY DEF NodesInit, DisabledWhileRevoking, CallsFit, InTurn, Request
<1> QED BY <1>3, <1>4, <1>5 DEF NodesInv

\* A request that is sent, beside what is pending; pending is what was under
\* way, drawn anew or not, less what was answered.
LEMMA SendKeeps ==
  ASSUME NodesInv, NEW pending \in SUBSET NodeCall, NEW kind \in {"list", "revoke", "enroll"},
         NEW id \in Nodes \cup {NoNode}, SendsCall(pending, kind, id),
         kind = "revoke" => id \in Nodes, UNCHANGED <<nodesHub, tokens>>,
         Cardinality(nodeCalls) < 2 * MaxNodeCalls,
         IsFiniteSet(pending), Cardinality(pending) < nodesMade', nodesMade' \in 0 .. MaxNodeCalls,
         \A c \in pending : \E d \in nodeCalls : c.token = d.token /\ c.kind = d.kind /\ c.id = d.id,
         kind # "list" => pending = nodeCalls /\ UNCHANGED <<nodes, count>>
  PROVE  /\ nodeCalls' \subseteq NodeCall /\ FewCalls' /\ CallsFit' /\ InTurn'
         /\ nodesAstray' \in BOOLEAN
         /\ \E n \in 1 .. 2 * MaxNodeCalls : nodeCalls' = pending \cup {Request(n, kind, id)}
<1> DEFINE n == CHOOSE k \in 1 .. 2 * MaxNodeCalls : Unused(k)
           r == Request(n, kind, id)
<1>1. n \in 1 .. 2 * MaxNodeCalls
  BY UnusedThere
<1>2. /\ nodeCalls' = pending \cup {r}
      /\ nodesAstray' = IF pending # {} THEN TRUE ELSE IF kind = "list" THEN FALSE ELSE nodesAstray
  BY DEF SendsCall
<1>3. /\ r \in NodeCall /\ r.kind = kind /\ r.id = id /\ r.state = "sent" /\ r.token = 0
  BY <1>1 DEF Request, NodeCall, Status
<1> HIDE DEF n, r
<1>4. nodeCalls' \subseteq NodeCall /\ nodesAstray' \in BOOLEAN
  BY <1>2, <1>3 DEF NodesInv, NodesTypeOK
<1>5. FewCalls'
  <2>1. IsFiniteSet(pending \cup {r}) /\ Cardinality(pending \cup {r}) <= Cardinality(pending) + 1
    <3>1. Cardinality(pending) \in Nat
      BY FS_CardinalityType
    <3>2. /\ IsFiniteSet(pending \cup {r})
          /\ Cardinality(pending \cup {r}) =
               IF r \in pending THEN Cardinality(pending) ELSE Cardinality(pending) + 1
      BY FS_AddElement
    <3> QED BY <3>1, <3>2
  <2>2. Cardinality(pending) \in Nat /\ Cardinality(pending \cup {r}) \in Nat
    BY <2>1, FS_CardinalityType
  <2> QED BY <1>2, <2>1, <2>2 DEF FewCalls
<1>6. CallsFit'
  BY <1>2, <1>3 DEF CallsFit, NodesInv, NodesTypeOK
<1>7. InTurn'
  <2> SUFFICES ASSUME ~nodesAstray' PROVE InTurn'
    BY DEF InTurn
  <2>1. pending = {} /\ nodeCalls' = {r}
    BY <1>2
  <2>2. CASE kind = "list"
    BY <1>3, <2>1, <2>2 DEF InTurn
  <2>3. CASE kind # "list"
    <3>1. ~nodesAstray /\ nodeCalls = {}
      BY <1>2, <2>1, <2>3
    <3>2. NodesShown /\ NodesShown' = NodesShown
      BY <2>3, <3>1 DEF NodesInv, InTurn, NodesShown, Size
    <3> QED BY <1>3, <2>1, <2>3, <3>2 DEF InTurn
  <2> QED BY <2>2, <2>3
<1> QED BY <1>1, <1>2, <1>4, <1>5, <1>6, <1>7 DEF r

\* What was under way, drawn anew, is of the same requests.
LEMMA RedrawnAre ==
  ASSUME NEW pending \in SUBSET NodeCall
  PROVE  /\ Redrawn(pending) \subseteq NodeCall
         /\ \A c \in Redrawn(pending) : \E d \in pending :
              /\ c.token = d.token /\ c.kind = d.kind /\ c.id = d.id /\ c.state = d.state
              /\ c.answer = d.answer
BY DEF Redrawn, NodeCall

\* An answer that is taken off, with the list drawn anew or not.
LEMMA FewerCalls ==
  ASSUME NodesInv, NEW c \in nodeCalls,
         nodeCalls' = nodeCalls \ {c} \/ nodeCalls' = Redrawn(nodeCalls \ {c}),
         UNCHANGED <<tokens, nodesMade>>
  PROVE  nodeCalls' \subseteq NodeCall /\ FewCalls' /\ CallsFit'
<1>1. /\ IsFiniteSet(nodeCalls \ {c}) /\ Cardinality(nodeCalls \ {c}) <= nodesMade
      /\ nodeCalls \ {c} \in SUBSET NodeCall
  <2>1. IsFiniteSet(nodeCalls) /\ Cardinality(nodeCalls) <= nodesMade /\ nodesMade \in Nat
        /\ nodeCalls \subseteq NodeCall
    BY NodesAssumption DEF NodesInv, FewCalls, NodesTypeOK
  <2>2. /\ IsFiniteSet(nodeCalls \ {c}) /\ Cardinality(nodeCalls) \in Nat
        /\ Cardinality(nodeCalls \ {c}) = Cardinality(nodeCalls) - 1
    BY <2>1, FS_RemoveElement, FS_CardinalityType
  <2> QED BY <2>1, <2>2
<1>2. nodesMade \in Nat
  BY NodesAssumption DEF NodesInv, NodesTypeOK
<1>3. CASE nodeCalls' = nodeCalls \ {c}
  BY <1>1, <1>3 DEF NodesInv, FewCalls, CallsFit
<1>4. CASE nodeCalls' = Redrawn(nodeCalls \ {c})
  <2>1. IsFiniteSet(nodeCalls') /\ Cardinality(nodeCalls') <= Cardinality(nodeCalls \ {c})
    BY <1>1, <1>4, RedrawnFew
  <2>2. Cardinality(nodeCalls') \in Nat /\ Cardinality(nodeCalls \ {c}) \in Nat
    BY <1>1, <2>1, FS_CardinalityType
  <2>3. FewCalls'
    BY <1>1, <1>2, <2>1, <2>2 DEF FewCalls
  <2>4. nodeCalls' \subseteq NodeCall /\ CallsFit'
    BY <1>1, <1>4, RedrawnAre DEF NodesInv, CallsFit
  <2> QED BY <2>3, <2>4
<1> QED BY <1>3, <1>4

\* A call that the Hub has come to, d after c.
LEMMA ServedCalls ==
  ASSUME NodesInv, NEW c \in nodeCalls, NEW d \in NodeCall,
         nodeCalls' = (nodeCalls \ {c}) \cup {d},
         d.kind = c.kind, d.id = c.id, d.rendering = c.rendering, d.token <= tokens',
         tokens <= tokens', tokens' \in Nat, UNCHANGED <<nodesPage, nodesMade, nodesAstray>>,
         ~nodesAstray /\ c.kind # "revoke" => nodesHub' = nodesHub,
         d.kind = "list" /\ d.state = "ok" => d.answer = nodesHub'
  PROVE  nodeCalls' \subseteq NodeCall /\ FewCalls' /\ CallsFit' /\ InTurn' /\ DisabledWhileRevoking'
<1>1. nodeCalls' \subseteq NodeCall
  BY DEF NodesInv, NodesTypeOK
<1>2. FewCalls'
  <2>1. IsFiniteSet(nodeCalls) /\ Cardinality(nodeCalls) <= nodesMade /\ nodesMade \in Nat
        /\ Cardinality(nodeCalls) \in Nat
    BY NodesAssumption, FS_CardinalityType DEF NodesInv, FewCalls, NodesTypeOK
  <2>2. /\ IsFiniteSet(nodeCalls \ {c})
        /\ Cardinality(nodeCalls \ {c}) = Cardinality(nodeCalls) - 1
    BY <2>1, FS_RemoveElement
  <2>3. Cardinality(nodeCalls \ {c}) \in Nat
    BY <2>2, FS_CardinalityType
  <2>4. /\ IsFiniteSet(nodeCalls')
        /\ Cardinality(nodeCalls') = IF d \in nodeCalls \ {c} THEN Cardinality(nodeCalls \ {c})
                                     ELSE Cardinality(nodeCalls \ {c}) + 1
    BY <2>2, FS_AddElement
  <2> QED BY <2>1, <2>2, <2>3, <2>4 DEF FewCalls
<1>3. CallsFit'
  <2>1. \A e \in nodeCalls : e.token \in Nat /\ tokens \in Nat /\ e.token <= tokens
                             /\ (e.kind = "revoke" => e.id \in Nodes)
    BY DEF NodesInv, CallsFit, NodesTypeOK, NodeCall
  <2> QED BY <2>1 DEF CallsFit
<1>4. InTurn'
  <2> SUFFICES ASSUME ~nodesAstray' PROVE InTurn'
    BY DEF InTurn
  <2>1. nodeCalls' = {d} /\ nodeCalls = {c} /\ ~nodesAstray
    BY DEF NodesInv, InTurn
  <2>2. ASSUME d.kind = "enroll" PROVE NodesShown'
    <3>1. NodesShown /\ nodesHub' = nodesHub
      BY <2>1, <2>2 DEF NodesInv, InTurn
    <3> QED BY <3>1 DEF NodesShown, nodesPage, Size
  <2> QED BY <2>1, <2>2 DEF InTurn
<1>5. DisabledWhileRevoking'
  BY DEF NodesInv, DisabledWhileRevoking, nodesPage
<1> QED BY <1>1, <1>2, <1>3, <1>4, <1>5

LEMMA ServeKeeps ==
  ASSUME NodesInv, NEW c \in nodeCalls, ServeNodes(c) PROVE NodesInv'
<1>1. /\ c \in NodeCall /\ tokens \in Nat /\ c.token \in Nat /\ c.token <= tokens
      /\ nodesHub \in [Nodes -> Status]
  BY DEF NodesInv, NodesTypeOK, CallsFit, NodeCall
<1>2. CASE NodeServed(c)
  <2>1. nodesHub' \in [Nodes -> Status] /\ (c.kind # "revoke" => nodesHub' = nodesHub)
    BY <1>1, <1>2 DEF NodeServed, Status
  <2>2. tokens' \in Nat /\ tokens <= tokens'
    BY <1>1, <1>2 DEF NodeServed
  <2>3. PICK ok \in BOOLEAN :
          nodeCalls' = (nodeCalls \ {c}) \cup {[c EXCEPT !.state = IF ok THEN "ok" ELSE "failed",
                                                 !.answer = IF ok THEN nodesHub' ELSE c.answer,
                                                 !.token = tokens']}
    BY <1>2 DEF NodeServed
  <2> DEFINE d == [c EXCEPT !.state = IF ok THEN "ok" ELSE "failed",
                            !.answer = IF ok THEN nodesHub' ELSE c.answer,
                            !.token = tokens']
  <2>4. /\ d \in NodeCall /\ d.kind = c.kind /\ d.id = c.id /\ d.rendering = c.rendering
        /\ d.token = tokens' /\ (d.state = "ok" => d.answer = nodesHub')
    BY <1>1, <2>1, <2>2 DEF NodeCall
  <2>5. nodeCalls' = (nodeCalls \ {c}) \cup {d} /\ UNCHANGED <<nodesPage, nodesMade, due, nodesAstray>>
    BY <1>2, <2>3 DEF NodeServed
  <2> HIDE DEF d
  <2>6. nodeCalls' \subseteq NodeCall /\ FewCalls' /\ CallsFit' /\ InTurn' /\ DisabledWhileRevoking'
    BY <2>1, <2>2, <2>4, <2>5, ServedCalls
  <2>7. panel' \in 0 .. tokens'
    BY <1>1, <2>2, <2>5 DEF NodesInv, NodesTypeOK, nodesPage
  <2> QED BY <2>1, <2>2, <2>5, <2>6, <2>7 DEF NodesInv, NodesTypeOK, nodesPage
<1>3. CASE NodeRefused(c)
  <2> DEFINE d == [c EXCEPT !.state = "failed"]
  <2>1. /\ d \in NodeCall /\ d.kind = c.kind /\ d.id = c.id /\ d.rendering = c.rendering
        /\ d.token = c.token /\ d.state # "ok"
    BY <1>1 DEF NodeCall
  <2>2. /\ nodeCalls' = (nodeCalls \ {c}) \cup {d}
        /\ UNCHANGED <<nodesHub, tokens, nodesPage, nodesMade, due, nodesAstray>>
    BY <1>3 DEF NodeRefused
  <2> HIDE DEF d
  <2>3. nodeCalls' \subseteq NodeCall /\ FewCalls' /\ CallsFit' /\ InTurn' /\ DisabledWhileRevoking'
    BY <1>1, <2>1, <2>2, ServedCalls
  <2> QED BY <2>2, <2>3 DEF NodesInv, NodesTypeOK, nodesPage
<1> QED BY <1>2, <1>3 DEF ServeNodes

LEMMA UserKeeps ==
  ASSUME NodesInv,
         LoadNodes \/ CreateEnrollment \/ (\E n \in Nodes : Revoke(n) \/ Enroll(n))
  PROVE  NodesInv'
<1>1. /\ IsFiniteSet(nodeCalls) /\ Cardinality(nodeCalls) <= nodesMade /\ nodesMade \in Nat
      /\ Cardinality(nodeCalls) \in Nat /\ nodeCalls \in SUBSET NodeCall
      /\ MaxNodeCalls \in Nat \ {0}
  BY NodesAssumption, FS_CardinalityType DEF NodesInv, FewCalls, NodesTypeOK
<1>2. CASE UserCalls /\ (LoadNodes \/ CreateEnrollment \/ \E n \in Nodes : Revoke(n))
  <2>1. /\ nodesMade' \in 0 .. MaxNodeCalls /\ Cardinality(nodeCalls) < nodesMade'
        /\ Cardinality(nodeCalls) < 2 * MaxNodeCalls
    BY <1>1, <1>2 DEF UserCalls
  <2>2. CASE LoadNodes
    <3>1. /\ Redrawn(nodeCalls) \in SUBSET NodeCall /\ IsFiniteSet(Redrawn(nodeCalls))
          /\ Cardinality(Redrawn(nodeCalls)) <= Cardinality(nodeCalls)
      BY <1>1, RedrawnAre, RedrawnFew
    <3>2. Cardinality(Redrawn(nodeCalls)) < nodesMade'
      <4>1. Cardinality(Redrawn(nodeCalls)) \in Nat
        BY <3>1, FS_CardinalityType
      <4> QED BY <1>1, <2>1, <3>1, <4>1
    <3>3. /\ SendsCall(Redrawn(nodeCalls), "list", NoNode) /\ RenderNodes(nodes, "loading")
          /\ UNCHANGED <<nodesHub, tokens, count, panel, due>>
      BY <2>2 DEF LoadNodes
    <3>4. nodeCalls' \subseteq NodeCall /\ FewCalls' /\ CallsFit' /\ InTurn' /\ nodesAstray' \in BOOLEAN
      BY <1>1, <2>1, <3>1, <3>2, <3>3, RedrawnAre, SendKeeps
    <3> QED BY <2>1, <3>3, <3>4 DEF NodesInv, NodesTypeOK, DisabledWhileRevoking, RenderNodes
  <2>3. CASE CreateEnrollment
    <3>1. /\ SendsCall(nodeCalls, "enroll", NoNode)
          /\ UNCHANGED <<nodesHub, tokens, nodesPage, due>>
      BY <2>3 DEF CreateEnrollment
    <3>2. /\ nodeCalls' \subseteq NodeCall /\ FewCalls' /\ CallsFit' /\ InTurn'
          /\ nodesAstray' \in BOOLEAN
          /\ \E k \in 1 .. 2 * MaxNodeCalls : nodeCalls' = nodeCalls \cup {Request(k, "enroll", NoNode)}
      BY <1>1, <2>1, <3>1, SendKeeps DEF nodesPage
    <3> QED BY <2>1, <3>1, <3>2 DEF NodesInv, NodesTypeOK, DisabledWhileRevoking, nodesPage
  <2>4. ASSUME NEW n \in Nodes, Revoke(n) PROVE NodesInv'
    <3>1. /\ SendsCall(nodeCalls, "revoke", n) /\ nodeBusy' = nodeBusy \cup {n}
          /\ nodeList = "nodes" /\ nodes[n] = "active"
          /\ UNCHANGED <<nodesHub, tokens, nodes, count, nodeList, panel, due>>
      BY <2>4 DEF Revoke
    <3>2. /\ nodeCalls' \subseteq NodeCall /\ FewCalls' /\ CallsFit' /\ InTurn'
          /\ nodesAstray' \in BOOLEAN
          /\ \E k \in 1 .. 2 * MaxNodeCalls : nodeCalls' = nodeCalls \cup {Request(k, "revoke", n)}
      BY <1>1, <2>1, <3>1, SendKeeps
    <3>3. DisabledWhileRevoking'
      <4> PICK k \in 1 .. 2 * MaxNodeCalls : nodeCalls' = nodeCalls \cup {Request(k, "revoke", n)}
        BY <3>2
      <4>1. /\ Request(k, "revoke", n).kind = "revoke" /\ Request(k, "revoke", n).id = n
            /\ Request(k, "revoke", n).rendering = TRUE
        BY DEF Request
      <4>2. ASSUME NEW m \in nodeBusy'
            PROVE  \E c \in nodeCalls' : c.kind = "revoke" /\ c.id = m /\ c.rendering
        BY <3>1, <4>1, <4>2 DEF NodesInv, DisabledWhileRevoking
      <4> QED BY <4>2 DEF DisabledWhileRevoking
    <3> QED BY <2>1, <3>1, <3>2, <3>3 DEF NodesInv, NodesTypeOK
  <2> QED BY <1>2, <2>2, <2>3, <2>4
<1>3. ASSUME NEW n \in Nodes, Enroll(n) PROVE NodesInv'
  <2>1. nodesHub' \in [Nodes -> Status]
    BY <1>3 DEF Enroll, NodesInv, NodesTypeOK, Status
  <2>2. nodesAstray' = TRUE /\ UNCHANGED <<tokens, nodesPage, nodeCalls, nodesMade, due>>
    BY <1>3 DEF Enroll
  <2>3. InTurn'
    BY <2>2 DEF InTurn
  <2> QED BY <2>1, <2>2, <2>3 DEF NodesInv, NodesTypeOK, DisabledWhileRevoking, FewCalls, CallsFit,
                                  nodesPage
<1> QED BY <1>2, <1>3 DEF LoadNodes, CreateEnrollment, Revoke

LEMMA ArrivalKeeps ==
  ASSUME NodesInv, NEW c \in nodeCalls, NodesArrival(c) PROVE NodesInv'
<1>1. /\ c \in NodeCall /\ c.token \in Nat /\ c.token <= tokens /\ tokens \in Nat
      /\ (c.kind = "revoke" => c.id \in Nodes) /\ c.answer \in [Nodes -> Status]
  BY DEF NodesInv, NodesTypeOK, CallsFit, NodeCall
<1>2. ~nodesAstray => nodeCalls \ {c} = {} /\ Redrawn(nodeCalls \ {c}) = {}
  BY DEF NodesInv, InTurn, Redrawn
<1>3. CASE NodesArrive(c)
  <2>1. nodeCalls' \subseteq NodeCall /\ FewCalls' /\ CallsFit'
    BY <1>3, FewerCalls DEF NodesArrive
  <2>2. Size(c.answer) \in 0 .. Cardinality(Nodes)
    BY SizeBound
  <2>3. /\ nodes' = c.answer /\ nodeList' = "nodes" /\ nodeBusy' = {} /\ count' = Size(c.answer)
        /\ nodeCalls' = Redrawn(nodeCalls \ {c}) /\ due' \subseteq due
        /\ c.kind = "list" /\ c.state = "ok"
        /\ UNCHANGED <<nodesHub, tokens, panel, nodesMade, nodesAstray>>
    BY <1>3 DEF NodesArrive, RenderNodes
  <2>4. InTurn'
    <3> SUFFICES ASSUME ~nodesAstray PROVE nodeCalls' = {} /\ NodesShown'
      BY <2>3 DEF InTurn
    <3>1. c.answer = nodesHub
      BY <2>3 DEF NodesInv, InTurn
    <3> QED BY <1>2, <2>3, <3>1 DEF NodesShown, Size
  <2> QED BY <1>1, <2>1, <2>2, <2>3, <2>4 DEF NodesInv, NodesTypeOK, DisabledWhileRevoking
<1>4. CASE NodesFail(c)
  <2>1. nodeCalls' \subseteq NodeCall /\ FewCalls' /\ CallsFit'
    BY <1>4, FewerCalls DEF NodesFail
  <2>2. /\ nodes' = nodes /\ nodeList' = "error" /\ nodeBusy' = {} /\ due' = {} /\ nodesAstray' = TRUE
        /\ UNCHANGED <<nodesHub, tokens, count, panel, nodesMade>>
    BY <1>4 DEF NodesFail, RenderNodes
  <2>3. InTurn'
    BY <2>2 DEF InTurn
  <2> QED BY <2>1, <2>2, <2>3 DEF NodesInv, NodesTypeOK, DisabledWhileRevoking
<1>5. CASE RevokeSucceeds(c)
  <2> DEFINE rest == Redrawn(nodeCalls \ {c})
  <2>1. /\ IsFiniteSet(nodeCalls) /\ Cardinality(nodeCalls) <= nodesMade
        /\ nodesMade \in 0 .. MaxNodeCalls /\ nodesMade \in Nat
        /\ Cardinality(nodeCalls) \in Nat /\ nodeCalls \in SUBSET NodeCall
        /\ MaxNodeCalls \in Nat \ {0}
    BY NodesAssumption, FS_CardinalityType DEF NodesInv, FewCalls, NodesTypeOK
  <2>2. /\ IsFiniteSet(nodeCalls \ {c})
        /\ Cardinality(nodeCalls \ {c}) = Cardinality(nodeCalls) - 1
    BY <2>1, FS_RemoveElement
  <2>3. IsFiniteSet(rest) /\ Cardinality(rest) <= Cardinality(nodeCalls \ {c})
        /\ Cardinality(rest) \in Nat
    <3>1. IsFiniteSet(rest) /\ Cardinality(rest) <= Cardinality(nodeCalls \ {c})
      BY <2>2, RedrawnFew
    <3> QED BY <3>1, FS_CardinalityType
  <2>4. /\ SendsCall(rest, "list", NoNode) /\ nodes' = nodes /\ nodeList' = "loading" /\ nodeBusy' = {}
        /\ due' = due \cup {c.id} /\ c.kind = "revoke"
        /\ UNCHANGED <<nodesHub, tokens, count, panel, nodesMade>>
    BY <1>5 DEF RevokeSucceeds, RenderNodes
  <2>5. rest \in SUBSET NodeCall
        /\ \A e \in rest : \E d \in nodeCalls : e.token = d.token /\ e.kind = d.kind /\ e.id = d.id
    BY <2>1, RedrawnAre
  <2>6. Cardinality(rest) < nodesMade' /\ Cardinality(nodeCalls) < 2 * MaxNodeCalls
        /\ nodesMade' \in 0 .. MaxNodeCalls
    BY <2>1, <2>2, <2>3, <2>4
  <2> HIDE DEF rest
  <2>7. nodeCalls' \subseteq NodeCall /\ FewCalls' /\ CallsFit' /\ InTurn' /\ nodesAstray' \in BOOLEAN
    BY <2>3, <2>4, <2>5, <2>6, SendKeeps
  <2> QED BY <1>1, <2>4, <2>7 DEF NodesInv, NodesTypeOK, DisabledWhileRevoking
<1>6. CASE RevokeFails(c)
  <2>1. nodeCalls' \subseteq NodeCall /\ FewCalls' /\ CallsFit'
    BY <1>6, FewerCalls DEF RevokeFails
  <2>2. /\ nodeBusy' = (IF c.rendering THEN nodeBusy \ {c.id} ELSE nodeBusy) /\ nodesAstray' = TRUE
        /\ nodeCalls' = nodeCalls \ {c}
        /\ UNCHANGED <<nodesHub, tokens, nodes, count, nodeList, panel, nodesMade, due>>
    BY <1>6 DEF RevokeFails
  <2>3. InTurn'
    BY <2>2 DEF InTurn
  <2>4. DisabledWhileRevoking'
    BY <2>2 DEF NodesInv, DisabledWhileRevoking
  <2> QED BY <2>1, <2>2, <2>3, <2>4 DEF NodesInv, NodesTypeOK
<1>7. CASE EnrollmentArrives(c)
  <2>1. nodeCalls' \subseteq NodeCall /\ FewCalls' /\ CallsFit'
    BY <1>7, FewerCalls DEF EnrollmentArrives
  <2>2. /\ nodeCalls' = nodeCalls \ {c} /\ c.kind = "enroll"
        /\ UNCHANGED <<nodesHub, tokens, nodes, count, nodeList, nodeBusy, nodesMade, due, nodesAstray>>
    BY <1>7 DEF EnrollmentArrives
  <2>3. panel' \in 0 .. tokens'
    BY <1>1, <1>7 DEF EnrollmentArrives, NodesInv, NodesTypeOK
  <2>4. InTurn'
    <3> SUFFICES ASSUME ~nodesAstray PROVE nodeCalls' = {} /\ NodesShown'
      BY <2>2 DEF InTurn
    <3>1. NodesShown
      BY <2>2 DEF NodesInv, InTurn
    <3> QED BY <1>2, <2>2, <3>1 DEF NodesShown, Size
  <2>5. DisabledWhileRevoking'
    BY <2>2 DEF NodesInv, DisabledWhileRevoking
  <2> QED BY <2>1, <2>2, <2>3, <2>4, <2>5 DEF NodesInv, NodesTypeOK
<1> QED BY <1>3, <1>4, <1>5, <1>6, <1>7 DEF NodesArrival

LEMMA NodesNextKeeps == NodesInv /\ [NodesNext]_nodesVars => NodesInv'
<1> SUFFICES ASSUME NodesInv, [NodesNext]_nodesVars PROVE NodesInv'
  OBVIOUS
<1>1. CASE UNCHANGED nodesVars
  BY <1>1 DEF nodesVars, nodesPage, NodesInv, NodesTypeOK, DisabledWhileRevoking, FewCalls, CallsFit,
              InTurn, NodesShown, Size
<1> QED BY <1>1, UserKeeps, ServeKeeps, ArrivalKeeps DEF NodesNext

\* Calls may overlap, fail and be answered in any order: used one at a time the
\* page stays in step with the Hub, and a disabled button has its request.
THEOREM NodesAreInStep == NodesSpec => []NodesInStep
<1>1. NodesInv => NodesInStep
  <2> SUFFICES ASSUME NodesInv, nodeCalls = {}, ~nodesAstray PROVE NodesShown
    BY DEF NodesInv, NodesInStep, NodesMatchHub, NodesShown
  <2> QED BY DEF NodesInv, InTurn
<1> QED BY <1>1, NodesInitInv, NodesNextKeeps, PTL DEF NodesSpec
-----------------------------------------------------------------------------
(* Navigation, sheet and focus. *)

\* Everything of a page but what is named is as it was.
Same(q, p, changed) ==
  \A f \in {"view", "nav", "sheet", "backdrop", "hidden", "drawn", "url", "active", "collapsed",
            "focus", "navReturn"} \ changed : q[f] = p[f]

\* The view a link belongs to.
ViewOf(link) == IF link \in {"alerts", "nodes"} THEN link ELSE "explorer"

\* The backdrop of a page is there exactly under an overlay.
Backed(p) == p \in Page /\ (p.backdrop <=> p.nav \/ p.sheet)

\* A page on which sheet, address and marked link tell what is shown.
Tells(p) ==
  /\ p.sheet <=> mobile /\ ~p.hidden
  /\ p.url = [view |-> p.view, fields |-> ~p.hidden]
  /\ ~mobile => p.view = ViewOf(p.active)

\* An open drawer knows where the focus came from.
Returns(p) == ClickFocuses /\ p.nav => p.navReturn = "menu"

\* The functions of the page, field by field.

LEMMA MarkedIs ==
  ASSUME NEW p \in Page, NEW link \in Links
  PROVE  /\ SetActiveNavigation(p, link) \in Page
         /\ SetActiveNavigation(p, link).active = link
         /\ Same(SetActiveNavigation(p, link), p, {"active", "collapsed"})
BY DEF SetActiveNavigation, Page, Same

LEMMA SyncedIs ==
  ASSUME NEW p \in Page
  PROVE  /\ SyncURL(p) \in Page
         /\ SyncURL(p).url = [view |-> p.view, fields |-> ~p.hidden]
         /\ Same(SyncURL(p), p, {"url"})
BY DEF SyncURL, Page, URL, Same

LEMMA RenderedIs ==
  ASSUME NEW p \in Page
  PROVE  RenderAll(p) \in Page /\ Same(RenderAll(p), p, {"drawn"})
BY DEF RenderAll, Page, Same

LEMMA ViewRenderedIs ==
  ASSUME NEW p \in Page
  PROVE  /\ RenderAppView(p) \in Page
         /\ RenderAppView(p).active = IF p.view = "explorer" THEN "logs" ELSE p.view
         /\ Same(RenderAppView(p), p, {"active", "collapsed"})
<1>1. (IF p.view = "explorer" THEN "logs" ELSE p.view) \in Links
  BY DEF Page, Views, Links
<1> QED BY <1>1, MarkedIs DEF RenderAppView

LEMMA ClickedIs ==
  ASSUME NEW p \in Page, NEW place \in FocusPlaces
  PROVE  /\ Clicked(p, place) \in Page /\ Same(Clicked(p, place), p, {"focus"})
         /\ ClickFocuses => Clicked(p, place).focus = place
BY DEF Clicked, Page, Same

LEMMA FocusedIs ==
  ASSUME NEW p \in Page, NEW place \in FocusPlaces
  PROVE  Focused(p, place) \in Page /\ Same(Focused(p, place), p, {"focus"})
BY DEF Focused, Page, Same

LEMMA ClosedIs ==
  ASSUME NEW p \in Page
  PROVE  LET q == CloseMobileOverlay(p)
         IN  /\ q \in Page /\ ~q.nav /\ ~q.sheet /\ ~q.backdrop /\ q.view = p.view
             /\ p.sheet => /\ q.hidden /\ q.url = [view |-> p.view, fields |-> FALSE]
                           /\ q.focus = "menu"
             /\ ~p.sheet => /\ q.hidden = p.hidden /\ q.url = p.url /\ q.active = p.active
                            /\ p.navReturn = "menu" => q.focus = "menu"
<1> DEFINE q0 == [p EXCEPT !.nav = FALSE, !.sheet = FALSE, !.backdrop = FALSE, !.navReturn = "none",
                     !.focus = IF p.sheet THEN "menu"
                               ELSE IF p.navReturn \in {"none", "body"} THEN @ ELSE p.navReturn]
           q1 == [q0 EXCEPT !.hidden = TRUE]
<1>1. /\ q0 \in Page /\ ~q0.nav /\ ~q0.sheet /\ ~q0.backdrop /\ q0.view = p.view
      /\ q0.hidden = p.hidden /\ q0.url = p.url /\ q0.active = p.active
      /\ p.sheet => q0.focus = "menu"
      /\ ~p.sheet /\ p.navReturn = "menu" => q0.focus = "menu"
  BY DEF Page, FocusPlaces
<1>2. q1 \in Page /\ q1.hidden = TRUE /\ Same(q1, q0, {"hidden"})
  <2> HIDE DEF q0
  <2> QED BY <1>1 DEF Page, Same
<1>3. CloseMobileOverlay(p) =
        IF p.sheet THEN SetActiveNavigation(RenderAll(SyncURL(q1)), "logs") ELSE q0
  BY DEF CloseMobileOverlay
<1> HIDE DEF q0, q1
<1>4. CASE p.sheet
  <2>1. SyncURL(q1) \in Page /\ RenderAll(SyncURL(q1)) \in Page /\ "logs" \in Links
    BY <1>2, SyncedIs, RenderedIs DEF Links
  <2> DEFINE q == SetActiveNavigation(RenderAll(SyncURL(q1)), "logs")
  <2>2. q \in Page /\ Same(q, RenderAll(SyncURL(q1)), {"active", "collapsed"})
    BY <2>1, MarkedIs
  <2>3. Same(RenderAll(SyncURL(q1)), SyncURL(q1), {"drawn"})
    BY <2>1, RenderedIs
  <2>4. /\ Same(SyncURL(q1), q1, {"url"})
        /\ SyncURL(q1).url = [view |-> q1.view, fields |-> ~q1.hidden]
    BY <1>2, SyncedIs
  <2>5. /\ ~q1.nav /\ ~q1.sheet /\ ~q1.backdrop /\ q1.view = p.view /\ q1.hidden = TRUE
        /\ q1.focus = "menu"
    BY <1>1, <1>2, <1>4 DEF Same
  <2> HIDE DEF q
  <2>6. /\ ~q.nav /\ ~q.sheet /\ ~q.backdrop /\ q.view = p.view /\ q.hidden /\ q.focus = "menu"
        /\ q.url = [view |-> p.view, fields |-> FALSE]
    BY <2>2, <2>3, <2>4, <2>5 DEF Same
  <2>7. CloseMobileOverlay(p) = q
    BY <1>3, <1>4 DEF q
  <2> QED BY <1>4, <2>2, <2>6, <2>7
<1>5. CASE ~p.sheet
  BY <1>1, <1>3, <1>5
<1> QED BY <1>4, <1>5

LEMMA SheetSyncedIs ==
  ASSUME NEW p \in Page, mobile \in BOOLEAN
  PROVE  LET q == SyncMobileFieldsOverlay(p)
         IN  /\ q \in Page /\ (q.sheet <=> mobile /\ ~p.hidden)
             /\ (q.backdrop <=> (mobile /\ ~p.hidden) \/ (p.nav /\ p.backdrop))
             /\ ~mobile => q.active = p.active
             /\ Same(q, p, {"sheet", "backdrop", "active", "collapsed"})
<1> DEFINE opened == mobile /\ ~p.hidden
           q0 == [p EXCEPT !.sheet = opened, !.backdrop = opened \/ (p.nav /\ p.backdrop)]
<1>1. /\ q0 \in Page /\ (q0.sheet <=> opened) /\ (q0.backdrop <=> opened \/ (p.nav /\ p.backdrop))
      /\ Same(q0, p, {"sheet", "backdrop"})
  BY DEF Page, Same
<1>2. SyncMobileFieldsOverlay(p) =
        IF mobile THEN SetActiveNavigation(q0, IF opened THEN "fields" ELSE "logs") ELSE q0
  BY DEF SyncMobileFieldsOverlay
<1> HIDE DEF q0
<1>3. CASE mobile
  <2> DEFINE link == IF opened THEN "fields" ELSE "logs"
  <2>1. link \in Links
    BY DEF Links
  <2> HIDE DEF link
  <2>2. /\ SetActiveNavigation(q0, link) \in Page
        /\ Same(SetActiveNavigation(q0, link), q0, {"active", "collapsed"})
    BY <1>1, <2>1, MarkedIs
  <2>3. SyncMobileFieldsOverlay(p) = SetActiveNavigation(q0, link)
    BY <1>2, <1>3 DEF link
  <2> QED BY <1>1, <1>3, <2>2, <2>3 DEF Same
<1>4. CASE ~mobile
  BY <1>1, <1>2, <1>4 DEF Same
<1> QED BY <1>3, <1>4

\* What the operations of the page do.

LEMMA CloseTells ==
  ASSUME NEW p \in Page, Tells(p)
  PROVE  Tells(CloseMobileOverlay(p))
<1> DEFINE q == CloseMobileOverlay(p)
<1>1. /\ q \in Page /\ ~q.sheet /\ q.view = p.view
      /\ p.sheet => q.hidden /\ q.url = [view |-> p.view, fields |-> FALSE]
      /\ ~p.sheet => q.hidden = p.hidden /\ q.url = p.url /\ q.active = p.active
  BY ClosedIs
<1> HIDE DEF q
<1>2. Tells(q)
  BY <1>1 DEF Tells, Page
<1> QED BY <1>2 DEF q

LEMMA CloseBacks ==
  ASSUME NEW p \in Page
  PROVE  Backed(CloseMobileOverlay(p)) /\ Returns(CloseMobileOverlay(p))
BY ClosedIs DEF Backed, Returns

LEMMA CloseReturns ==
  ASSUME NEW p \in Page, Returns(p), ClickFocuses, p.nav
  PROVE  CloseMobileOverlay(p).focus = "menu"
BY ClosedIs DEF Returns

\* A rendering keeps, and a marked link of the view kept tells, what was told.
LEMMA RenderTells ==
  ASSUME NEW p \in Page
  PROVE  /\ Backed(p) => Backed(RenderAll(p))
         /\ Tells(p) => Tells(RenderAll(p))
         /\ Returns(p) => Returns(RenderAll(p))
<1> DEFINE q == RenderAll(p)
<1>1. q \in Page /\ Same(q, p, {"drawn"})
  BY RenderedIs
<1> HIDE DEF q
<1>2. (Backed(p) => Backed(q)) /\ (Tells(p) => Tells(q)) /\ (Returns(p) => Returns(q))
  BY <1>1 DEF Same, Backed, Tells, Returns
<1> QED BY <1>2 DEF q

\* RenderAppView tells the view, whatever was marked before.
LEMMA ViewTells ==
  ASSUME NEW p \in Page
  PROVE  /\ Backed(p) => Backed(RenderAppView(p))
         /\ /\ p.sheet <=> mobile /\ ~p.hidden
            /\ p.url = [view |-> p.view, fields |-> ~p.hidden]
            => Tells(RenderAppView(p))
         /\ Returns(p) => Returns(RenderAppView(p))
<1> DEFINE q == RenderAppView(p)
<1>1. /\ q \in Page /\ q.active = (IF p.view = "explorer" THEN "logs" ELSE p.view)
      /\ Same(q, p, {"active", "collapsed"})
  BY ViewRenderedIs
<1> HIDE DEF q
<1>2. p.view = ViewOf(q.active)
  BY <1>1 DEF ViewOf, Page, Views
<1>3. /\ Backed(p) => Backed(q)
      /\ (p.sheet <=> mobile /\ ~p.hidden) /\ p.url = [view |-> p.view, fields |-> ~p.hidden]
         => Tells(q)
      /\ Returns(p) => Returns(q)
  BY <1>1, <1>2 DEF Same, Backed, Tells, Returns
<1> QED BY <1>3 DEF q

\* So does a synchronised address ...
LEMMA SyncTells ==
  ASSUME NEW p \in Page
  PROVE  /\ Backed(p) => Backed(SyncURL(p))
         /\ (p.sheet <=> mobile /\ ~p.hidden) /\ (~mobile => p.view = ViewOf(p.active))
            => Tells(SyncURL(p))
         /\ Returns(p) => Returns(SyncURL(p))
<1> DEFINE q == SyncURL(p)
<1>1. /\ q \in Page /\ q.url = [view |-> p.view, fields |-> ~p.hidden] /\ Same(q, p, {"url"})
  BY SyncedIs
<1> HIDE DEF q
<1>2. /\ Backed(p) => Backed(q)
      /\ (p.sheet <=> mobile /\ ~p.hidden) /\ (~mobile => p.view = ViewOf(p.active)) => Tells(q)
      /\ Returns(p) => Returns(q)
  BY <1>1 DEF Same, Backed, Tells, Returns
<1> QED BY <1>2 DEF q

\* ... and a synchronised sheet.
LEMMA SheetTells ==
  ASSUME NEW p \in Page, mobile \in BOOLEAN
  PROVE  /\ Backed(p) => Backed(SyncMobileFieldsOverlay(p))
         /\ /\ p.url = [view |-> p.view, fields |-> ~p.hidden]
            /\ ~mobile => p.view = ViewOf(p.active)
            => Tells(SyncMobileFieldsOverlay(p))
         /\ Returns(p) => Returns(SyncMobileFieldsOverlay(p))
<1> DEFINE q == SyncMobileFieldsOverlay(p)
<1>1. /\ q \in Page /\ (q.sheet <=> mobile /\ ~p.hidden)
      /\ (q.backdrop <=> (mobile /\ ~p.hidden) \/ (p.nav /\ p.backdrop))
      /\ ~mobile => q.active = p.active
      /\ Same(q, p, {"sheet", "backdrop", "active", "collapsed"})
  BY SheetSyncedIs
<1> HIDE DEF q
<1>2. /\ Backed(p) => Backed(q)
      /\ p.url = [view |-> p.view, fields |-> ~p.hidden] /\ (~mobile => p.view = ViewOf(p.active))
         => Tells(q)
      /\ Returns(p) => Returns(q)
  BY <1>1 DEF Same, Backed, Tells, Returns
<1> QED BY <1>2 DEF q

\* A click moves the focus and nothing else.
LEMMA ClickTells ==
  ASSUME NEW p \in Page, NEW place \in FocusPlaces
  PROVE  /\ Clicked(p, place) \in Page
         /\ Backed(p) => Backed(Clicked(p, place))
         /\ Tells(p) => Tells(Clicked(p, place))
         /\ Returns(p) => Returns(Clicked(p, place))
<1> DEFINE q == Clicked(p, place)
<1>1. q \in Page /\ Same(q, p, {"focus"})
  BY ClickedIs
<1> HIDE DEF q
<1>2. /\ q \in Page
      /\ (Backed(p) => Backed(q)) /\ (Tells(p) => Tells(q)) /\ (Returns(p) => Returns(q))
  BY <1>1 DEF Same, Backed, Tells, Returns
<1> QED BY <1>2 DEF q

LEMMA FocusTells ==
  ASSUME NEW p \in Page, NEW place \in FocusPlaces
  PROVE  /\ Focused(p, place) \in Page
         /\ Backed(p) => Backed(Focused(p, place))
         /\ Tells(p) => Tells(Focused(p, place))
         /\ Returns(p) => Returns(Focused(p, place))
         /\ Focused(p, place).nav = p.nav /\ Focused(p, place).sheet = p.sheet
         /\ Focused(p, place).view = p.view
<1> DEFINE q == Focused(p, place)
<1>1. q \in Page /\ Same(q, p, {"focus"})
  BY FocusedIs
<1> HIDE DEF q
<1>2. /\ q \in Page
      /\ (Backed(p) => Backed(q)) /\ (Tells(p) => Tells(q)) /\ (Returns(p) => Returns(q))
      /\ q.nav = p.nav /\ q.sheet = p.sheet /\ q.view = p.view
  BY <1>1 DEF Same, Backed, Tells, Returns
<1> QED BY <1>2 DEF q

\* A change of view closes what is open and tells the new view.
LEMMA ViewSet ==
  ASSUME NEW p \in Page, Tells(p), NEW view \in Views
  PROVE  LET q == SetAppView(p, view) IN Tells(q) /\ q.view = view /\ ~q.sheet
<1> DEFINE c == CloseMobileOverlay(p)
           d == [c EXCEPT !.view = view]
<1>1. c \in Page /\ Tells(c) /\ ~c.sheet /\ c.view = p.view
  BY ClosedIs, CloseTells
<1> HIDE DEF c
<1>2. d \in Page /\ d.view = view /\ Same(d, c, {"view"})
  BY <1>1 DEF Page, Same
<1> HIDE DEF d
<1>3. CASE p.view = view
  <2>1. SetAppView(p, view) = RenderAppView(c)
    BY <1>3 DEF SetAppView, c
  <2>2. Tells(RenderAppView(c)) /\ Same(RenderAppView(c), c, {"active", "collapsed"})
    BY <1>1, ViewTells, ViewRenderedIs DEF Tells
  <2> QED BY <1>1, <1>3, <2>1, <2>2 DEF Same
<1>4. CASE p.view # view
  <2> DEFINE e == SyncURL(d)
  <2>1. SetAppView(p, view) = RenderAppView(e)
    BY <1>4 DEF SetAppView, c, d
  <2>2. /\ e \in Page /\ e.url = [view |-> d.view, fields |-> ~d.hidden] /\ Same(e, d, {"url"})
    BY <1>2, SyncedIs
  <2> HIDE DEF e
  <2>3. Tells(RenderAppView(e)) /\ Same(RenderAppView(e), e, {"active", "collapsed"})
    <3>1. (e.sheet <=> mobile /\ ~e.hidden) /\ e.url = [view |-> e.view, fields |-> ~e.hidden]
      BY <1>1, <1>2, <2>2 DEF Same, Tells
    <3> QED BY <2>2, <3>1, ViewTells, ViewRenderedIs
  <2> QED BY <1>1, <1>2, <2>1, <2>2, <2>3 DEF Same
<1> QED BY <1>3, <1>4

LEMMA ViewSetBacks ==
  ASSUME NEW p \in Page, NEW view \in Views
  PROVE  LET q == SetAppView(p, view)
         IN  /\ Backed(q) /\ Returns(q)
             /\ Returns(p) /\ ClickFocuses /\ p.nav => q.focus = "menu"
<1> DEFINE c == CloseMobileOverlay(p)
           d == [c EXCEPT !.view = view]
           e == IF p.view = view THEN c ELSE SyncURL(d)
<1>1. /\ c \in Page /\ Backed(c) /\ ~c.nav
      /\ Returns(p) /\ ClickFocuses /\ p.nav => c.focus = "menu"
  BY ClosedIs, CloseBacks, CloseReturns
<1>2. SetAppView(p, view) = RenderAppView(e)
  BY DEF SetAppView
<1> HIDE DEF c
<1>3. d \in Page /\ Same(d, c, {"view"})
  BY <1>1 DEF Page, Same
<1> HIDE DEF d
<1>4. SyncURL(d) \in Page /\ Same(SyncURL(d), d, {"url"})
  BY <1>3, SyncedIs
<1>5. e \in Page /\ e.nav = c.nav /\ e.sheet = c.sheet /\ e.backdrop = c.backdrop /\ e.focus = c.focus
  BY <1>1, <1>3, <1>4 DEF Same
<1> HIDE DEF e
<1>6. RenderAppView(e) \in Page /\ Same(RenderAppView(e), e, {"active", "collapsed"})
  BY <1>5, ViewRenderedIs
<1> QED BY <1>1, <1>2, <1>5, <1>6 DEF Same, Backed, Returns

\* A section shown closes what is open; the fields, on a phone, then open their
\* sheet - unless it was open: closing it hides the fields.
LEMMA SectionFocused ==
  ASSUME NEW p \in Page, NEW section \in {"timeline", "fields"}, mobile \in BOOLEAN
  PROVE  LET r == FocusSection(p, section)
         IN  /\ r \in Page
             /\ Backed(p) => Backed(r)
             /\ Returns(p) => Returns(r)
             /\ Returns(p) /\ ClickFocuses /\ p.nav /\ ~r.nav => r.focus = "menu"
             /\ Tells(p) /\ p.view = "explorer" /\ (section = "fields" => ~p.sheet) => Tells(r)
<1> DEFINE h == [p EXCEPT !.hidden = IF section = "fields" THEN FALSE ELSE @]
           q == SyncURL(RenderAll(h))
           c == CloseMobileOverlay(q)
           d == [c EXCEPT !.sheet = TRUE, !.backdrop = TRUE]
           e == IF ~mobile THEN q ELSE IF section = "fields" THEN d ELSE c
           r == SetActiveNavigation(e, section)
<1>1. FocusSection(p, section) = r
  BY DEF FocusSection
<1>2. /\ h \in Page /\ Same(h, p, {"hidden"})
      /\ h.hidden = IF section = "fields" THEN FALSE ELSE p.hidden
  BY DEF Page, Same
<1> HIDE DEF h
<1>3. RenderAll(h) \in Page /\ Same(RenderAll(h), h, {"drawn"})
  BY <1>2, RenderedIs
<1>4. /\ q \in Page /\ Same(q, RenderAll(h), {"url"})
      /\ q.url = [view |-> RenderAll(h).view, fields |-> ~RenderAll(h).hidden]
  BY <1>3, SyncedIs
<1> HIDE DEF q
<1>5. /\ q.view = p.view /\ q.nav = p.nav /\ q.sheet = p.sheet /\ q.backdrop = p.backdrop
      /\ q.hidden = (IF section = "fields" THEN FALSE ELSE p.hidden)
      /\ q.url = [view |-> q.view, fields |-> ~q.hidden]
      /\ q.active = p.active /\ q.focus = p.focus /\ q.navReturn = p.navReturn
  BY <1>2, <1>3, <1>4 DEF Same
<1>6. /\ c \in Page /\ ~c.nav /\ ~c.sheet /\ ~c.backdrop /\ c.view = q.view
      /\ q.sheet => c.hidden /\ c.url = [view |-> q.view, fields |-> FALSE] /\ c.focus = "menu"
      /\ ~q.sheet => /\ c.hidden = q.hidden /\ c.url = q.url /\ c.active = q.active
                     /\ q.navReturn = "menu" => c.focus = "menu"
  BY <1>4, ClosedIs
<1> HIDE DEF c
<1>7. d \in Page /\ d.sheet = TRUE /\ d.backdrop = TRUE /\ Same(d, c, {"sheet", "backdrop"})
  BY <1>6 DEF Page, Same
<1> HIDE DEF d
<1>8. e \in Page /\ section \in Links
  BY <1>4, <1>6, <1>7 DEF Links
<1>9. /\ e.view = p.view
      /\ Backed(p) => Backed(e)
      /\ Returns(p) => Returns(e)
      /\ Returns(p) /\ ClickFocuses /\ p.nav /\ ~e.nav => e.focus = "menu"
      /\ Tells(p) /\ (section = "fields" => ~p.sheet) =>
           (e.sheet <=> mobile /\ ~e.hidden) /\ e.url = [view |-> e.view, fields |-> ~e.hidden]
  <2>1. CASE ~mobile
    BY <1>5, <1>8, <2>1 DEF Backed, Returns, Tells
  <2>2. CASE mobile /\ section = "fields"
    <3>1. e = d
      BY <2>2
    <3>2. /\ ~d.nav /\ d.view = p.view /\ d.sheet /\ d.backdrop /\ d.focus = c.focus
          /\ d.hidden = c.hidden /\ d.url = c.url
      BY <1>5, <1>6, <1>7 DEF Same
    <3>3. Returns(p) /\ ClickFocuses /\ p.nav => d.focus = "menu"
      BY <1>5, <1>6, <3>2 DEF Returns
    <3>4. ~p.sheet => d.hidden = FALSE /\ d.url = [view |-> d.view, fields |-> ~d.hidden]
      BY <1>5, <1>6, <2>2, <3>2
    <3>5. Backed(d) /\ Returns(d)
      BY <1>7, <3>2 DEF Backed, Returns
    <3>6. Tells(p) /\ (section = "fields" => ~p.sheet) =>
            (d.sheet <=> mobile /\ ~d.hidden) /\ d.url = [view |-> d.view, fields |-> ~d.hidden]
      BY <2>2, <3>2, <3>4
    <3> HIDE DEF e
    <3> QED BY <2>2, <3>1, <3>2, <3>3, <3>5, <3>6
  <2>3. CASE mobile /\ section # "fields"
    <3>1. e = c
      BY <2>3
    <3>2. Returns(p) /\ ClickFocuses /\ p.nav => c.focus = "menu"
      BY <1>5, <1>6 DEF Returns
    <3>3. Tells(p) => c.hidden /\ c.url = [view |-> c.view, fields |-> ~c.hidden]
      BY <1>5, <1>6, <2>3 DEF Tells
    <3>4. Backed(c) /\ Returns(c) /\ c.view = p.view
      BY <1>5, <1>6 DEF Backed, Returns
    <3>5. Tells(p) =>
            (c.sheet <=> mobile /\ ~c.hidden) /\ c.url = [view |-> c.view, fields |-> ~c.hidden]
      BY <1>6, <3>3
    <3> HIDE DEF e
    <3> QED BY <1>6, <2>3, <3>1, <3>2, <3>4, <3>5
  <2> QED BY <2>1, <2>2, <2>3
<1> HIDE DEF e
<1>10. r \in Page /\ r.active = section /\ Same(r, e, {"active", "collapsed"})
  BY <1>8, MarkedIs
<1> HIDE DEF r
<1>11. ViewOf(section) = "explorer"
  BY DEF ViewOf
<1> QED BY <1>1, <1>9, <1>10, <1>11 DEF Same, Backed, Returns, Tells

\* What the callbacks that show a section find: nothing comes after them, and
\* the sheet of the fields is closed.
CallbacksFit(p, asked) ==
  \A i \in DOMAIN asked : asked[i] \in {"show timeline", "show fields"} =>
    i = Len(asked) /\ p.view = "explorer" /\ (asked[i] = "show fields" => ~p.sheet)

OverlayInv ==
  /\ OverlayTypeOK /\ Backed(page) /\ Returns(page)
  /\ rotations = 0 /\ ~hurried => Tells(page) /\ CallbacksFit(page, frames)

LEMMA OverlayInitInv == OverlayInit => OverlayInv
<1> SUFFICES ASSUME OverlayInit PROVE OverlayInv
  OBVIOUS
<1> PICK view \in Views, fields \in BOOLEAN : page = Opened(view, fields)
  BY DEF OverlayInit
<1> DEFINE p == [view |-> view, nav |-> FALSE, sheet |-> FALSE, backdrop |-> FALSE,
                 hidden |-> ~fields, drawn |-> FALSE, url |-> [view |-> view, fields |-> fields],
                 active |-> "logs", collapsed |-> {}, focus |-> "body", navReturn |-> "none"]
           s == SyncURL(p)
           q == RenderAppView(s)
<1>1. /\ mobile \in BOOLEAN /\ rotations = 0 /\ frames = <<>> /\ past = <<>> /\ hurried = FALSE
      /\ page = SyncMobileFieldsOverlay(q)
  BY DEF OverlayInit, Opened
<1>2. p \in Page /\ Backed(p) /\ Returns(p)
  BY DEF Page, URL, Links, FocusPlaces, Backed, Returns
<1> HIDE DEF p
<1>3. /\ s \in Page /\ Backed(s) /\ Returns(s)
      /\ s.url = [view |-> p.view, fields |-> ~p.hidden] /\ Same(s, p, {"url"})
  BY <1>2, SyncedIs, SyncTells
<1>4. s.url = [view |-> s.view, fields |-> ~s.hidden]
  BY <1>3 DEF Same
<1> HIDE DEF s
<1>5. /\ q \in Page /\ Backed(q) /\ Returns(q)
      /\ q.active = (IF s.view = "explorer" THEN "logs" ELSE s.view)
      /\ Same(q, s, {"active", "collapsed"})
  BY <1>3, ViewRenderedIs, ViewTells
<1>6. /\ q.url = [view |-> q.view, fields |-> ~q.hidden]
      /\ q.view = ViewOf(q.active)
  BY <1>3, <1>4, <1>5 DEF Same, ViewOf, Page, Views
<1> HIDE DEF q
<1>7. page \in Page /\ Backed(page) /\ Returns(page) /\ Tells(page)
  BY <1>1, <1>5, <1>6, SheetTells DEF Backed
<1>8. frames \in Seq(Frames) /\ past \in Seq(URL) /\ DOMAIN frames = {} /\ hurried \in BOOLEAN
  <2>1. frames \in Seq(Frames) /\ past \in Seq(URL)
    BY <1>1
  <2>2. DOMAIN frames = {}
    BY <1>1, <2>1
  <2>3. hurried \in BOOLEAN
    BY <1>1
  <2> QED BY <2>1, <2>2, <2>3
<1>9. rotations \in 0 .. Rotations
  BY <1>1, OverlaysAssumption
<1>10. OverlayTypeOK
  BY <1>1, <1>7, <1>8, <1>9 DEF OverlayTypeOK
<1>11. CallbacksFit(page, frames)
  BY <1>8 DEF CallbacksFit
<1> QED BY <1>7, <1>10, <1>11 DEF OverlayInv

LEMMA GestureKeeps ==
  ASSUME OverlayInv, NEW p, Backed(p), Returns(p), NEW asked \in Seq(Frames),
         Tells(page) => Tells(p) /\ CallbacksFit(p, asked), Gesture(p, asked),
         past' \in Seq(URL)
  PROVE  OverlayInv'
<1>1. /\ page' = p /\ frames' = frames \o asked /\ hurried' = (hurried \/ frames # <<>>)
      /\ UNCHANGED <<mobile, rotations>> /\ p \in Page
  BY DEF Gesture, Backed
<1>2. frames' \in Seq(Frames) /\ hurried' \in BOOLEAN
  <2>1. frames' \in Seq(Frames)
    BY <1>1 DEF OverlayInv, OverlayTypeOK
  <2>2. (hurried \/ frames # <<>>) \in BOOLEAN
    BY Zenon
  <2> QED BY <1>1, <2>1, <2>2
<1>3. OverlayTypeOK'
  BY <1>1, <1>2 DEF OverlayInv, OverlayTypeOK
<1>4. ASSUME rotations' = 0, ~hurried' PROVE Tells(page)' /\ CallbacksFit(page, frames)'
  <2>1. rotations = 0 /\ ~hurried /\ frames = <<>>
    BY <1>1, <1>4
  <2>2. Tells(p) /\ CallbacksFit(p, asked)
    BY <2>1 DEF OverlayInv
  <2>3. frames' = asked
    BY <1>1, <2>1
  <2> QED BY <1>1, <2>2, <2>3 DEF Tells, CallbacksFit
<1>5. Backed(page)' /\ Returns(page)'
  BY <1>1 DEF Backed, Returns
<1> QED BY <1>3, <1>4, <1>5 DEF OverlayInv

\* The drawer, closed by this step, gave the focus back.
GivesBack == ClickFocuses /\ page.nav /\ ~page'.nav => page'.focus # "link"

LEMMA CloseKeeps ==
  ASSUME OverlayInv, NEW p, Backed(p), Returns(p), p.nav = page.nav, Tells(page) => Tells(p),
         Gesture(CloseMobileOverlay(p), <<>>), past' \in Seq(URL)
  PROVE  OverlayInv' /\ GivesBack
<1> DEFINE c == CloseMobileOverlay(p)
<1>1. p \in Page
  BY DEF Backed
<1>2. Backed(c) /\ Returns(c) /\ (Tells(page) => Tells(c))
  BY <1>1, CloseTells, CloseBacks
<1>3. ClickFocuses /\ page.nav => c.focus = "menu"
  BY <1>1, CloseReturns
<1>4. page' = c
  BY DEF Gesture
<1> HIDE DEF c
<1>5. <<>> \in Seq(Frames) /\ CallbacksFit(c, <<>>)
  BY DEF CallbacksFit
<1>6. Gesture(c, <<>>)
  BY DEF c
<1>7. OverlayInv'
  BY <1>2, <1>5, <1>6, GestureKeeps
<1> QED BY <1>3, <1>4, <1>7 DEF GivesBack

\* A gesture that leaves the drawer as it is.
LEMMA OpenKeeps ==
  ASSUME OverlayInv, NEW p, Backed(p), Returns(p), p.nav = page.nav, Tells(page) => Tells(p),
         Gesture(p, <<>>), past' \in Seq(URL)
  PROVE  OverlayInv' /\ GivesBack
<1>1. <<>> \in Seq(Frames) /\ CallbacksFit(p, <<>>)
  BY DEF CallbacksFit
<1>2. OverlayInv'
  BY <1>1, GestureKeeps
<1>3. page' = p
  BY DEF Gesture
<1> QED BY <1>2, <1>3 DEF GivesBack

LEMMA MenuKeeps == ASSUME OverlayInv, ToggleMobileNav PROVE OverlayInv' /\ GivesBack
<1> DEFINE p == Clicked(page, "menu")
           o == [p EXCEPT !.nav = TRUE, !.backdrop = TRUE, !.navReturn = p.focus]
<1>1. page \in Page /\ "menu" \in FocusPlaces /\ past \in Seq(URL) /\ Backed(page) /\ Returns(page)
  BY DEF OverlayInv, OverlayTypeOK, FocusPlaces
<1>2. /\ Backed(p) /\ Returns(p) /\ (Tells(page) => Tells(p))
      /\ p \in Page /\ p.nav = page.nav /\ (ClickFocuses => p.focus = "menu")
  BY <1>1, ClickTells, ClickedIs DEF Same
<1>3. CASE p.sheet \/ p.nav
  <2>1. Gesture(CloseMobileOverlay(p), <<>>) /\ past' \in Seq(URL)
    BY <1>1, <1>3 DEF ToggleMobileNav
  <2> HIDE DEF p
  <2> QED BY <1>2, <2>1, CloseKeeps
<1>4. CASE ~(p.sheet \/ p.nav)
  <2>1. Gesture(o, <<"link">>) /\ past' \in Seq(URL)
    BY <1>1, <1>4 DEF ToggleMobileNav
  <2> HIDE DEF p
  <2>2. o \in Page /\ o.nav = TRUE /\ o.backdrop = TRUE /\ o.navReturn = p.focus
        /\ Same(o, p, {"nav", "backdrop", "navReturn"})
    BY <1>2 DEF Page, Same
  <2> HIDE DEF o
  <2>3. Backed(o) /\ Returns(o) /\ (Tells(page) => Tells(o))
    BY <1>2, <2>2 DEF Backed, Returns, Tells, Same
  <2>4. <<"link">> \in Seq(Frames) /\ CallbacksFit(o, <<"link">>)
    <3> DEFINE f == <<"link">>
    <3>1. f \in Seq(Frames) /\ DOMAIN f = {1} /\ f[1] = "link"
      BY DEF Frames
    <3> HIDE DEF f
    <3>2. f \in Seq(Frames) /\ CallbacksFit(o, f)
      BY <3>1 DEF CallbacksFit
    <3> QED BY <3>2 DEF f
  <2>5. OverlayInv'
    BY <2>1, <2>3, <2>4, GestureKeeps
  <2>6. page' = o
    BY <2>1 DEF Gesture
  <2> QED BY <2>2, <2>5, <2>6 DEF GivesBack
<1> QED BY <1>3, <1>4

LEMMA OneCallback ==
  ASSUME NEW x \in Frames
  PROVE  <<x>> \in Seq(Frames) /\ Len(<<x>>) = 1 /\ <<x>>[1] = x /\ <<x>> # <<>>
OBVIOUS

LEMMA LastOfTwo ==
  ASSUME NEW a \in Seq(Frames), Len(a) = 0 \/ (Len(a) = 1 /\ a[1] = "title"),
         NEW b \in Seq(Frames), Len(b) = 0 \/ (Len(b) = 1 /\ b # <<>>)
  PROVE  /\ a \o b \in Seq(Frames)
         /\ \A i \in DOMAIN (a \o b) : (a \o b)[i] \in {"show timeline", "show fields"} =>
              i = Len(a \o b) /\ b # <<>>
<1> DEFINE c == a \o b
<1>1. /\ c \in Seq(Frames) /\ Len(c) = Len(a) + Len(b)
      /\ \A i \in 1 .. Len(a) + Len(b) : c[i] = IF i <= Len(a) THEN a[i] ELSE b[i - Len(a)]
  BY ConcatProperties
<1> HIDE DEF c
<1>2. DOMAIN c = 1 .. Len(c)
  BY <1>1
<1>3. ASSUME NEW i \in DOMAIN c, c[i] \in {"show timeline", "show fields"}
      PROVE  i = Len(c) /\ b # <<>>
  <2>1. i \in Int /\ 1 <= i /\ i <= Len(a) + Len(b) /\ i \in 1 .. Len(a) + Len(b)
    BY <1>1, <1>2
  <2>2. ~(i <= Len(a))
    <3> SUFFICES ASSUME i <= Len(a) PROVE FALSE
      OBVIOUS
    <3>1. Len(a) = 1 /\ a[1] = "title"
      <4>1. Len(a) # 0
        BY <2>1
      <4> QED BY <4>1
    <3>2. c[i] = a[i]
      BY <1>1, <2>1
    <3>3. i = 1
      BY <2>1, <3>1
    <3> QED BY <1>3, <3>1, <3>2, <3>3
  <2> QED BY <1>1, <2>1, <2>2
<1> QED BY <1>1, <1>3 DEF c

\* A callback that shows a section is the last one a link asks for.
LEMMA ShownLast ==
  ASSUME NEW a \in {<<>>, <<"title">>}, NEW b \in {<<>>, <<"show timeline">>, <<"show fields">>}
  PROVE  /\ a \o b \in Seq(Frames)
         /\ \A i \in DOMAIN (a \o b) : (a \o b)[i] \in {"show timeline", "show fields"} =>
              i = Len(a \o b) /\ b # <<>>
<1> DEFINE one == <<"title">>
           two == <<"show timeline">>
           three == <<"show fields">>
<1>1. /\ one \in Seq(Frames) /\ Len(one) = 1 /\ one[1] = "title"
      /\ two \in Seq(Frames) /\ Len(two) = 1 /\ two # <<>>
      /\ three \in Seq(Frames) /\ Len(three) = 1 /\ three # <<>>
  <2>1. "title" \in Frames /\ "show timeline" \in Frames /\ "show fields" \in Frames
    BY DEF Frames
  <2> QED BY <2>1, OneCallback
<1>2. <<>> \in Seq(Frames) /\ Len(<<>>) = 0
  BY EmptySeq
<1>3. a \in {<<>>, one} /\ b \in {<<>>, two, three}
  OBVIOUS
<1> HIDE DEF one, two, three
<1>4. a \in Seq(Frames) /\ (Len(a) = 0 \/ (Len(a) = 1 /\ a[1] = "title"))
  BY <1>1, <1>2, <1>3
<1>5. b \in Seq(Frames) /\ (Len(b) = 0 \/ (Len(b) = 1 /\ b # <<>>))
  BY <1>1, <1>2, <1>3
<1> QED BY ONLY <1>4, <1>5, LastOfTwo

LEMMA LinkKeeps ==
  ASSUME OverlayInv, NEW link \in Links, FollowLink(link) PROVE OverlayInv' /\ GivesBack
<1> DEFINE p == Clicked(page, "link")
           view == IF link \in {"alerts", "nodes"} THEN link ELSE "explorer"
           q == SetAppView(p, view)
           drawn == CASE link = "timeline" -> <<"show timeline">>
                      [] link = "fields" -> <<"show fields">> [] OTHER -> <<>>
           asked == TitleFrame(p, view) \o drawn
<1>1. page \in Page /\ "link" \in FocusPlaces /\ past \in Seq(URL) /\ Backed(page) /\ Returns(page)
  BY DEF OverlayInv, OverlayTypeOK, FocusPlaces
<1>2. /\ Returns(p) /\ (Tells(page) => Tells(p)) /\ p \in Page /\ p.nav = page.nav
  BY <1>1, ClickTells, ClickedIs DEF Same
<1>3. Gesture(q, asked) /\ past' \in Seq(URL)
  BY <1>1 DEF FollowLink
<1> HIDE DEF p
<1>4. view \in Views /\ (link \in {"timeline", "fields"} => view = "explorer")
  BY DEF Links, Views
<1>5. /\ drawn \in {<<>>, <<"show timeline">>, <<"show fields">>}
      /\ TitleFrame(p, view) \in {<<>>, <<"title">>}
      /\ drawn # <<>> => link \in {"timeline", "fields"}
  BY DEF TitleFrame
<1> HIDE DEF view, drawn
<1>6. /\ Backed(q) /\ Returns(q)
      /\ ClickFocuses /\ p.nav => q.focus = "menu"
      /\ Tells(p) => Tells(q) /\ q.view = view /\ ~q.sheet
  BY <1>2, <1>4, ViewSet, ViewSetBacks
<1> HIDE DEF q
<1>7. asked \in Seq(Frames)
  BY <1>5, ShownLast
<1>8. ASSUME q.view = view, ~q.sheet PROVE CallbacksFit(q, asked)
  <2>1. ASSUME NEW i \in DOMAIN asked, asked[i] \in {"show timeline", "show fields"}
        PROVE  i = Len(asked) /\ drawn # <<>>
    BY <1>5, <2>1, ShownLast
  <2> HIDE DEF asked
  <2> QED BY <1>4, <1>5, <1>8, <2>1 DEF CallbacksFit
<1> HIDE DEF asked
<1>9. OverlayInv'
  BY <1>2, <1>3, <1>6, <1>7, <1>8, GestureKeeps
<1>10. page' = q
  BY <1>3 DEF Gesture
<1> QED BY <1>2, <1>6, <1>9, <1>10 DEF GivesBack

LEMMA ToggleKeeps == ASSUME OverlayInv, FieldsToggle PROVE OverlayInv' /\ GivesBack
<1> DEFINE k == Clicked(page, "fields")
           p == [k EXCEPT !.hidden = ~@]
           m == SyncMobileFieldsOverlay(p)
           n == IF mobile THEN m ELSE p
           q == RenderAll(SyncURL(n))
<1>1. /\ page \in Page /\ "fields" \in FocusPlaces /\ past \in Seq(URL) /\ mobile \in BOOLEAN
      /\ Backed(page) /\ Returns(page)
  BY DEF OverlayInv, OverlayTypeOK, FocusPlaces
<1>2. k \in Page /\ k.nav = page.nav /\ Backed(k) /\ Returns(k) /\ (Tells(page) => Tells(k))
  BY <1>1, ClickTells, ClickedIs DEF Same
<1> HIDE DEF k
<1>3. p \in Page /\ p.hidden = ~k.hidden /\ Same(p, k, {"hidden"})
  BY <1>2 DEF Page, Same
<1>4. /\ past' = past /\ Gesture(IF mobile /\ p.hidden THEN CloseMobileOverlay(p) ELSE q, <<>>)
  BY DEF FieldsToggle, k
<1> HIDE DEF p
<1>5. p.nav = page.nav /\ Backed(p) /\ Returns(p)
  BY <1>2, <1>3 DEF Same, Backed, Returns
<1>6. CASE mobile /\ p.hidden
  <2> DEFINE c == CloseMobileOverlay(p)
  <2>1. Gesture(c, <<>>)
    BY <1>4, <1>6
  <2>2. /\ Backed(c) /\ Returns(c) /\ (ClickFocuses /\ p.nav => c.focus = "menu")
    BY <1>3, <1>5, CloseBacks, CloseReturns
  <2>3. Tells(page) => Tells(c)
    <3>1. Tells(page) => p.sheet
      BY <1>2, <1>3, <1>6 DEF Tells, Same, Page
    <3>2. /\ ~c.sheet /\ c.view = p.view /\ c \in Page
          /\ p.sheet => c.hidden /\ c.url = [view |-> p.view, fields |-> FALSE]
      BY <1>3, ClosedIs
    <3> HIDE DEF c
    <3>3. p.sheet => Tells(c)
      <4>1. ASSUME p.sheet PROVE c.url = [view |-> c.view, fields |-> ~c.hidden]
        BY <3>2, <4>1
      <4> QED BY <1>6, <3>2, <4>1 DEF Tells
    <3> QED BY <3>1, <3>3
  <2>4. page' = c
    BY <2>1 DEF Gesture
  <2> HIDE DEF c
  <2>5. <<>> \in Seq(Frames) /\ CallbacksFit(c, <<>>)
    BY DEF CallbacksFit
  <2>6. OverlayInv'
    BY <1>1, <1>4, <2>1, <2>2, <2>3, <2>5, GestureKeeps
  <2> QED BY <1>5, <2>2, <2>4, <2>6 DEF GivesBack
<1>7. CASE ~(mobile /\ p.hidden)
  <2>1. /\ m \in Page /\ m.nav = p.nav /\ m.view = p.view /\ m.hidden = p.hidden
        /\ Backed(m) /\ Returns(m) /\ (m.sheet <=> mobile /\ ~p.hidden)
    BY <1>1, <1>3, <1>5, SheetSyncedIs, SheetTells DEF Same
  <2> HIDE DEF m
  <2>2. /\ n \in Page /\ n.nav = page.nav /\ Backed(n) /\ Returns(n)
        /\ n.hidden = p.hidden /\ n.view = p.view
    BY <1>3, <1>5, <2>1
  <2>3. Tells(page) => (n.sheet <=> mobile /\ ~n.hidden) /\ (~mobile => n.view = ViewOf(n.active))
    <3>1. CASE mobile
      BY <2>1, <3>1
    <3>2. CASE ~mobile
      BY <1>2, <1>3, <3>2 DEF Tells, Same
    <3> QED BY <3>1, <3>2
  <2> HIDE DEF n
  <2>4. /\ SyncURL(n) \in Page /\ SyncURL(n).nav = page.nav
        /\ Backed(SyncURL(n)) /\ Returns(SyncURL(n)) /\ (Tells(page) => Tells(SyncURL(n)))
    BY <2>2, <2>3, SyncedIs, SyncTells DEF Same
  <2>5. Backed(q) /\ Returns(q) /\ (Tells(page) => Tells(q)) /\ q.nav = page.nav
    BY <2>4, RenderedIs, RenderTells DEF Same
  <2>6. Gesture(q, <<>>)
    BY <1>4, <1>7
  <2> HIDE DEF q
  <2> QED BY <1>1, <1>4, <2>5, <2>6, OpenKeeps
<1> QED BY <1>6, <1>7

LEMMA CommitKeeps ==
  ASSUME OverlayInv, NEW hidden \in BOOLEAN, Commit(hidden) PROVE OverlayInv' /\ GivesBack
<1> DEFINE p == [page EXCEPT !.hidden = hidden]
           s == SyncURL(p)
           r == RenderAll(s)
           q == SyncMobileFieldsOverlay(r)
<1>1. /\ page \in Page /\ past \in Seq(URL) /\ mobile \in BOOLEAN
      /\ Backed(page) /\ Returns(page)
  BY DEF OverlayInv, OverlayTypeOK
<1>2. p \in Page /\ Same(p, page, {"hidden"})
  BY <1>1 DEF Page, Same
<1>3. Gesture(q, <<>>) /\ past' = Append(past, page.url)
  BY DEF Commit
<1>4. past' \in Seq(URL)
  BY <1>1, <1>3 DEF Page
<1> HIDE DEF p
<1>5. p.nav = page.nav /\ Backed(p) /\ Returns(p)
  BY <1>1, <1>2 DEF Same, Backed, Returns
<1>6. /\ s \in Page /\ Backed(s) /\ Returns(s) /\ s.url = [view |-> p.view, fields |-> ~p.hidden]
      /\ Same(s, p, {"url"})
  BY <1>2, <1>5, SyncedIs, SyncTells
<1> HIDE DEF s
<1>7. r \in Page /\ Backed(r) /\ Returns(r) /\ Same(r, s, {"drawn"})
  BY <1>6, RenderedIs, RenderTells
<1> HIDE DEF r
<1>8. /\ r.url = [view |-> r.view, fields |-> ~r.hidden] /\ r.nav = page.nav
      /\ Tells(page) => (~mobile => r.view = ViewOf(r.active))
  <2>1. r.active = page.active /\ r.view = page.view /\ r.nav = page.nav
    BY <1>2, <1>6, <1>7 DEF Same
  <2>2. r.url = [view |-> r.view, fields |-> ~r.hidden]
    BY <1>6, <1>7 DEF Same
  <2> QED BY <2>1, <2>2 DEF Tells
<1>9. Backed(q) /\ Returns(q) /\ (Tells(page) => Tells(q)) /\ q.nav = page.nav
  BY <1>1, <1>7, <1>8, SheetTells, SheetSyncedIs DEF Same
<1> HIDE DEF q
<1> QED BY <1>3, <1>4, <1>9, OpenKeeps

LEMMA BackKeeps == ASSUME OverlayInv, Back PROVE OverlayInv' /\ GivesBack
<1> DEFINE url == Last(past)
           p == [page EXCEPT !.url = url, !.view = url.view, !.hidden = ~url.fields]
           v == RenderAppView(p)
           q == SyncMobileFieldsOverlay(v)
<1>1. /\ page \in Page /\ past \in Seq(URL) /\ mobile \in BOOLEAN
      /\ Backed(page) /\ Returns(page)
  BY DEF OverlayInv, OverlayTypeOK
<1>2. past # <<>> /\ Gesture(q, <<>>) /\ past' = Front(past)
  BY DEF Back
<1>3. Len(past) \in Nat \ {0} /\ past[Len(past)] \in URL /\ SubSeq(past, 1, Len(past) - 1) \in Seq(URL)
  <2>1. Len(past) \in Nat \ {0}
    BY <1>1, <1>2, EmptySeq
  <2> QED BY <1>1, <2>1
<1>4. url \in URL /\ past' \in Seq(URL)
  BY <1>2, <1>3 DEF Last, Front
<1> HIDE DEF url
<1>5. /\ p \in Page /\ Same(p, page, {"url", "view", "hidden"})
      /\ p.url = url /\ p.view = url.view /\ p.hidden = ~url.fields
  BY <1>1, <1>4 DEF Page, URL, Same
<1> HIDE DEF p
<1>6. p.url = [view |-> p.view, fields |-> ~p.hidden]
  BY <1>4, <1>5 DEF URL
<1>7. p.nav = page.nav /\ Backed(p) /\ Returns(p)
  BY <1>1, <1>5 DEF Same, Backed, Returns
<1>8. /\ v \in Page /\ Backed(v) /\ Returns(v) /\ Same(v, p, {"active", "collapsed"})
      /\ v.active = IF p.view = "explorer" THEN "logs" ELSE p.view
  BY <1>5, <1>7, ViewRenderedIs, ViewTells
<1> HIDE DEF v
<1>9. v.url = [view |-> v.view, fields |-> ~v.hidden] /\ v.view = ViewOf(v.active) /\ v.nav = page.nav
  BY <1>5, <1>6, <1>7, <1>8 DEF Same, ViewOf, Page, Views
<1>10. Backed(q) /\ Returns(q) /\ Tells(q) /\ q.nav = page.nav
  BY <1>1, <1>8, <1>9, SheetTells, SheetSyncedIs DEF Same
<1> HIDE DEF q
<1> QED BY <1>2, <1>4, <1>10, OpenKeeps

LEMMA CallbackKeeps == ASSUME OverlayInv, AnimationFrame PROVE OverlayInv' /\ GivesBack
<1> DEFINE h == Head(frames)
           t == Tail(frames)
<1>1. /\ page \in Page /\ frames \in Seq(Frames) /\ frames # <<>> /\ mobile \in BOOLEAN
      /\ Backed(page) /\ Returns(page) /\ UNCHANGED <<mobile, rotations, past, hurried>>
  BY DEF OverlayInv, OverlayTypeOK, AnimationFrame
<1>2. Len(frames) \in Nat \ {0}
  BY <1>1, EmptySeq
<1>3. /\ h \in Frames /\ h = frames[1] /\ t \in Seq(Frames) /\ Len(t) = Len(frames) - 1
      /\ DOMAIN t = 1 .. Len(t) /\ \A i \in DOMAIN t : t[i] = frames[i + 1] /\ i + 1 \in DOMAIN frames
  BY <1>1, <1>2
<1>4. 1 \in DOMAIN frames /\ Len(t) \in Nat /\ Len(frames) = Len(t) + 1
  BY <1>1, <1>2, <1>3
<1> HIDE DEF h, t
<1>5. ASSUME NEW section \in {"timeline", "fields"},
             h = IF section = "timeline" THEN "show timeline" ELSE "show fields",
             page' = FocusSection(page, section), frames' = Append(t, section)
      PROVE  OverlayInv' /\ GivesBack
  <2> DEFINE r == FocusSection(page, section)
  <2>1. /\ r \in Page /\ Backed(r) /\ Returns(r)
        /\ ClickFocuses /\ page.nav /\ ~r.nav => r.focus = "menu"
        /\ Tells(page) /\ page.view = "explorer" /\ (section = "fields" => ~page.sheet) => Tells(r)
    BY <1>1, SectionFocused
  <2>2. page' = r
    BY <1>5
  <2> HIDE DEF r
  <2>3. /\ frames' \in Seq(Frames) /\ Len(frames') = Len(t) + 1
        /\ \A i \in 1 .. Len(t) : frames'[i] = t[i]
        /\ frames'[Len(t) + 1] = section
    <3>1. section \in Frames
      BY DEF Frames
    <3>2. t \in Seq(Frames) /\ frames' = Append(t, section)
      BY <1>3, <1>5
    <3> QED BY ONLY <3>1, <3>2, AppendProperties
  <2>4. OverlayTypeOK'
    BY <1>1, <2>1, <2>2, <2>3 DEF OverlayInv, OverlayTypeOK
  <2>5. ASSUME rotations = 0, ~hurried PROVE Tells(r) /\ CallbacksFit(page, frames)'
    <3>1. Tells(page) /\ CallbacksFit(page, frames)
      BY <2>5 DEF OverlayInv
    <3>2. h \in {"show timeline", "show fields"} /\ (section = "fields" => h = "show fields")
      BY <1>5
    <3>3. 1 = Len(frames) /\ page.view = "explorer" /\ (section = "fields" => ~page.sheet)
      BY <1>3, <1>4, <3>1, <3>2 DEF CallbacksFit
    <3>4. Len(t) = 0 /\ DOMAIN frames' = {1} /\ frames'[1] = section
      <4>1. Len(t) = 0
        BY <1>4, <3>3
      <4> QED BY <2>3, <4>1
    <3>5. CallbacksFit(page, frames)'
      BY <3>4 DEF CallbacksFit
    <3> QED BY <2>1, <3>1, <3>3, <3>5
  <2>6. Backed(page)' /\ Returns(page)' /\ GivesBack
    BY <2>1, <2>2 DEF Backed, Returns, GivesBack
  <2>7. rotations' = 0 /\ ~hurried' => Tells(page)' /\ CallbacksFit(page, frames)'
    <3>1. Tells(r) => Tells(page)'
      BY <1>1, <2>2 DEF Tells
    <3> QED BY <1>1, <2>5, <3>1
  <2> QED BY <2>4, <2>6, <2>7 DEF OverlayInv
<1>6. ASSUME h \notin {"show timeline", "show fields"}, page' = Focused(page, h), frames' = t
      PROVE  OverlayInv' /\ GivesBack
  <2> DEFINE r == Focused(page, h)
  <2>1. h \in FocusPlaces
    BY <1>3, <1>6 DEF Frames, FocusPlaces
  <2>2. /\ r \in Page /\ Backed(r) /\ Returns(r) /\ (Tells(page) => Tells(r))
        /\ r.nav = page.nav /\ r.sheet = page.sheet /\ r.view = page.view
    BY <1>1, <2>1, FocusTells
  <2>3. page' = r
    BY <1>6
  <2> HIDE DEF r
  <2>4. OverlayTypeOK'
    BY <1>1, <1>3, <1>6, <2>2, <2>3 DEF OverlayInv, OverlayTypeOK
  <2>5. ASSUME rotations = 0, ~hurried PROVE Tells(r) /\ CallbacksFit(page, frames)'
    <3>1. Tells(page) /\ CallbacksFit(page, frames)
      BY <2>5 DEF OverlayInv
    <3>2. ASSUME NEW i \in DOMAIN t, t[i] \in {"show timeline", "show fields"}
          PROVE  i = Len(t) /\ page.view = "explorer" /\ (t[i] = "show fields" => ~page.sheet)
      <4>1. /\ i + 1 \in DOMAIN frames /\ frames[i + 1] = t[i] /\ i \in Nat
        BY <1>3
      <4>2. i + 1 = Len(frames) /\ page.view = "explorer" /\ (t[i] = "show fields" => ~page.sheet)
        BY <3>1, <3>2, <4>1 DEF CallbacksFit
      <4>3. i + 1 = Len(frames)
        BY <4>2
      <4>4. i = Len(t)
        BY ONLY <1>4, <4>1, <4>3
      <4> QED BY <4>2, <4>4
    <3>3. CallbacksFit(page, frames)'
      BY <1>6, <2>2, <2>3, <3>2 DEF CallbacksFit
    <3> QED BY <2>2, <3>1, <3>3
  <2>6. Backed(page)' /\ Returns(page)' /\ GivesBack
    BY <2>2, <2>3 DEF Backed, Returns, GivesBack
  <2>7. rotations' = 0 /\ ~hurried' => Tells(page)' /\ CallbacksFit(page, frames)'
    <3>1. Tells(r) => Tells(page)'
      BY <1>1, <2>3 DEF Tells
    <3> QED BY <1>1, <2>5, <3>1
  <2> QED BY <2>4, <2>6, <2>7 DEF OverlayInv
<1>7. CASE h = "show timeline"
  <2>1. page' = FocusSection(page, "timeline") /\ frames' = Append(t, "timeline")
    BY <1>7 DEF AnimationFrame, h, t
  <2> QED BY <1>5, <1>7, <2>1
<1>8. CASE h = "show fields"
  <2>1. page' = FocusSection(page, "fields") /\ frames' = Append(t, "fields")
    BY <1>8 DEF AnimationFrame, h, t
  <2> QED BY <1>5, <1>8, <2>1
<1>9. CASE h \notin {"show timeline", "show fields"}
  <2>1. page' = Focused(page, h) /\ frames' = t
    BY <1>9 DEF AnimationFrame, h, t
  <2> QED BY <1>6, <1>9, <2>1
<1> QED BY <1>7, <1>8, <1>9

LEMMA OtherOverlayStepsKeep ==
  ASSUME OverlayInv,
         \/ ClickBackdrop \/ Escape \/ SwitchLanguage \/ Rotate \/ RenderAgain
         \/ \E section \in Sections : ToggleSection(section)
  PROVE  OverlayInv' /\ GivesBack
<1>1. /\ page \in Page /\ past \in Seq(URL) /\ mobile \in BOOLEAN /\ Backed(page) /\ Returns(page)
      /\ rotations \in 0 .. Rotations /\ Rotations \in Nat
  BY OverlaysAssumption DEF OverlayInv, OverlayTypeOK
<1>2. CASE ClickBackdrop \/ Escape
  <2>1. Gesture(CloseMobileOverlay(page), <<>>) /\ past' \in Seq(URL)
    BY <1>1, <1>2 DEF ClickBackdrop, Escape
  <2> QED BY <1>1, <2>1, CloseKeeps
<1>3. CASE SwitchLanguage
  <2> DEFINE r == RenderAll(page)
             q == RenderAppView(r)
  <2>1. Gesture(q, <<>>) /\ past' \in Seq(URL)
    BY <1>1, <1>3 DEF SwitchLanguage
  <2>2. r \in Page /\ r.nav = page.nav /\ Backed(r) /\ Returns(r) /\ (Tells(page) => Tells(r))
    BY <1>1, RenderedIs, RenderTells DEF Same
  <2> HIDE DEF r
  <2>3. Backed(q) /\ Returns(q) /\ (Tells(page) => Tells(q)) /\ q.nav = page.nav
    BY <2>2, ViewRenderedIs, ViewTells DEF Same, Tells
  <2> HIDE DEF q
  <2> QED BY <2>1, <2>3, OpenKeeps
<1>4. CASE Rotate
  <2>1. /\ rotations' = rotations + 1 /\ rotations < Rotations /\ mobile' = ~mobile
        /\ UNCHANGED <<page, frames, past, hurried>>
    BY <1>4 DEF Rotate
  <2>2. rotations' \in 0 .. Rotations /\ rotations' # 0
    BY <1>1, <2>1
  <2>3. mobile' \in BOOLEAN
    BY <1>1, <2>1
  <2> QED BY <1>1, <2>1, <2>2, <2>3 DEF OverlayInv, OverlayTypeOK, Backed, Returns, GivesBack
<1>5. CASE RenderAgain
  <2> DEFINE r == RenderAll(page)
  <2>1. page' = r /\ UNCHANGED <<mobile, rotations, frames, past, hurried>>
    BY <1>5 DEF RenderAgain
  <2>2. /\ r \in Page /\ r.nav = page.nav /\ Backed(r) /\ Returns(r) /\ (Tells(page) => Tells(r))
        /\ r.view = page.view /\ r.sheet = page.sheet
    BY <1>1, RenderedIs, RenderTells DEF Same
  <2> HIDE DEF r
  <2>3. OverlayTypeOK'
    BY <2>1, <2>2 DEF OverlayInv, OverlayTypeOK
  <2>4. rotations' = 0 /\ ~hurried' => Tells(page)' /\ CallbacksFit(page, frames)'
    <3>1. (Tells(r) => Tells(page)') /\ (CallbacksFit(page, frames) => CallbacksFit(page, frames)')
      BY <2>1, <2>2 DEF Tells, CallbacksFit
    <3> QED BY <2>1, <2>2, <3>1 DEF OverlayInv
  <2> QED BY <2>1, <2>2, <2>3, <2>4 DEF OverlayInv, Backed, Returns, GivesBack
<1>6. ASSUME NEW section \in Sections, ToggleSection(section) PROVE OverlayInv' /\ GivesBack
  <2> DEFINE k == Clicked(page, "menu")
             q == [k EXCEPT !.collapsed = IF section \in @ THEN @ \ {section} ELSE @ \cup {section}]
  <2>1. Gesture(q, <<>>) /\ past' \in Seq(URL)
    BY <1>1, <1>6 DEF ToggleSection
  <2>2. k \in Page /\ k.nav = page.nav /\ Backed(k) /\ Returns(k) /\ (Tells(page) => Tells(k))
    <3>1. "menu" \in FocusPlaces
      BY DEF FocusPlaces
    <3> QED BY <1>1, <3>1, ClickTells, ClickedIs DEF Same
  <2> HIDE DEF k
  <2>3. q \in Page /\ Same(q, k, {"collapsed"})
    BY <2>2 DEF Page, Same
  <2> HIDE DEF q
  <2>4. Backed(q) /\ Returns(q) /\ (Tells(page) => Tells(q)) /\ q.nav = page.nav
    BY <2>2, <2>3 DEF Same, Backed, Returns, Tells
  <2> QED BY <2>1, <2>4, OpenKeeps
<1> QED BY <1>2, <1>3, <1>4, <1>5, <1>6

LEMMA OverlayNextKeeps == OverlayInv /\ [OverlayNext]_overlayVars => OverlayInv' /\ GivesBack
<1> SUFFICES ASSUME OverlayInv, [OverlayNext]_overlayVars PROVE OverlayInv' /\ GivesBack
  OBVIOUS
<1>1. CASE UNCHANGED overlayVars
  BY <1>1 DEF overlayVars, OverlayInv, OverlayTypeOK, Backed, Returns, Tells, CallbacksFit, GivesBack
<1>2. CASE Commit(page.hidden) \/ Commit(~page.hidden)
  <2>1. page.hidden \in BOOLEAN /\ (~page.hidden) \in BOOLEAN
    BY DEF OverlayInv, OverlayTypeOK, Page
  <2> QED BY <1>2, <2>1, CommitKeeps
<1>3. CASE OverlayNext
  BY <1>2, <1>3, MenuKeeps, LinkKeeps, ToggleKeeps, BackKeeps, CallbackKeeps,
     OtherOverlayStepsKeep DEF OverlayNext
<1> QED BY <1>1, <1>3

\* Backdrop, drawer and sheet agree whatever happens; until the phone is turned
\* or a gesture comes before the callbacks of the last, panel, sheet, address and
\* marked link tell one page.
THEOREM OverlaysStayInStep == OverlaySpec => []OverlaysAgree
<1>1. OverlayInv => OverlaysAgree
  BY DEF OverlayInv, OverlaysAgree, Backed, Tells, ViewOf, BackdropTellsOverlay, SheetShowsFields,
         AddressTellsPage, ActiveTellsView
<1> QED BY <1>1, OverlayInitInv, OverlayNextKeeps, PTL DEF OverlaySpec

\* closeMobileOverlay gives the focus back to the menu button, from wherever the
\* drawer is closed: it stays on no link off the screen.
THEOREM FocusComesBack == OverlaySpec => DrawerGivesFocusBack
<1>1. OverlayInv /\ [OverlayNext]_overlayVars =>
        [ClickFocuses /\ page.nav /\ ~page'.nav => page'.focus # "link"]_overlayVars
  BY OverlayNextKeeps DEF GivesBack
<1> QED BY <1>1, OverlayInitInv, OverlayNextKeeps, PTL DEF OverlaySpec, DrawerGivesFocusBack
-----------------------------------------------------------------------------
(* The timeline. *)

\* How much time a bar is.
Width(r) == (r.to - r.from) \div Bars

LEMMA WidthIs ==
  ASSUME NEW r \in Ranges
  PROVE  /\ r.from \in Nat /\ r.to \in Nat /\ r.from < r.to
         /\ Width(r) \in Nat \ {0} /\ r.to = r.from + Bars * Width(r)
<1>1. /\ Bars \in Nat \ {0} /\ r.from \in Nat /\ r.to \in Nat /\ r.from < r.to
      /\ (r.to - r.from) % Bars = 0
  BY TimelineDragAssumption
<1>2. \A d \in Nat \ {0}, b \in Nat \ {0} :
        d % b = 0 => d \div b \in Nat \ {0} /\ d = b * (d \div b)
  OBVIOUS
<1>3. r.to - r.from \in Nat \ {0}
  BY <1>1
<1>4. Width(r) \in Nat \ {0} /\ r.to - r.from = Bars * Width(r)
  BY <1>1, <1>2, <1>3 DEF Width
<1> QED BY <1>1, <1>4

\* Places of the chart are times of its range, in their order.
LEMMA TimesAreOrdered ==
  ASSUME NEW r \in Ranges, NEW x \in ChartPlaces, NEW y \in ChartPlaces
  PROVE  /\ TimeAt(x, r) \in Nat /\ r.from <= TimeAt(x, r) /\ TimeAt(x, r) <= r.to
         /\ x < y => TimeAt(x, r) < TimeAt(y, r)
<1> DEFINE w == Width(r)
<1>1. /\ r.from \in Nat /\ r.to \in Nat /\ w \in Nat \ {0} /\ r.to = r.from + Bars * w
      /\ Bars \in Nat
  BY WidthIs, TimelineDragAssumption
<1>2. TimeAt(x, r) = r.from + x * w /\ TimeAt(y, r) = r.from + y * w
  BY DEF TimeAt, Width
<1>3. x \in Nat /\ y \in Nat /\ x <= Bars /\ y <= Bars
  BY <1>1 DEF ChartPlaces
<1> HIDE DEF w
<1>4. \A a, b \in Nat : (a <= b => a * w <= b * w) /\ (a < b => a * w < b * w)
  BY <1>1
<1>5. x * w \in Nat /\ y * w \in Nat /\ Bars * w \in Nat /\ x * w <= Bars * w
  BY <1>1, <1>3, <1>4
<1>6. x < y => x * w < y * w
  BY <1>3, <1>4
<1> QED BY <1>1, <1>2, <1>5, <1>6

\* A click that is due will be suppressed: its timeout comes after it.
ClicksSuppressed == click # -1 => suppress

\* While a drag is under way, nothing was chosen since its press.
DragsFresh == start # -1 => choices = 0

ChartInv == ChartAgrees /\ ClicksSuppressed /\ DragsFresh

\* What a drawing leaves.
ChartDrawn == /\ mark' = FALSE /\ shade' \in TimeRange /\ cursor'.index \in -1 .. Bars - 1
         /\ ShadeInChart' /\ BadgeTellsCursor'

LEMMA RenderDraws ==
  ASSUME NEW r \in Ranges \cup {NoRange}, NEW asked \in TimeRange,
         range' = r, RenderTimeline(r, asked)
  PROVE  ChartDrawn
<1>1. CASE r = NoRange
  BY <1>1, TimelineDragAssumption
     DEF RenderTimeline, ChartDrawn, ShadeInChart, BadgeTellsCursor, NoCursor, TimeRange
<1>2. CASE r # NoRange
  <2>1. r \in Ranges /\ r \in [from : Nat, to : Nat] /\ r.from <= r.to
    BY <1>2, WidthIs, TimelineDragAssumption
  <2>2. /\ TimelineSelection(r, asked) \in [from : Nat, to : Nat]
        /\ r.from <= TimelineSelection(r, asked).from
        /\ TimelineSelection(r, asked).from <= TimelineSelection(r, asked).to
        /\ TimelineSelection(r, asked).to <= r.to
    <3>1. CASE asked = NoRange
      BY <2>1, <3>1 DEF TimelineSelection
    <3>2. CASE asked # NoRange
      <4> DEFINE left == Clamp(asked.from, r)
      <4> DEFINE end == Clamp(asked.to, r)
      <4>1. asked.from \in Nat /\ asked.to \in Nat
        BY <3>2 DEF TimeRange
      <4>2. left \in Nat /\ end \in Nat /\ r.from <= left /\ left <= r.to /\ r.from <= end /\ end <= r.to
        BY <2>1, <4>1 DEF Clamp
      <4>3. TimelineSelection(r, asked) = [from |-> left, to |-> IF left > end THEN left ELSE end]
        BY <3>2 DEF TimelineSelection
      <4> HIDE DEF left, end
      <4> QED BY <4>2, <4>3
    <3> QED BY <3>1, <3>2
  <2>3. shade' = TimelineSelection(r, asked) /\ cursor' = Middle(r) /\ mark' = FALSE
    BY <1>2 DEF RenderTimeline
  <2>4. Middle(r).index \in 0 .. Bars - 1 /\ Middle(r) = CursorAt(Middle(r).index, r)
    BY TimelineDragAssumption DEF Middle, CursorAt
  <2> QED BY <1>2, <2>2, <2>3, <2>4 DEF ChartDrawn, ShadeInChart, BadgeTellsCursor, TimeRange
<1> QED BY <1>1, <1>2

\* A bucket of a drawn bar is a range that is not empty.
LEMMA BucketsForward ==
  ASSUME NEW r \in Ranges, NEW i \in 0 .. Bars - 1
  PROVE  /\ Bucket(Bar(i, r)) \in [from : Nat, to : Nat]
         /\ Bucket(Bar(i, r)).from < Bucket(Bar(i, r)).to
<1>1. i \in ChartPlaces /\ i + 1 \in ChartPlaces /\ i < i + 1
  BY TimelineDragAssumption DEF ChartPlaces
<1> QED BY <1>1, TimesAreOrdered DEF Bucket, Bar

LEMMA ChartInitInv == ChartInit => ChartInv
<1> SUFFICES ASSUME ChartInit PROVE ChartInv
  OBVIOUS
<1>1. cursor.index \in -1 .. Bars - 1
  BY TimelineDragAssumption DEF ChartInit, NoCursor
<1>2. ChartTypeOK
  <2>1. /\ range \in Ranges \cup {NoRange} /\ {search, shade} \subseteq TimeRange
        /\ start \in {-1} \cup ChartPlaces /\ pointer \in {NoPointer} \cup Pointers
        /\ start = -1 /\ pointer = NoPointer
    BY DEF ChartInit, TimeRange
  <2>2. /\ pressed \in {NoBar} \cup [index : 0 .. Bars - 1, range : Ranges]
        /\ mark \in BOOLEAN /\ suppress \in BOOLEAN
    BY DEF ChartInit
  <2>3. /\ timers \in 0 .. MaxTimers /\ click \in {-1} \cup ChartPlaces
        /\ choices \in 0 .. 2 /\ meant \in Nat \cup {-1}
    BY TimelineDragAssumption DEF ChartInit
  <2> QED BY <1>1, <2>1, <2>2, <2>3 DEF ChartTypeOK
<1> QED BY <1>2, TimelineDragAssumption
        DEF ChartInit, ChartInv, ChartAgrees, ChoosesOnce, SearchesForwards, ShadeInChart,
            BadgeTellsCursor, MarkIsOfDrag, ClicksSuppressed, DragsFresh

\* A range that is chosen, with what the gesture leaves.
LEMMA SelectKeeps ==
  ASSUME ChartInv, NEW r \in [from : Nat, to : Nat], r.from < r.to, Select(r), UNCHANGED <<range, meant>>,
         choices = 0, start' = -1, pointer' = NoPointer, pressed' = NoBar,
         suppress' \in BOOLEAN, timers' \in 0 .. MaxTimers, click' \in {-1} \cup ChartPlaces,
         click' # -1 => suppress'
  PROVE  ChartInv'
<1>1. ChartDrawn
  BY RenderDraws DEF Select, ChartInv, ChartAgrees, ChartTypeOK, TimeRange
<1>2. r # NoRange
  <2> SUFFICES ASSUME r = NoRange PROVE FALSE
    OBVIOUS
  <2>1. r.from = -1
    BY DEF NoRange
  <2>2. r.from \in Nat /\ \A v \in Nat : v # -1
    OBVIOUS
  <2> QED BY ONLY <2>1, <2>2
<1>3. search' = r /\ choices' = 1 /\ range' = range /\ meant' = meant
  BY DEF Select
<1>4. ChartTypeOK'
  <2>1. search' \in TimeRange
    BY <1>3 DEF TimeRange
  <2>2. /\ pressed' \in {NoBar} \cup [index : 0 .. Bars - 1, range : Ranges]
        /\ choices' \in 0 .. 2
    BY <1>3
  <2>3. mark' \in BOOLEAN
    BY <1>1 DEF ChartDrawn
  <2>4. start' = -1 <=> pointer' = NoPointer
    OBVIOUS
  <2> QED BY <1>1, <1>3, <2>1, <2>2, <2>3, <2>4 DEF ChartDrawn, ChartInv, ChartAgrees, ChartTypeOK
<1> QED BY <1>1, <1>2, <1>3, <1>4
   DEF ChartDrawn, ChartInv, ChartAgrees, ChoosesOnce, SearchesForwards, MarkIsOfDrag,
       ClicksSuppressed, DragsFresh

\* A drawing from outside: an answer, or a search that is asked for.
LEMMA RedrawKeeps ==
  ASSUME ChartInv, range' \in Ranges \cup {NoRange}, search' \in TimeRange,
         search' # NoRange => search'.from < search'.to,
         RenderTimeline(range', search'), UNCHANGED <<clicks, start, pointer, pressed, choices, meant>>
  PROVE  ChartInv'
<1>1. ChartDrawn
  BY RenderDraws
<1> QED BY <1>1
   DEF ChartDrawn, ChartInv, ChartAgrees, ChartTypeOK, ChoosesOnce, SearchesForwards,
       MarkIsOfDrag, ClicksSuppressed, DragsFresh, clicks

\* A step that draws nothing but the mark, cursor and badge.
LEMMA PointerKeeps ==
  ASSUME ChartInv, UNCHANGED <<range, search, shade>>,
         cursor' = cursor \/ \E i \in 0 .. Bars - 1 : cursor' = CursorAt(i, range),
         start' \in {-1} \cup ChartPlaces, pointer' \in {NoPointer} \cup Pointers,
         start' = -1 <=> pointer' = NoPointer,
         pressed' \in {NoBar} \cup [index : 0 .. Bars - 1, range : Ranges],
         mark' \in BOOLEAN, mark' => start' # -1,
         suppress' \in BOOLEAN, timers' \in 0 .. MaxTimers, click' \in {-1} \cup ChartPlaces,
         click' # -1 => suppress',
         choices' = choices \/ choices' = 0, start' # -1 => choices' = 0,
         meant' \in Nat \cup {-1}
  PROVE  ChartInv'
<1>1. cursor'.index \in -1 .. Bars - 1 /\ BadgeTellsCursor'
  <2>1. CASE cursor' = cursor
    BY <2>1 DEF ChartInv, ChartAgrees, ChartTypeOK, BadgeTellsCursor
  <2>2. ASSUME NEW i \in 0 .. Bars - 1, cursor' = CursorAt(i, range)
        PROVE  cursor'.index \in -1 .. Bars - 1 /\ BadgeTellsCursor'
    BY <2>2, TimelineDragAssumption DEF BadgeTellsCursor, CursorAt
  <2> QED BY <2>1, <2>2
<1> QED BY <1>1
   DEF ChartInv, ChartAgrees, ChartTypeOK, ChoosesOnce, SearchesForwards, ShadeInChart,
       MarkIsOfDrag, ClicksSuppressed, DragsFresh

\* What Suppress leaves of the clicks.
LEMMA SuppressesClick ==
  ASSUME ChartInv, NEW x \in ChartPlaces, Suppress(x), timers < MaxTimers
  PROVE  /\ suppress' = TRUE /\ timers' \in 0 .. MaxTimers
         /\ click' \in {-1} \cup ChartPlaces
BY TimelineDragAssumption DEF Suppress, ChartInv, ChartAgrees, ChartTypeOK

LEMMA ReleaseOnBarKeeps ==
  ASSUME ChartInv, NEW p \in Pointers, ReleaseOnBar(p) PROVE ChartInv'
<1>1. CASE pressed = NoBar
  BY <1>1, PointerKeeps DEF ReleaseOnBar, Cleanup, clicks, ChartInv, ChartAgrees,
                            ChartTypeOK, ClicksSuppressed
<1>2. CASE pressed # NoBar
  <2>1. /\ start \in ChartPlaces /\ choices = 0
        /\ pressed \in [index : 0 .. Bars - 1, range : Ranges]
    BY <1>2 DEF ReleaseOnBar, ChartInv, ChartAgrees, ChartTypeOK, DragsFresh
  <2>2. pressed = Bar(pressed.index, pressed.range)
    BY <2>1 DEF Bar
  <2>3. Bucket(pressed) \in [from : Nat, to : Nat] /\ Bucket(pressed).from < Bucket(pressed).to
    BY <2>1, <2>2, BucketsForward
  <2>4. /\ start' = -1 /\ pointer' = NoPointer /\ pressed' = NoBar
        /\ Suppress(start) /\ Select(Bucket(pressed)) /\ UNCHANGED <<range, meant>>
        /\ timers < MaxTimers
    BY <1>2 DEF ReleaseOnBar
  <2> QED BY <2>1, <2>3, <2>4, SuppressesClick, SelectKeeps
<1> QED BY <1>1, <1>2

LEMMA ReleaseDragKeeps ==
  ASSUME ChartInv, NEW p \in Pointers, NEW x \in ChartPlaces, ReleaseDrag(p, x) PROVE ChartInv'
<1>1. CASE range = NoRange
  BY <1>1, PointerKeeps DEF ReleaseDrag, Cleanup, clicks, ChartInv, ChartAgrees,
                            ChartTypeOK, ClicksSuppressed
<1>2. CASE range # NoRange
  <2>1. start \in ChartPlaces /\ start # x /\ choices = 0 /\ range \in Ranges
    BY <1>2 DEF ReleaseDrag, ChartInv, ChartAgrees, ChartTypeOK, DragsFresh
  <2>2. start \in Nat /\ x \in Nat
    BY <2>1, TimelineDragAssumption DEF ChartPlaces
  <2>3. Dragged(start, x) \in [from : Nat, to : Nat] /\ Dragged(start, x).from < Dragged(start, x).to
    <3>1. CASE start < x
      BY <2>1, <3>1, TimesAreOrdered DEF Dragged
    <3>2. CASE x < start
      BY <2>1, <2>2, <3>2, TimesAreOrdered DEF Dragged
    <3> QED BY <2>1, <2>2, <3>1, <3>2
  <2>4. /\ start' = -1 /\ pointer' = NoPointer /\ pressed' = NoBar
        /\ Suppress(x) /\ Select(Dragged(start, x)) /\ UNCHANGED <<range, meant>>
        /\ timers < MaxTimers
    BY <1>2 DEF ReleaseDrag
  <2> QED BY <2>1, <2>3, <2>4, SuppressesClick, SelectKeeps
<1> QED BY <1>1, <1>2

LEMMA ChartNextKeeps == ChartInv /\ [ChartNext]_chartVars => ChartInv'
<1> SUFFICES ASSUME ChartInv, [ChartNext]_chartVars PROVE ChartInv'
  OBVIOUS
<1> USE DEF ChartInv, ChartAgrees, ChartTypeOK
<1>1. ASSUME NEW r \in Ranges, Answer(r) PROVE ChartInv'
  BY <1>1, RedrawKeeps DEF Answer, gesture, SearchesForwards
<1>2. ASSUME NEW keep \in BOOLEAN, Ask(keep) PROVE ChartInv'
  BY <1>2, RedrawKeeps DEF Ask, gesture, TimeRange
<1>3. ASSUME NEW p \in Pointers, NEW x \in ChartPlaces, NEW onBar \in BOOLEAN, Press(p, x, onBar)
      PROVE  ChartInv'
  <2>1. range \in Ranges /\ x \in Nat /\ x # -1 /\ p # NoPointer /\ Bars \in Nat
    BY <1>3, TimelineDragAssumption DEF Press, ChartPlaces
  <2>2. pressed' \in {NoBar} \cup [index : 0 .. Bars - 1, range : Ranges]
    BY <1>3, <2>1 DEF Press, Bar
  <2>3. meant' \in Nat
    BY <1>3, <2>1, TimesAreOrdered DEF Press
  <2> QED BY <1>3, <2>1, <2>2, <2>3, PointerKeeps DEF Press, clicks
<1>4. ASSUME NEW p \in Pointers, Drag(p) PROVE ChartInv'
  BY <1>4, PointerKeeps DEF Drag, gesture, clicks, DragsFresh
<1>5. CASE Cancel
  BY <1>5, PointerKeeps DEF Cancel, Cleanup, clicks
<1>6. CASE SuppressTimer
  <2>1. timers' \in 0 .. MaxTimers
    BY <1>6, TimelineDragAssumption DEF SuppressTimer
  <2> QED BY <1>6, <2>1, PointerKeeps DEF SuppressTimer, gesture, DragsFresh, MarkIsOfDrag
<1>7. CASE ClickBar
  BY <1>7, PointerKeeps DEF ClickBar, ClicksSuppressed, DragsFresh, MarkIsOfDrag
<1>8. CASE Leave
  <2>1. Bars \div 2 \in 0 .. Bars - 1
    BY TimelineDragAssumption
  <2> QED BY <1>8, <2>1, PointerKeeps DEF Leave, Middle, gesture, clicks, DragsFresh, MarkIsOfDrag
<1>9. ASSUME NEW i \in 0 .. Bars - 1, KeyOnBar(i) PROVE ChartInv'
  <2>1. Bucket(Bar(i, range)) \in [from : Nat, to : Nat]
        /\ Bucket(Bar(i, range)).from < Bucket(Bar(i, range)).to
    BY <1>9, BucketsForward DEF KeyOnBar
  <2> QED BY <1>9, <2>1, RedrawKeeps DEF KeyOnBar, gesture, TimeRange
<1>10. ASSUME NEW i \in 0 .. Bars - 1, PointAt(i) PROVE ChartInv'
  BY <1>10, PointerKeeps DEF PointAt, gesture, clicks, DragsFresh, MarkIsOfDrag
<1>11. CASE UNCHANGED chartVars
  BY <1>11, PointerKeeps DEF chartVars, DragsFresh, MarkIsOfDrag, ClicksSuppressed
<1> QED BY <1>1, <1>2, <1>3, <1>4, <1>5, <1>6, <1>7, <1>8, <1>9, <1>10, <1>11,
           ReleaseOnBarKeeps, ReleaseDragKeeps DEF ChartNext

\* Whatever the pointer, the answers and the timeouts do in whatever order, a
\* press chooses one range at most, not empty or reversed; shade, badge and mark
\* are those of the chart as drawn.
THEOREM ChartIsSound == ChartSpec => []ChartAgrees
<1>1. ChartInv => ChartAgrees
  BY DEF ChartInv
<1> QED BY <1>1, ChartInitInv, ChartNextKeeps, PTL DEF ChartSpec
-----------------------------------------------------------------------------
(* The query editor. *)

LEMMA Least ==
  ASSUME NEW I, IsFiniteSet(I), I \subseteq Int, I # {}
  PROVE  \E x \in I : \A y \in I : x <= y
<1> DEFINE n == Cardinality(I)
<1>1. /\ n \in Nat
      /\ \A k \in 1 .. n : Place(I, k) \in I
      /\ \A k, l \in 1 .. n : k < l => Place(I, k) < Place(I, l)
      /\ \A i \in I : \E k \in 1 .. n : Place(I, k) = i
  BY PlaceIs
<1> HIDE DEF n
<1>2. 1 \in 1 .. n
  <2>1. PICK i \in I : TRUE
    OBVIOUS
  <2>2. PICK k \in 1 .. n : Place(I, k) = i
    BY <1>1
  <2>3. n \in Nat /\ k \in 1 .. n
    BY <1>1, <2>2
  <2> QED BY ONLY <2>3
<1>3. ASSUME NEW y \in I PROVE Place(I, 1) <= y
  <2>1. PICK k \in 1 .. n : Place(I, k) = y
    BY <1>1
  <2>2. CASE k = 1
    BY <1>1, <1>2, <2>1, <2>2
  <2>3. CASE k # 1
    <3>1. 1 < k
      BY <2>3
    <3>2. Place(I, 1) < y /\ Place(I, 1) \in Int /\ y \in Int
      BY <1>1, <1>2, <2>1, <3>1
    <3> QED BY <3>2
  <2> QED BY <2>2, <2>3
<1> QED BY <1>1, <1>2, <1>3

\* The first number up to n that is n or outside of a set.
LEMMA FirstOut ==
  ASSUME NEW n \in Nat, NEW I
  PROVE  \E k \in 0 .. n : (k < n => k \notin I) /\ \A j \in 0 .. k - 1 : j \in I
<1> DEFINE out == {k \in 0 .. n : k < n => k \notin I}
<1>1. n \in out /\ out \in SUBSET (0 .. n) /\ out \subseteq Int
  OBVIOUS
<1>2. IsFiniteSet(0 .. n)
  <2>1. 0 \in Int /\ n \in Int
    OBVIOUS
  <2> QED BY <2>1, FS_Interval
<1>3. \A k \in 0 .. n : k \in out <=> (k < n => k \notin I)
  OBVIOUS
<1> HIDE DEF out
<1>4. IsFiniteSet(out)
  BY <1>1, <1>2, FS_Subset
<1>5. PICK x \in out : \A y \in out : x <= y
  BY <1>1, <1>4, Least
<1>6. x \in 0 .. n /\ (x < n => x \notin I)
  BY <1>1, <1>3
<1>7. ASSUME NEW j \in 0 .. x - 1 PROVE j \in I
  <2>1. j \in 0 .. n /\ j < n /\ ~(x <= j)
    BY <1>6
  <2> QED BY <1>3, <1>5, <2>1
<1> QED BY <1>6, <1>7

LEMMA TrailingIs ==
  ASSUME NEW S, NEW line \in Seq(S), NEW set
  PROVE  /\ Trailing(line, set) \in 0 .. Len(line) /\ Len(line) \in Nat
         /\ \A i \in Len(line) - Trailing(line, set) + 1 .. Len(line) : line[i] \in set
         /\ Trailing(line, set) < Len(line) => line[Len(line) - Trailing(line, set)] \notin set
<1> DEFINE n == Len(line)
           I == {k \in 0 .. n : line[n - k] \in set}
           Ends(k) == /\ \A i \in n - k + 1 .. n : line[i] \in set
                      /\ k < n => line[n - k] \notin set
<1>1. n \in Nat
  OBVIOUS
<1>2. PICK k \in 0 .. n : (k < n => k \notin I) /\ \A j \in 0 .. k - 1 : j \in I
  BY <1>1, FirstOut
<1>3. ASSUME NEW i \in n - k + 1 .. n PROVE line[i] \in set
  <2>1. n - i \in 0 .. k - 1 /\ n - (n - i) = i
    BY <1>1
  <2>2. n - i \in I
    BY <1>2, <2>1
  <2> QED BY <2>1, <2>2
<1>4. k < n => line[n - k] \notin set
  BY <1>2
<1>5. \E j \in 0 .. n : Ends(j)
  BY <1>3, <1>4
<1>6. Trailing(line, set) = CHOOSE j \in 0 .. n : Ends(j)
  BY DEF Trailing
<1> HIDE DEF Ends
<1>7. Trailing(line, set) \in 0 .. n /\ Ends(Trailing(line, set))
  BY <1>5, <1>6
<1> QED BY <1>1, <1>7 DEF Ends

LEMMA LineStartIs ==
  ASSUME NEW S, NEW before \in Seq(S)
  PROVE  LineStart(before) \in 0 .. Len(before) /\ Len(before) \in Nat
<1> DEFINE n == Len(before)
           k == Trailing(before, S \ {Newline})
           Starts(i) == /\ i > 0 => before[i] = Newline
                        /\ \A j \in i + 1 .. n : before[j] # Newline
<1>1. /\ k \in 0 .. n /\ n \in Nat
      /\ \A i \in n - k + 1 .. n : before[i] \in S \ {Newline}
      /\ k < n => before[n - k] \notin S \ {Newline}
  BY TrailingIs
<1> HIDE DEF k
<1>2. n - k \in 0 .. n
  BY <1>1
<1>3. ASSUME n - k > 0 PROVE before[n - k] = Newline
  <2>1. k < n /\ n - k \in 1 .. n
    BY <1>1, <1>3
  <2>2. before[n - k] \in S
    BY <2>1
  <2> QED BY <1>1, <2>1, <2>2
<1>4. Starts(n - k)
  BY <1>1, <1>3
<1>5. LineStart(before) = CHOOSE i \in 0 .. n : Starts(i)
  BY DEF LineStart
<1> HIDE DEF Starts
<1>6. LineStart(before) \in 0 .. n
  BY <1>2, <1>4, <1>5
<1> QED BY <1>1, <1>6

\* What is left of a sequence from one place to another.
LEMMA PartIs ==
  ASSUME NEW S, NEW s \in Seq(S), NEW a \in Int, NEW b \in Int, 1 <= a, b <= Len(s)
  PROVE  /\ SubSeq(s, a, b) \in Seq(S)
         /\ Len(SubSeq(s, a, b)) = (IF a <= b THEN b - a + 1 ELSE 0)
         /\ \A i \in 1 .. b - a + 1 : SubSeq(s, a, b)[i] = s[a + i - 1]
<1>1. \A i \in a .. b : s[i] \in S
  BY ElementOfSeq
<1> QED BY <1>1, SubSeqProperties

Blanks == {Blank, Newline}

Leading(rest) ==
  CHOOSE k \in 0 .. Len(rest) : /\ \A i \in 1 .. k : rest[i] \in Blanks
                                /\ k < Len(rest) => rest[k + 1] \notin Blanks

LEMMA LeadingIs ==
  ASSUME NEW S, NEW rest \in Seq(S)
  PROVE  /\ Leading(rest) \in 0 .. Len(rest) /\ Len(rest) \in Nat
         /\ \A i \in 1 .. Leading(rest) : rest[i] \in Blanks
         /\ Leading(rest) < Len(rest) => rest[Leading(rest) + 1] \notin Blanks
<1> DEFINE n == Len(rest)
           I == {k \in 0 .. n : rest[k + 1] \in Blanks}
           Begs(k) == /\ \A i \in 1 .. k : rest[i] \in Blanks
                      /\ k < n => rest[k + 1] \notin Blanks
<1>1. n \in Nat
  OBVIOUS
<1>2. PICK k \in 0 .. n : (k < n => k \notin I) /\ \A j \in 0 .. k - 1 : j \in I
  BY <1>1, FirstOut
<1>3. ASSUME NEW i \in 1 .. k PROVE rest[i] \in Blanks
  <2>1. i - 1 \in 0 .. k - 1 /\ i - 1 + 1 = i
    BY <1>1
  <2>2. i - 1 \in I
    BY <1>2, <2>1
  <2> QED BY <2>1, <2>2
<1>4. k < n => rest[k + 1] \notin Blanks
  BY <1>2
<1>5. \E j \in 0 .. n : Begs(j)
  BY <1>3, <1>4
<1>6. Leading(rest) = CHOOSE j \in 0 .. n : Begs(j)
  BY DEF Leading
<1> HIDE DEF Begs
<1>7. Leading(rest) \in 0 .. n /\ Begs(Leading(rest))
  BY <1>5, <1>6
<1> QED BY <1>1, <1>7 DEF Begs

\* What has no blank at either end is trimmed already.
LEMMA TrimmedIs ==
  ASSUME NEW S, NEW w \in Seq(S),
         w # <<>> => w[1] \notin Blanks /\ w[Len(w)] \notin Blanks
  PROVE  Trim(w) = w
<1> DEFINE n == Len(w)
           k == Trailing(w, Blanks)
           rest == Front0(w, k)
           l == Leading(rest)
<1>1. Trim(w) = SubSeq(rest, l + 1, Len(rest))
  BY DEF Trim, Leading, Blanks
<1>2. /\ k \in 0 .. n /\ n \in Nat /\ \A i \in n - k + 1 .. n : w[i] \in Blanks
  BY TrailingIs
<1>3. w # <<>> <=> n # 0
  BY EmptySeq
<1> HIDE DEF k
<1>4. k = 0
  <2> SUFFICES ASSUME k # 0 PROVE FALSE
    OBVIOUS
  <2>1. n \in n - k + 1 .. n /\ n # 0
    BY <1>2
  <2> QED BY <1>2, <1>3, <2>1
<1>5. rest = w
  <2>1. rest = SubSeq(w, 1, n)
    BY <1>2, <1>4 DEF Front0
  <2> QED BY <2>1, SubSeqFull
<1> HIDE DEF rest
<1>6. l \in 0 .. n /\ \A i \in 1 .. l : w[i] \in Blanks
  BY <1>5, LeadingIs
<1> HIDE DEF l
<1>7. l = 0
  <2> SUFFICES ASSUME l # 0 PROVE FALSE
    OBVIOUS
  <2>1. 1 \in 1 .. l /\ n # 0
    BY <1>2, <1>6
  <2> QED BY <1>3, <1>6, <2>1
<1>8. Trim(w) = SubSeq(w, 1, Len(w))
  BY <1>1, <1>5, <1>7
<1> QED BY <1>8, SubSeqFull

LEMMA TrimIs ==
  ASSUME NEW S, NEW v \in Seq(S)
  PROVE  Trim(v) \in Seq(S) /\ Len(Trim(v)) <= Len(v) /\ Trim(Trim(v)) = Trim(v)
<1> DEFINE n == Len(v)
           k == Trailing(v, Blanks)
           rest == Front0(v, k)
           l == Leading(rest)
           m == Len(rest)
           w == SubSeq(rest, l + 1, m)
<1>1. Trim(v) = w
  BY DEF Trim, Leading, Blanks
<1>2. k \in 0 .. n /\ n \in Nat /\ (k < n => v[n - k] \notin Blanks)
  BY TrailingIs
<1> HIDE DEF k
<1>3. /\ rest \in Seq(S) /\ m = n - k /\ \A i \in 1 .. m : rest[i] = v[i]
  <2>1. n - k \in Int /\ n - k <= n /\ 1 \in Int /\ 0 <= n - k
    BY <1>2
  <2>2. /\ SubSeq(v, 1, n - k) \in Seq(S)
        /\ Len(SubSeq(v, 1, n - k)) = (IF 1 <= n - k THEN n - k - 1 + 1 ELSE 0)
        /\ \A i \in 1 .. n - k - 1 + 1 : SubSeq(v, 1, n - k)[i] = v[1 + i - 1]
    BY <2>1, PartIs
  <2>3. rest = SubSeq(v, 1, n - k)
    BY DEF Front0
  <2> HIDE DEF rest
  <2>4. m = n - k
    BY <2>1, <2>2, <2>3
  <2>5. \A i \in 1 .. m : rest[i] = v[i]
    <3>1. \A i \in 1 .. m : i \in 1 .. n - k - 1 + 1 /\ 1 + i - 1 = i
      BY <2>1, <2>4
    <3> QED BY <2>2, <2>3, <3>1
  <2> QED BY <2>2, <2>3, <2>4, <2>5
<1> HIDE DEF rest
<1>4. /\ l \in 0 .. m /\ m \in Nat
      /\ l < m => rest[l + 1] \notin Blanks
  BY <1>3, LeadingIs
<1> HIDE DEF l
<1>5. /\ w \in Seq(S)
      /\ Len(w) = (IF l + 1 <= m THEN m - (l + 1) + 1 ELSE 0)
      /\ \A i \in 1 .. m - (l + 1) + 1 : w[i] = rest[l + 1 + i - 1]
  <2>1. l + 1 \in Int /\ m \in Int /\ 1 <= l + 1 /\ m <= m
    BY <1>4
  <2> QED BY <1>3, <2>1, PartIs
<1> HIDE DEF w
<1>6. Len(w) = m - l /\ Len(w) <= n
  <2>1. l \in 0 .. m /\ m \in Nat /\ m = n - k /\ k \in 0 .. n /\ n \in Nat
    BY <1>2, <1>3, <1>4
  <2>2. Len(w) = (IF l + 1 <= m THEN m - (l + 1) + 1 ELSE 0)
    BY <1>5
  <2> QED BY ONLY <2>1, <2>2
<1>7. ASSUME w # <<>> PROVE w[1] \notin Blanks /\ w[Len(w)] \notin Blanks
  <2>1. Len(w) # 0
    BY <1>5, <1>7, EmptySeq
  <2>2. l < m /\ 1 \in 1 .. m - (l + 1) + 1 /\ l + 1 + 1 - 1 = l + 1
    BY <1>4, <1>6, <2>1
  <2>3. w[1] \notin Blanks
    BY <1>4, <1>5, <2>2
  <2>4. Len(w) \in 1 .. m - (l + 1) + 1 /\ l + 1 + Len(w) - 1 = m /\ m \in 1 .. m
    BY <1>4, <1>6, <2>2
  <2>5. w[Len(w)] = rest[m]
    BY <1>5, <2>4
  <2>6. k < n /\ m = n - k
    BY <1>2, <1>3, <1>4, <2>2
  <2>7. w[Len(w)] \notin Blanks
    BY <1>2, <1>3, <2>4, <2>5, <2>6
  <2> QED BY <2>3, <2>7
<1>8. Trim(w) = w
  BY <1>5, <1>7, TrimmedIs
<1> QED BY <1>1, <1>5, <1>6, <1>8

LEMMA CutIs ==
  ASSUME NEW S, NEW line \in Seq(S), NEW k \in 0 .. Len(line)
  PROVE  /\ Front0(line, k) \in Seq(S) /\ Len(Front0(line, k)) = Len(line) - k
         /\ \A i \in 1 .. Len(line) - k : Front0(line, k)[i] = line[i]
<1> DEFINE n == Len(line)
<1>1. n \in Nat /\ k \in 0 .. n
  OBVIOUS
<1>2. n - k \in Int /\ n - k <= n /\ 1 \in Int /\ 0 <= n - k
  BY <1>1
<1>3. /\ SubSeq(line, 1, n - k) \in Seq(S)
      /\ Len(SubSeq(line, 1, n - k)) = (IF 1 <= n - k THEN n - k - 1 + 1 ELSE 0)
      /\ \A i \in 1 .. n - k - 1 + 1 : SubSeq(line, 1, n - k)[i] = line[1 + i - 1]
  BY <1>2, PartIs
<1>4. Front0(line, k) = SubSeq(line, 1, n - k)
  BY DEF Front0
<1>5. \A i \in 1 .. n - k : i \in 1 .. n - k - 1 + 1 /\ 1 + i - 1 = i
  BY <1>2
<1>6. Len(Front0(line, k)) = n - k
  BY <1>2, <1>3, <1>4
<1>7. \A i \in 1 .. n - k : Front0(line, k)[i] = line[i]
  BY <1>3, <1>4, <1>5
<1> QED BY <1>3, <1>4, <1>6, <1>7

LEMMA EndIs ==
  ASSUME NEW S, NEW line \in Seq(S), NEW k \in 0 .. Len(line)
  PROVE  /\ SubSeq(line, Len(line) - k + 1, Len(line)) \in Seq(S)
         /\ Len(SubSeq(line, Len(line) - k + 1, Len(line))) = k
         /\ \A i \in 1 .. k : SubSeq(line, Len(line) - k + 1, Len(line))[i] = line[Len(line) - k + i]
<1> DEFINE n == Len(line)
           r == SubSeq(line, n - k + 1, n)
<1>1. n \in Nat /\ k \in 0 .. n
  OBVIOUS
<1>2. PICK a \in Int : a = n - k + 1 /\ 1 <= a /\ n \in Int /\ n <= n
  <2>1. n - k + 1 \in Int /\ 1 <= n - k + 1 /\ n \in Int /\ n <= n
    BY <1>1
  <2> HIDE DEF n
  <2> QED BY <2>1
<1>3. /\ r \in Seq(S) /\ Len(r) = (IF a <= n THEN n - a + 1 ELSE 0)
      /\ \A i \in 1 .. n - a + 1 : r[i] = line[a + i - 1]
  <2>1. /\ SubSeq(line, a, n) \in Seq(S)
        /\ Len(SubSeq(line, a, n)) = (IF a <= n THEN n - a + 1 ELSE 0)
        /\ \A i \in 1 .. n - a + 1 : SubSeq(line, a, n)[i] = line[a + i - 1]
    BY <1>2, PartIs
  <2>2. r = SubSeq(line, a, n)
    BY <1>2
  <2> HIDE DEF r
  <2> QED BY <2>1, <2>2
<1> HIDE DEF r
<1>4. Len(r) = k
  BY <1>1, <1>2, <1>3
<1>5. \A i \in 1 .. k : i \in 1 .. n - a + 1 /\ a + i - 1 = n - k + i
  BY <1>1, <1>2
<1>6. \A i \in 1 .. k : r[i] = line[n - k + i]
  BY <1>3, <1>5
<1> QED BY <1>3, <1>4, <1>6 DEF r

\* The line before its last lexemes of a set.
LEMMA BeforeIs ==
  ASSUME NEW S, NEW line \in Seq(S), NEW set
  PROVE  /\ Trailing(line, set) \in 0 .. Len(line)
         /\ Front0(line, Trailing(line, set)) \in Seq(S)
         /\ Len(Front0(line, Trailing(line, set))) = Len(line) - Trailing(line, set)
         /\ Len(Front0(line, Trailing(line, set))) \in 0 .. Len(line)
         /\ \A i \in 1 .. Len(Front0(line, Trailing(line, set))) :
              Front0(line, Trailing(line, set))[i] = line[i]
         /\ \A i \in Len(Front0(line, Trailing(line, set))) + 1 .. Len(line) : line[i] \in set
<1> DEFINE n == Len(line)
           k == Trailing(line, set)
           rest == Front0(line, k)
<1>1. k \in 0 .. n /\ n \in Nat /\ \A i \in n - k + 1 .. n : line[i] \in set
  BY TrailingIs
<1> HIDE DEF k
<1>2. rest \in Seq(S) /\ Len(rest) = n - k /\ \A i \in 1 .. n - k : rest[i] = line[i]
  BY <1>1, CutIs
<1> HIDE DEF rest
<1>3. Len(rest) \in 0 .. n
  BY <1>1, <1>2
<1> QED BY <1>1, <1>2, <1>3 DEF k, rest

\* A whole line "field operator value", place by place.
LEMMA ClauseIs ==
  ASSUME NEW S, NEW line \in Seq(S), Clause(line).is, NEW known, Known(Clause(line).field, known)
  PROVE  /\ Clause(line).value \in Seq(S)
         /\ ValueStart(line, Clause(line).value) \in 0 .. Len(line)
         /\ \A i \in ValueStart(line, Clause(line).value) + 1 .. Len(line) : line[i] \in Words
         /\ \E o \in 1 .. ValueStart(line, Clause(line).value) : \E f \in 1 .. o - 1 :
              /\ line[o] \in Range(Operators) /\ line[f] = Clause(line).field[1]
              /\ \A j \in f + 1 .. ValueStart(line, Clause(line).value) : j = o \/ line[j] = Blank
<1> DEFINE n == Len(line)
           v == Trailing(line, Words)
           rest == Front0(line, v)
           b == Trailing(rest, {Blank})
           upToOp == Front0(line, v + b)
           upToField == IF upToOp = <<>> THEN <<>> ELSE Front(upToOp)
           name == Front0(upToField, Trailing(upToField, {Blank}))
           field == Trailing(name, Words)
           fieldRun == SubSeq(name, Len(name) - field + 1, Len(name))
           run == SubSeq(line, n - v + 1, n)
           u == Len(upToOp)
           m == Len(name)
<1>1. /\ upToOp # <<>> /\ Last(upToOp) \in Range(Operators) /\ field > 0
      /\ Clause(line).field = fieldRun /\ Clause(line).value = run
  BY DEF Clause
<1>2. /\ v \in 0 .. n /\ n \in Nat /\ rest \in Seq(S) /\ Len(rest) = n - v
      /\ \A i \in 1 .. Len(rest) : rest[i] = line[i]
      /\ \A i \in Len(rest) + 1 .. n : line[i] \in Words
  BY BeforeIs
<1>3. run \in Seq(S) /\ Len(run) = v
  BY <1>2, EndIs
<1>4. ValueStart(line, run) = n - v
  BY <1>3 DEF ValueStart
<1> HIDE DEF v, rest, run
<1>5. b \in 0 .. Len(rest) /\ \A i \in Len(rest) - b + 1 .. Len(rest) : rest[i] \in {Blank}
  BY <1>2, TrailingIs
<1> HIDE DEF b
<1>6. v + b \in 0 .. n
  BY <1>2, <1>5
<1>7. upToOp \in Seq(S) /\ u = n - (v + b) /\ \A i \in 1 .. n - (v + b) : upToOp[i] = line[i]
  BY <1>6, CutIs
<1> HIDE DEF upToOp
<1>8. u # 0 /\ u \in Nat
  BY <1>1, <1>7, EmptySeq
<1>9. \A j \in u + 1 .. n - v : line[j] = Blank
  <2> SUFFICES ASSUME NEW j \in u + 1 .. n - v PROVE line[j] = Blank
    OBVIOUS
  <2>1. j \in Len(rest) - b + 1 .. Len(rest) /\ j \in 1 .. Len(rest)
    BY <1>2, <1>5, <1>7, <1>8
  <2> QED BY <1>2, <1>5, <2>1
<1>10. line[u] \in Range(Operators)
  <2>1. Last(upToOp) = upToOp[u]
    BY DEF Last
  <2>2. u \in 1 .. n - (v + b)
    BY <1>7, <1>8
  <2> QED BY <1>1, <1>7, <2>1, <2>2
<1>11. upToField = Front0(upToOp, 1)
  BY <1>1 DEF Front, Front0
<1>12. upToField \in Seq(S) /\ Len(upToField) = u - 1 /\ \A i \in 1 .. u - 1 : upToField[i] = upToOp[i]
  <2>1. 1 \in 0 .. u
    BY <1>8
  <2>2. /\ Front0(upToOp, 1) \in Seq(S) /\ Len(Front0(upToOp, 1)) = u - 1
        /\ \A i \in 1 .. u - 1 : Front0(upToOp, 1)[i] = upToOp[i]
    BY <1>7, <2>1, CutIs
  <2> QED BY <1>11, <2>2
<1> HIDE DEF upToField
<1>13. /\ name \in Seq(S) /\ m \in 0 .. u - 1
       /\ \A i \in 1 .. m : name[i] = upToField[i]
       /\ \A i \in m + 1 .. u - 1 : upToField[i] \in {Blank}
  <2>1. /\ name \in Seq(S) /\ m \in 0 .. Len(upToField)
        /\ \A i \in 1 .. m : name[i] = upToField[i]
        /\ \A i \in m + 1 .. Len(upToField) : upToField[i] \in {Blank}
    BY <1>12, BeforeIs
  <2> QED BY <1>12, <2>1
<1> HIDE DEF name
<1>14. field \in 0 .. m
  BY <1>13, TrailingIs
<1> HIDE DEF field
<1>15. fieldRun \in Seq(S) /\ Len(fieldRun) = field /\ \A i \in 1 .. field : fieldRun[i] = name[m - field + i]
  BY <1>13, <1>14, EndIs
<1> HIDE DEF fieldRun
<1>16. Len(fieldRun) = 1
  BY <1>1 DEF Known
<1>17. m \in 1 .. u - 1 /\ m - field + 1 = m
  BY <1>8, <1>13, <1>14, <1>15, <1>16
<1>18. line[m] = fieldRun[1]
  <2>1. fieldRun[1] = name[m - field + 1] /\ 1 \in 1 .. field
    BY <1>15, <1>16
  <2>2. m \in 1 .. m /\ m \in 1 .. n - (v + b)
    BY <1>7, <1>17
  <2> QED BY <1>7, <1>12, <1>13, <1>17, <2>1, <2>2
<1>19. ASSUME NEW j \in m + 1 .. n - v PROVE j = u \/ line[j] = Blank
  <2>1. CASE j \in u + 1 .. n - v
    BY <1>9, <2>1
  <2>2. CASE j \in m + 1 .. u - 1
    <3>1. j \in 1 .. u - 1 /\ j \in 1 .. n - (v + b)
      BY <1>7, <1>17, <2>2
    <3> QED BY <1>7, <1>12, <1>13, <2>2, <3>1
  <2>3. j = u \/ j \in u + 1 .. n - v \/ j \in m + 1 .. u - 1
    BY <1>7, <1>17
  <2> QED BY <2>1, <2>2, <2>3
<1>20. n - v \in 0 .. n /\ u \in 1 .. n - v /\ Len(rest) = n - v
  BY <1>2, <1>5, <1>7, <1>8
<1>21. \E o \in 1 .. n - v : \E f \in 1 .. o - 1 :
         /\ line[o] \in Range(Operators) /\ line[f] = fieldRun[1]
         /\ \A j \in f + 1 .. n - v : j = o \/ line[j] = Blank
  <2>1. m \in 1 .. u - 1 /\ u \in 1 .. n - v
    BY <1>17, <1>20
  <2>2. \E f \in 1 .. u - 1 :
          /\ line[u] \in Range(Operators) /\ line[f] = fieldRun[1]
          /\ \A j \in f + 1 .. n - v : j = u \/ line[j] = Blank
    BY <1>10, <1>18, <1>19, <2>1
  <2> DEFINE Behind(o) == \E f \in 1 .. o - 1 :
                  /\ line[o] \in Range(Operators) /\ line[f] = fieldRun[1]
                  /\ \A j \in f + 1 .. n - v : j = o \/ line[j] = Blank
  <2>3. u \in 1 .. n - v /\ Behind(u)
    BY <2>1, <2>2
  <2> HIDE DEF Behind
  <2>4. \E o \in 1 .. n - v : Behind(o)
    BY <2>3
  <2> QED BY <2>4 DEF Behind
<1>22. /\ Clause(line).value = run /\ ValueStart(line, Clause(line).value) = n - v
       /\ Clause(line).field[1] = fieldRun[1]
  BY <1>1, <1>4
<1>23. \A i \in n - v + 1 .. n : line[i] \in Words
  BY <1>2
<1> HIDE DEF n
<1> QED BY <1>3, <1>20, <1>21, <1>22, <1>23 DEF n

\* A line that is one word, with blanks around it.
LEMMA NameIs ==
  ASSUME NEW S, NEW line \in Seq(S), Name(line).is
  PROVE  /\ Name(line).start \in 0 .. Len(line)
         /\ \A i \in Name(line).start + 1 .. Len(line) : line[i] \in Words \cup {Blank}
<1> DEFINE n == Len(line)
           rest == Front0(line, Trailing(line, {Blank}))
           field == Trailing(rest, Words)
           begin == Len(rest) - field
<1>1. Name(line).start = begin
  BY DEF Name
<1>2. /\ n \in Nat /\ rest \in Seq(S) /\ Len(rest) \in 0 .. n
      /\ \A i \in 1 .. Len(rest) : rest[i] = line[i]
      /\ \A i \in Len(rest) + 1 .. n : line[i] \in {Blank}
  BY BeforeIs
<1> HIDE DEF rest
<1>3. field \in 0 .. Len(rest) /\ \A i \in Len(rest) - field + 1 .. Len(rest) : rest[i] \in Words
  BY <1>2, TrailingIs
<1> HIDE DEF field
<1>4. begin \in 0 .. n
  BY <1>2, <1>3
<1>5. ASSUME NEW i \in begin + 1 .. n PROVE line[i] \in Words \cup {Blank}
  <2>1. i \in Len(rest) + 1 .. n \/ (i \in begin + 1 .. Len(rest) /\ i \in 1 .. Len(rest))
    BY <1>2, <1>3
  <2> QED BY <1>2, <1>3, <2>1
<1> QED BY <1>1, <1>4, <1>5

KeywordLexemes == UNION {Range(k.replacement) : k \in Range(Keywords)}

TextLexemes == UNION {Range(t) : t \in QueryTexts}

\* The lexemes of the texts and of the suggestions.
Lexeme == Words \cup Typed \cup {Quoted[w] : w \in Words} \cup {Blank, Newline}
            \cup Range(Operators) \cup KeywordLexemes \cup TextLexemes

Suggestions == [replacement : Seq(Lexeme), from : Nat, to : Nat, at : Nat]

\* A place where the word may be put as a value: behind a field it is a value of
\* and an operator, with blanks around them.
BehindItsField(word, value, from) ==
  \E o \in 1 .. from : \E f \in 1 .. o - 1 :
    /\ value[o] \in Range(Operators)
    /\ value[f] \in DOMAIN ValuesOf /\ word \in Range(ValuesOf[value[f]])
    /\ \A j \in f + 1 .. from : j = o \/ value[j] = Blank

\* What a suggestion for a text and a place in it may replace, and with what.
Fits(s, value, at) ==
  /\ s \in Suggestions /\ s.from \in 0 .. at /\ s.to = at
  /\ \A i \in s.from + 1 .. at : value[i] \in Words \cup {Blank}
  /\ \A word \in Words : s.replacement = <<Quoted[word]>> => BehindItsField(word, value, s.from)

LEMMA SuggestionIs ==
  ASSUME NEW replacement \in Seq(Lexeme), NEW from \in Nat, NEW to \in Nat, NEW at \in Nat
  PROVE  /\ Suggestion(replacement, from, to, at) \in Suggestions
         /\ Suggestion(replacement, from, to, at).replacement = replacement
         /\ Suggestion(replacement, from, to, at).from = from
         /\ Suggestion(replacement, from, to, at).to = to
  BY DEF Suggestion, Suggestions

\* What a list of labels matches is some of them.
LEMMA MatchingIs ==
  ASSUME NEW S, NEW labels \in Seq(S), NEW run
  PROVE  /\ Matching(labels, run) \in Seq(S)
         /\ Range(Matching(labels, run)) \subseteq Range(labels)
<1> DEFINE I == {i \in DOMAIN labels : Begins(run, labels[i])}
<1>1. I \in SUBSET (1 .. Len(labels)) /\ DOMAIN labels = 1 .. Len(labels)
  OBVIOUS
<1>2. Matching(labels, run) = Kept(labels, I)
  BY DEF Matching
<1> HIDE DEF I
<1>3. Kept(labels, I) \in Seq(S) /\ Range(Kept(labels, I)) = {labels[i] : i \in I}
  BY <1>1, KeptIs
<1>4. \A i \in I : labels[i] \in Range(labels)
  BY <1>1 DEF Range
<1> QED BY <1>2, <1>3, <1>4

LEMMA OneLexeme ==
  ASSUME NEW x
  PROVE  Len(<<x>>) = 1 /\ <<x>>[1] = x /\ \A S : x \in S => <<x>> \in Seq(S)
  OBVIOUS

\* Values are only offered behind the field they are values of.
LEMMA ValuesFit ==
  ASSUME NEW value \in Seq(Lexeme), NEW at \in 0 .. Len(value), NEW from \in 0 .. at, NEW run,
         NEW field, NEW f0, NEW o \in 1 .. from, f0 \in 1 .. o - 1,
         value[o] \in Range(Operators), value[f0] = field[1],
         \A j \in f0 + 1 .. from : j = o \/ value[j] = Blank,
         \A i \in from + 1 .. at : value[i] \in Words
  PROVE  /\ ValueSuggestions(field, run, from, at) \in Seq(Suggestions)
         /\ \A i \in 1 .. Len(ValueSuggestions(field, run, from, at)) :
              Fits(ValueSuggestions(field, run, from, at)[i], value, at)
<1> DEFINE r == ValueSuggestions(field, run, from, at)
           found == Matching(ValuesOf[field[1]], run)
<1>1. CASE ~Known(field, DOMAIN ValuesOf)
  <2>1. r = <<>>
    BY <1>1 DEF ValueSuggestions
  <2> HIDE DEF r
  <2>2. r \in Seq(Suggestions) /\ Len(r) = 0
    BY <2>1, EmptySeq
  <2> QED BY <2>2 DEF r
<1>2. CASE Known(field, DOMAIN ValuesOf)
  <2>1. field[1] \in DOMAIN ValuesOf
    BY <1>2 DEF Known
  <2>2. ValuesOf[field[1]] \in Seq(Words)
    BY <2>1, QueryEditorAssumption
  <2>3. found \in Seq(Words) /\ Range(found) \subseteq Range(ValuesOf[field[1]])
    BY <2>2, MatchingIs
  <2>4. r = [i \in DOMAIN found |-> Suggestion(<<Quoted[found[i]]>>, from, at, 1)]
    BY <1>2 DEF ValueSuggestions, Each
  <2> HIDE DEF found, r
  <2>5. Len(found) \in Nat /\ DOMAIN found = 1 .. Len(found)
    BY <2>3
  <2>6. DOMAIN r = 1 .. Len(found) /\ r = [i \in 1 .. Len(found) |-> r[i]]
    BY <2>4, <2>5
  <2>7. ASSUME NEW i \in 1 .. Len(found) PROVE Fits(r[i], value, at)
    <3> DEFINE q == Quoted[found[i]]
    <3>1. found[i] \in Words /\ found[i] \in Range(ValuesOf[field[1]])
      <4>1. i \in DOMAIN found
        BY <2>5
      <4>2. found[i] \in Range(found)
        BY <4>1 DEF Range
      <4>3. found[i] \in Words
        BY <2>3, <2>5
      <4> QED BY <2>3, <4>2, <4>3
    <3>2. q \in Lexeme
      BY <3>1 DEF Lexeme
    <3>3. r[i] = Suggestion(<<q>>, from, at, 1)
      BY <2>4, <2>5
    <3> HIDE DEF q
    <3>4. <<q>> \in Seq(Lexeme) /\ <<q>>[1] = q
      BY <3>2, OneLexeme
    <3> DEFINE t == <<q>>
    <3>5. t \in Seq(Lexeme) /\ r[i] = Suggestion(t, from, at, 1) /\ t[1] = q
      BY <3>3, <3>4
    <3> HIDE DEF t
    <3>6. from \in Nat /\ at \in Nat /\ 1 \in Nat
      OBVIOUS
    <3>7. /\ r[i] \in Suggestions /\ r[i].replacement = t /\ r[i].from = from /\ r[i].to = at
      <4>1. /\ Suggestion(t, from, at, 1) \in Suggestions
            /\ Suggestion(t, from, at, 1).replacement = t
            /\ Suggestion(t, from, at, 1).from = from
            /\ Suggestion(t, from, at, 1).to = at
        BY <3>5, <3>6 DEF Suggestion, Suggestions
      <4> QED BY <3>5, <4>1
    <3>8. ASSUME NEW word \in Words, r[i].replacement = <<Quoted[word]>>
          PROVE  BehindItsField(word, value, from)
      <4>1. t = <<Quoted[word]>>
        BY <3>7, <3>8
      <4>2. <<Quoted[word]>>[1] = Quoted[word]
        BY OneLexeme
      <4>3. q = Quoted[word]
        BY <3>5, <4>1, <4>2
      <4>4. word = found[i]
        BY <3>1, <4>3, QuotedAssumption DEF q
      <4>5. value[f0] \in DOMAIN ValuesOf /\ word \in Range(ValuesOf[value[f0]])
        BY <2>1, <3>1, <4>4
      <4> QED BY <4>5 DEF BehindItsField
    <3>9. \A j \in from + 1 .. at : value[j] \in Words \cup {Blank}
      OBVIOUS
    <3> QED BY <3>7, <3>8, <3>9 DEF Fits
  <2>8. \A i \in 1 .. Len(found) : r[i] \in Suggestions
    BY <2>7 DEF Fits
  <2>9. r \in [1 .. Len(found) -> Suggestions]
    BY <2>6, <2>8
  <2>10. r \in Seq(Suggestions) /\ Len(r) = Len(found)
    BY <2>5, <2>9
  <2> QED BY <2>7, <2>10 DEF r
<1> QED BY <1>1, <1>2

ListFits(r, value, at) == r \in Seq(Suggestions) /\ \A i \in 1 .. Len(r) : Fits(r[i], value, at)

LEMMA EachFits ==
  ASSUME NEW value, NEW at, NEW n \in Nat, NEW r, DOMAIN r = 1 .. n, r = [i \in 1 .. n |-> r[i]],
         \A i \in 1 .. n : Fits(r[i], value, at)
  PROVE  ListFits(r, value, at)
<1>1. r \in [1 .. n -> Suggestions]
  BY DEF Fits
<1>2. r \in Seq(Suggestions) /\ Len(r) = n
  BY <1>1
<1> QED BY <1>2 DEF ListFits

\* Lists of suggestions one after the other.
LEMMA BothFit ==
  ASSUME NEW value, NEW at, NEW a, NEW b, ListFits(a, value, at), ListFits(b, value, at)
  PROVE  ListFits(a \o b, value, at)
<1>1. /\ a \in Seq(Suggestions) /\ b \in Seq(Suggestions)
      /\ \A i \in 1 .. Len(a) : Fits(a[i], value, at)
      /\ \A i \in 1 .. Len(b) : Fits(b[i], value, at)
  BY DEF ListFits
<1>2. /\ a \o b \in Seq(Suggestions) /\ Len(a \o b) = Len(a) + Len(b)
      /\ \A i \in 1 .. Len(a) + Len(b) :
           (a \o b)[i] = IF i <= Len(a) THEN a[i] ELSE b[i - Len(a)]
  BY <1>1, ConcatProperties
<1> DEFINE c == a \o b
<1> HIDE DEF c
<1>3. Len(a) \in Nat /\ Len(b) \in Nat
  BY <1>1
<1>4. ASSUME NEW i \in 1 .. Len(c) PROVE Fits(c[i], value, at)
  <2>1. CASE i <= Len(a)
    <3>1. c[i] = a[i] /\ i \in 1 .. Len(a)
      BY <1>2, <1>3, <2>1 DEF c
    <3> QED BY <1>1, <3>1
  <2>2. CASE ~(i <= Len(a))
    <3>1. c[i] = b[i - Len(a)] /\ i - Len(a) \in 1 .. Len(b)
      BY <1>2, <1>3, <2>2 DEF c
    <3> QED BY <1>1, <3>1
  <2> QED BY <2>1, <2>2
<1> QED BY <1>2, <1>4 DEF ListFits, c

\* A suggestion that is not a value, for the words and blanks before a place.
LEMMA OtherFits ==
  ASSUME NEW value, NEW at \in Nat, NEW from \in 0 .. at, NEW replacement \in Seq(Lexeme),
         NEW caretAt \in Nat,
         \A i \in from + 1 .. at : value[i] \in Words \cup {Blank},
         \A word \in Words : replacement # <<Quoted[word]>>
  PROVE  Fits(Suggestion(replacement, from, at, caretAt), value, at)
<1> DEFINE s == Suggestion(replacement, from, at, caretAt)
<1>1. from \in Nat
  OBVIOUS
<1>2. s \in Suggestions /\ s.replacement = replacement /\ s.from = from /\ s.to = at
  BY <1>1 DEF Suggestion, Suggestions
<1> HIDE DEF s
<1>3. Fits(s, value, at)
  BY <1>2 DEF Fits
<1> QED BY <1>3 DEF s

LEMMA OperatorsFit ==
  ASSUME NEW value, NEW at \in Nat, NEW from \in 0 .. at, NEW field \in Lexeme,
         \A i \in from + 1 .. at : value[i] \in Words \cup {Blank}
  PROVE  ListFits(OperatorSuggestions(field, from, at), value, at)
<1> DEFINE r == OperatorSuggestions(field, from, at)
<1>1. Operators \in Seq(Range(Operators))
  BY QueryEditorAssumption
<1>2. Len(Operators) \in Nat /\ DOMAIN Operators = 1 .. Len(Operators)
  BY <1>1
<1>3. r = [i \in DOMAIN Operators |-> Suggestion(<<field, Blank, Operators[i], Blank>>, from, at, 4)]
  BY DEF OperatorSuggestions, Each
<1> HIDE DEF r
<1>4. DOMAIN r = 1 .. Len(Operators) /\ r = [i \in 1 .. Len(Operators) |-> r[i]]
  BY <1>2, <1>3
<1>5. ASSUME NEW i \in 1 .. Len(Operators) PROVE Fits(r[i], value, at)
  <2> DEFINE op == Operators[i]  t == <<field, Blank, op, Blank>>
  <2>1. op \in Range(Operators)
    BY <1>2 DEF Range
  <2>2. op \in Lexeme /\ Blank \in Lexeme
    BY <2>1 DEF Lexeme
  <2> HIDE DEF op
  <2>3. t \in Seq(Lexeme) /\ Len(t) = 4
    BY <2>2
  <2>4. r[i] = Suggestion(t, from, at, 4)
    BY <1>2, <1>3 DEF op
  <2> HIDE DEF t
  <2>5. ASSUME NEW word \in Words PROVE t # <<Quoted[word]>>
    <3>1. Len(<<Quoted[word]>>) = 1
      BY OneLexeme
    <3> QED BY <2>3, <3>1
  <2> QED BY <2>3, <2>4, <2>5, OtherFits
<1>6. ListFits(r, value, at)
  BY <1>2, <1>4, <1>5, EachFits
<1> QED BY <1>6 DEF r

LEMMA FieldsFit ==
  ASSUME NEW value, NEW at \in Nat, NEW from \in 0 .. at, NEW run,
         \A i \in from + 1 .. at : value[i] \in Words \cup {Blank}
  PROVE  ListFits(Each(Matching(Fields, run), LAMBDA field : Suggestion(<<field>>, from, at, 1)),
                  value, at)
<1> DEFINE found == Matching(Fields, run)
           r == [i \in DOMAIN found |-> Suggestion(<<found[i]>>, from, at, 1)]
<1>1. found \in Seq(Words)
  BY QueryEditorAssumption, MatchingIs
<1> HIDE DEF found
<1>2. Len(found) \in Nat /\ DOMAIN found = 1 .. Len(found)
  BY <1>1
<1>3. DOMAIN r = 1 .. Len(found) /\ r = [i \in 1 .. Len(found) |-> r[i]]
  BY <1>2
<1>4. ASSUME NEW i \in 1 .. Len(found) PROVE Fits(r[i], value, at)
  <2> DEFINE t == <<found[i]>>
  <2>1. found[i] \in Words /\ found[i] \in Lexeme
    BY <1>1, <1>2 DEF Lexeme
  <2>2. t \in Seq(Lexeme) /\ t[1] = found[i]
    BY <2>1, OneLexeme
  <2>3. r[i] = Suggestion(t, from, at, 1)
    BY <1>2
  <2> HIDE DEF t
  <2>4. ASSUME NEW word \in Words PROVE t # <<Quoted[word]>>
    <3>1. <<Quoted[word]>>[1] = Quoted[word]
      BY OneLexeme
    <3>2. Quoted[word] # found[i]
      BY <2>1, QuotedAssumption
    <3> QED BY <2>2, <3>1, <3>2
  <2> QED BY <2>2, <2>3, <2>4, OtherFits
<1> HIDE DEF r
<1>5. ListFits(r, value, at)
  BY <1>2, <1>3, <1>4, EachFits
<1>6. Each(found, LAMBDA field : Suggestion(<<field>>, from, at, 1)) = r
  BY DEF Each, r
<1> QED BY <1>5, <1>6 DEF found

LEMMA KeywordsFit ==
  ASSUME NEW value, NEW at \in Nat, NEW from \in 0 .. at, NEW run,
         \A i \in from + 1 .. at : value[i] \in Words \cup {Blank}
  PROVE  ListFits(Each(Kept(Keywords, {i \in DOMAIN Keywords : Begins(run, Keywords[i].label)}),
                       LAMBDA k : Suggestion(k.replacement, from, at, k.at)), value, at)
<1> DEFINE I == {i \in DOMAIN Keywords : Begins(run, Keywords[i].label)}
           found == Kept(Keywords, I)
           r == [i \in DOMAIN found |-> Suggestion(found[i].replacement, from, at, found[i].at)]
<1>1. Keywords \in Seq(Range(Keywords))
  BY QueryEditorAssumption
<1>2. I \in SUBSET (1 .. Len(Keywords))
  BY <1>1
<1> HIDE DEF I
<1>3. found \in Seq(Range(Keywords))
  BY <1>1, <1>2, KeptIs
<1> HIDE DEF found
<1>4. Len(found) \in Nat /\ DOMAIN found = 1 .. Len(found)
  BY <1>3
<1>5. DOMAIN r = 1 .. Len(found) /\ r = [i \in 1 .. Len(found) |-> r[i]]
  BY <1>4
<1>6. ASSUME NEW i \in 1 .. Len(found) PROVE Fits(r[i], value, at)
  <2> DEFINE k == found[i]
  <2>1. k \in Range(Keywords)
    BY <1>3, <1>4
  <2>2. r[i] = Suggestion(k.replacement, from, at, k.at)
    BY <1>4
  <2> HIDE DEF k
  <2>3. k.at \in Nat /\ k.replacement \in Seq(Range(k.replacement))
    BY <2>1, QueryEditorAssumption
  <2>4. Range(k.replacement) \subseteq Lexeme
    <3>1. Range(k.replacement) \subseteq KeywordLexemes
      BY <2>1 DEF KeywordLexemes
    <3> QED BY <3>1 DEF Lexeme
  <2>5. k.replacement \in Seq(Lexeme)
    BY <2>3, <2>4
  <2>6. \A word \in Words : k.replacement # <<Quoted[word]>>
    BY <2>1, QuotedAssumption
  <2> QED BY <2>2, <2>3, <2>5, <2>6, OtherFits
<1> HIDE DEF r
<1>7. ListFits(r, value, at)
  BY <1>4, <1>5, <1>6, EachFits
<1>8. Each(found, LAMBDA k : Suggestion(k.replacement, from, at, k.at)) = r
  BY DEF Each, r
<1> QED BY <1>7, <1>8 DEF found, I

\* The line up to a place in a text, and where it starts.
LEMMA LineIs ==
  ASSUME NEW S, NEW value \in Seq(S), NEW at \in 0 .. Len(value)
  PROVE  \E begin \in 0 .. at :
           /\ LineStart(SubSeq(value, 1, at)) = begin
           /\ SubSeq(SubSeq(value, 1, at), begin + 1, at) \in Seq(S)
           /\ Len(SubSeq(SubSeq(value, 1, at), begin + 1, at)) = at - begin
           /\ \A i \in 1 .. at - begin : SubSeq(SubSeq(value, 1, at), begin + 1, at)[i] = value[begin + i]
<1> DEFINE before == SubSeq(value, 1, at)
           begin == LineStart(before)
           line == SubSeq(before, begin + 1, at)
<1>1. at \in Nat /\ Len(value) \in Nat /\ at <= Len(value) /\ at \in Int /\ 1 \in Int /\ 1 <= 1
  OBVIOUS
<1>2. /\ before \in Seq(S) /\ Len(before) = (IF 1 <= at THEN at - 1 + 1 ELSE 0)
      /\ \A i \in 1 .. at - 1 + 1 : before[i] = value[1 + i - 1]
  BY <1>1, PartIs
<1> HIDE DEF before
<1>3. Len(before) = at
  BY <1>1, <1>2
<1>4. \A i \in 1 .. at : before[i] = value[i]
  <2>1. \A i \in 1 .. at : i \in 1 .. at - 1 + 1 /\ 1 + i - 1 = i
    BY <1>1
  <2> QED BY <1>2, <2>1
<1>5. begin \in 0 .. at
  BY <1>2, <1>3, LineStartIs
<1> HIDE DEF begin
<1>6. begin + 1 \in Int /\ 1 <= begin + 1
  BY <1>5
<1>7. /\ line \in Seq(S) /\ Len(line) = (IF begin + 1 <= at THEN at - (begin + 1) + 1 ELSE 0)
      /\ \A i \in 1 .. at - (begin + 1) + 1 : line[i] = before[begin + 1 + i - 1]
  BY <1>1, <1>2, <1>3, <1>6, PartIs
<1> HIDE DEF line
<1>8. Len(line) = at - begin
  BY <1>1, <1>5, <1>7
<1>9. ASSUME NEW i \in 1 .. at - begin PROVE line[i] = value[begin + i]
  <2>1. i \in 1 .. at - (begin + 1) + 1 /\ begin + 1 + i - 1 = begin + i /\ begin + i \in 1 .. at
    BY <1>1, <1>5
  <2> QED BY <1>4, <1>7, <2>1
<1> QED BY <1>5, <1>7, <1>8, <1>9 DEF line, begin, before

\* buildQuerySuggestions: whatever it offers fits the text and the place.
LEMMA BuildIs ==
  ASSUME NEW value \in Seq(Lexeme), NEW at \in 0 .. Len(value)
  PROVE  ListFits(BuildQuerySuggestions(value, at), value, at)
<1> DEFINE before == SubSeq(value, 1, at)
           lineStart == LineStart(before)
           line == SubSeq(before, lineStart + 1, at)
           n == Len(line)
           v == Trailing(line, Words)
           run == SubSeq(line, n - v + 1, n)
           begin == at - Len(run)
           clause == Clause(line)
           name == Name(line)
           from == lineStart + ValueStart(line, clause.value)
           r == BuildQuerySuggestions(value, at)
           fields == Each(Matching(Fields, run), LAMBDA field : Suggestion(<<field>>, begin, at, 1))
           keywords == Each(Kept(Keywords, {i \in DOMAIN Keywords : Begins(run, Keywords[i].label)}),
                            LAMBDA k : Suggestion(k.replacement, begin, at, k.at))
<1>1. r = IF clause.is THEN ValueSuggestions(clause.field, clause.value, from, at)
          ELSE IF name.is /\ Known(name.field, Range(Fields))
          THEN OperatorSuggestions(name.field[1], lineStart + name.start, at)
          ELSE fields \o keywords
  BY DEF BuildQuerySuggestions
<1>2. /\ lineStart \in 0 .. at /\ line \in Seq(Lexeme) /\ n = at - lineStart
      /\ \A i \in 1 .. at - lineStart : line[i] = value[lineStart + i]
  <2>1. PICK s \in 0 .. at :
          /\ LineStart(SubSeq(value, 1, at)) = s
          /\ SubSeq(SubSeq(value, 1, at), s + 1, at) \in Seq(Lexeme)
          /\ Len(SubSeq(SubSeq(value, 1, at), s + 1, at)) = at - s
          /\ \A i \in 1 .. at - s : SubSeq(SubSeq(value, 1, at), s + 1, at)[i] = value[s + i]
    BY LineIs
  <2>2. lineStart = s
    BY <2>1
  <2> QED BY <2>1, <2>2
<1>3. v \in 0 .. n /\ \A i \in n - v + 1 .. n : line[i] \in Words
  BY <1>2, TrailingIs
<1>4. Len(run) = v
  BY <1>2, <1>3, EndIs
<1>5. at \in Nat /\ Len(value) \in Nat /\ at <= Len(value)
  OBVIOUS
<1> HIDE DEF r, fields, keywords, line, lineStart, v, run, clause, name
<1>6. ASSUME NEW i \in lineStart + 1 .. at
      PROVE  i - lineStart \in 1 .. n /\ value[i] = line[i - lineStart]
  <2>1. i - lineStart \in 1 .. at - lineStart /\ lineStart + (i - lineStart) = i
    BY <1>2, <1>5
  <2> QED BY <1>2, <2>1
<1>7. CASE clause.is
  <2>1. r = ValueSuggestions(clause.field, clause.value, from, at)
    BY <1>1, <1>7
  <2>2. CASE ~Known(clause.field, DOMAIN ValuesOf)
    <3>1. r = <<>>
      BY <2>1, <2>2 DEF ValueSuggestions
    <3>2. r \in Seq(Suggestions) /\ Len(r) = 0
      BY <3>1, EmptySeq
    <3> QED BY <3>2 DEF ListFits, r
  <2>3. CASE Known(clause.field, DOMAIN ValuesOf)
    <3> DEFINE w == ValueStart(line, clause.value)
    <3>1. /\ w \in 0 .. n /\ \A i \in w + 1 .. n : line[i] \in Words
          /\ \E o \in 1 .. w : \E f \in 1 .. o - 1 :
               /\ line[o] \in Range(Operators) /\ line[f] = clause.field[1]
               /\ \A j \in f + 1 .. w : j = o \/ line[j] = Blank
      BY <1>2, <1>7, <2>3, ClauseIs DEF clause
    <3> HIDE DEF w
    <3>2. PICK o \in 1 .. w : \E f \in 1 .. o - 1 :
               /\ line[o] \in Range(Operators) /\ line[f] = clause.field[1]
               /\ \A j \in f + 1 .. w : j = o \/ line[j] = Blank
      BY <3>1
    <3>3. PICK f \in 1 .. o - 1 :
               /\ line[o] \in Range(Operators) /\ line[f] = clause.field[1]
               /\ \A j \in f + 1 .. w : j = o \/ line[j] = Blank
      BY <3>2
    <3>4. from = lineStart + w /\ from \in 0 .. at
      <4>1. from = lineStart + w
        BY DEF w
      <4> HIDE DEF from
      <4>2. w \in 0 .. n /\ n = at - lineStart /\ lineStart \in 0 .. at /\ at \in Nat
        BY <1>2, <1>5, <3>1
      <4>3. lineStart + w \in 0 .. at
        BY ONLY <4>2
      <4> QED BY <4>1, <4>3
    <3> HIDE DEF from
    <3>5. /\ o \in 1 .. at - lineStart /\ f \in 1 .. at - lineStart
          /\ lineStart + o \in 1 .. from /\ lineStart + f \in 1 .. lineStart + o - 1
      BY <1>2, <1>5, <3>1, <3>4
    <3>6. value[lineStart + o] \in Range(Operators) /\ value[lineStart + f] = clause.field[1]
      BY <1>2, <3>3, <3>5
    <3>7. ASSUME NEW j \in lineStart + f + 1 .. from PROVE j = lineStart + o \/ value[j] = Blank
      <4>1. /\ j - lineStart \in f + 1 .. w /\ j \in lineStart + 1 .. at
            /\ (j - lineStart = o => j = lineStart + o)
        BY <1>2, <1>5, <3>1, <3>4
      <4> QED BY <1>6, <3>3, <4>1
    <3>8. ASSUME NEW i \in from + 1 .. at PROVE value[i] \in Words
      <4>1. i \in lineStart + 1 .. at /\ i - lineStart \in w + 1 .. n
        BY <1>2, <1>5, <3>1, <3>4
      <4> QED BY <1>6, <3>1, <4>1
    <3>9. PICK oo \in 1 .. from : oo = lineStart + o
      BY <3>5
    <3>10. PICK ff \in 1 .. oo - 1 : ff = lineStart + f
      <4>1. lineStart \in Int /\ o \in Int /\ f \in Int
        BY <1>2, <3>5
      <4> QED BY <3>5, <3>9, <4>1
    <3>11. value[oo] \in Range(Operators) /\ value[ff] = clause.field[1]
      BY <3>6, <3>9, <3>10
    <3>12. \A j \in ff + 1 .. from : j = oo \/ value[j] = Blank
      BY <3>7, <3>9, <3>10
    <3>13. ListFits(ValueSuggestions(clause.field, clause.value, from, at), value, at)
      BY <3>4, <3>8, <3>11, <3>12, ValuesFit DEF ListFits
    <3> QED BY <2>1, <3>13 DEF r
  <2> QED BY <2>2, <2>3
<1>8. CASE ~clause.is /\ name.is /\ Known(name.field, Range(Fields))
  <2>1. r = OperatorSuggestions(name.field[1], lineStart + name.start, at)
    BY <1>1, <1>8
  <2>2. name.start \in 0 .. n /\ \A i \in name.start + 1 .. n : line[i] \in Words \cup {Blank}
    BY <1>2, <1>8, NameIs DEF name
  <2>3. name.field[1] \in Lexeme
    <3>1. Fields \in Seq(Words)
      BY QueryEditorAssumption
    <3>2. \A x \in Range(Fields) : x \in Words
      BY <3>1 DEF Range
    <3> QED BY <1>8, <3>2 DEF Known, Lexeme
  <2>4. lineStart + name.start \in 0 .. at
    BY <1>2, <1>5, <2>2
  <2>5. ASSUME NEW i \in lineStart + name.start + 1 .. at PROVE value[i] \in Words \cup {Blank}
    <3>1. i \in lineStart + 1 .. at /\ i - lineStart \in name.start + 1 .. n
      BY <1>2, <1>5, <2>2
    <3> QED BY <1>6, <2>2, <3>1
  <2> QED BY <1>5, <2>1, <2>3, <2>4, <2>5, OperatorsFit DEF r
<1>9. CASE ~clause.is /\ ~(name.is /\ Known(name.field, Range(Fields)))
  <2>1. r = fields \o keywords
    BY <1>1, <1>9
  <2>2. begin \in 0 .. at /\ begin = at - v
    BY <1>2, <1>3, <1>4, <1>5
  <2> HIDE DEF begin
  <2>3. ASSUME NEW i \in begin + 1 .. at PROVE value[i] \in Words \cup {Blank}
    <3>1. i \in lineStart + 1 .. at /\ i - lineStart \in n - v + 1 .. n
      BY <1>2, <1>3, <1>5, <2>2
    <3> QED BY <1>3, <1>6, <3>1
  <2>4. ListFits(fields, value, at)
    BY <1>5, <2>2, <2>3, FieldsFit DEF fields
  <2>5. ListFits(keywords, value, at)
    BY <1>5, <2>2, <2>3, KeywordsFit DEF keywords
  <2> QED BY <2>1, <2>4, <2>5, BothFit DEF r
<1> QED BY <1>7, <1>8, <1>9

\* The text and the draft of it.
TextHeld ==
  /\ text \in Seq(Lexeme) /\ Len(text) <= MaxLength /\ caret \in 0 .. Len(text)
  /\ draft \in Seq(Lexeme) /\ Len(draft) <= MaxLength /\ DraftIsText
  /\ focused \in BOOLEAN /\ shown \in BOOLEAN

\* The list was built from the text in the editor, for a place in it.
OfferHeld ==
  /\ visible \in Seq(Suggestions) /\ active \in IF visible = <<>> THEN {1} ELSE DOMAIN visible
  /\ replaced \in BOOLEAN
  /\ ~replaced => \E at \in 0 .. Len(text) : ListFits(visible, text, at)

\* What makes the promises about suggestions inductive: the list on offer is one
\* that was built for the text as it is.
EditorInv == TextHeld /\ OfferHeld

LEMMA InsertedIs ==
  ASSUME NEW S, NEW s \in Seq(S), NEW i \in 1 .. Len(s) + 1, NEW e \in S
  PROVE  InsertAt(s, i, e) \in Seq(S) /\ Len(InsertAt(s, i, e)) = Len(s) + 1
<1> DEFINE a == SubSeq(s, 1, i - 1)  b == SubSeq(s, i, Len(s))  m == <<e>>
<1>1. /\ Len(s) \in Nat /\ i \in Int /\ i - 1 \in Int /\ 1 <= i /\ i - 1 <= Len(s) /\ i <= Len(s) + 1
      /\ 1 \in Int /\ Len(s) \in Int /\ Len(s) <= Len(s) /\ 1 <= 1
  OBVIOUS
<1>2. a \in Seq(S) /\ Len(a) = (IF 1 <= i - 1 THEN i - 1 - 1 + 1 ELSE 0)
  BY <1>1, PartIs
<1>3. b \in Seq(S) /\ Len(b) = (IF i <= Len(s) THEN Len(s) - i + 1 ELSE 0)
  BY <1>1, PartIs
<1>4. m \in Seq(S) /\ Len(m) = 1
  BY OneLexeme
<1>5. InsertAt(s, i, e) = (a \o m) \o b
  BY DEF InsertAt
<1> HIDE DEF a, b, m
<1> DEFINE c == a \o m
<1>6. c \in Seq(S) /\ Len(c) = Len(a) + Len(m)
  BY <1>2, <1>4, ConcatProperties
<1>7. InsertAt(s, i, e) = c \o b
  BY <1>5
<1> HIDE DEF c
<1>8. c \o b \in Seq(S) /\ Len(c \o b) = Len(c) + Len(b)
  BY <1>3, <1>6, ConcatProperties
<1>9. Len(c) + Len(b) = Len(s) + 1
  <2>1. Len(a) = i - 1
    BY <1>1, <1>2
  <2>2. Len(b) = Len(s) - i + 1
    BY <1>1, <1>3
  <2> QED BY <1>1, <1>4, <1>6, <2>1, <2>2
<1> QED BY <1>7, <1>8, <1>9

LEMMA RemovedIs ==
  ASSUME NEW S, NEW s \in Seq(S), NEW i \in 1 .. Len(s)
  PROVE  RemoveAt(s, i) \in Seq(S) /\ Len(RemoveAt(s, i)) = Len(s) - 1
<1> DEFINE a == SubSeq(s, 1, i - 1)  b == SubSeq(s, i + 1, Len(s))
<1>1. /\ Len(s) \in Nat /\ i \in Int /\ i - 1 \in Int /\ 1 <= i /\ i - 1 <= Len(s) /\ i <= Len(s)
      /\ 1 \in Int /\ Len(s) \in Int /\ Len(s) <= Len(s) /\ 1 <= 1 /\ i + 1 \in Int /\ 1 <= i + 1
  OBVIOUS
<1>2. a \in Seq(S) /\ Len(a) = (IF 1 <= i - 1 THEN i - 1 - 1 + 1 ELSE 0)
  BY <1>1, PartIs
<1>3. b \in Seq(S) /\ Len(b) = (IF i + 1 <= Len(s) THEN Len(s) - (i + 1) + 1 ELSE 0)
  BY <1>1, PartIs
<1>4. RemoveAt(s, i) = a \o b
  BY DEF RemoveAt
<1> HIDE DEF a, b
<1>5. a \o b \in Seq(S) /\ Len(a \o b) = Len(a) + Len(b)
  BY <1>2, <1>3, ConcatProperties
<1>6. Len(a) + Len(b) = Len(s) - 1
  <2>1. Len(a) = i - 1
    BY <1>1, <1>2
  <2>2. Len(b) = Len(s) - i
    BY <1>1, <1>3
  <2> QED BY <1>1, <2>1, <2>2
<1> QED BY <1>4, <1>5, <1>6

LEMMA RenderedList ==
  ASSUME NEW value \in Seq(Lexeme), NEW at \in 0 .. Len(value), NEW index \in Nat \ {0},
         RenderQuerySuggestions(value, at, index), text' = value
  PROVE  OfferHeld'
<1>1. visible' = BuildQuerySuggestions(value, at) /\ replaced' = FALSE
  BY DEF RenderQuerySuggestions
<1>2. ListFits(visible', value, at)
  BY <1>1, BuildIs
<1>3. visible' \in Seq(Suggestions)
  BY <1>2 DEF ListFits
<1>4. active' = IF visible' = <<>> THEN 1
                ELSE IF index > Len(visible') THEN Len(visible') ELSE index
  BY DEF RenderQuerySuggestions
<1>5. active' \in IF visible' = <<>> THEN {1} ELSE DOMAIN visible'
  <2>1. CASE visible' = <<>>
    BY <1>4, <2>1
  <2>2. CASE visible' # <<>>
    <3>1. Len(visible') # 0 /\ Len(visible') \in Nat /\ DOMAIN visible' = 1 .. Len(visible')
      BY <1>3, <2>2, EmptySeq
    <3>2. active' = IF index > Len(visible') THEN Len(visible') ELSE index
      BY <1>4, <2>2
    <3>3. active' \in 1 .. Len(visible')
      BY <3>1, <3>2
    <3> QED BY <2>2, <3>1, <3>3
  <2> QED BY <2>1, <2>2
<1>6. \E k \in 0 .. Len(text') : ListFits(visible', text', k)
  BY <1>2
<1> QED BY <1>1, <1>3, <1>5, <1>6 DEF OfferHeld

LEMMA ClosedList ==
  ASSUME CloseQuerySuggestions, text' \in Seq(Lexeme)
  PROVE  OfferHeld'
<1>1. visible' = <<>> /\ active' = 1 /\ replaced' = FALSE
  BY DEF CloseQuerySuggestions
<1>2. visible' \in Seq(Suggestions) /\ Len(visible') = 0
  BY <1>1, EmptySeq
<1>3. ListFits(visible', text', 0)
  BY <1>2 DEF ListFits
<1>4. 0 \in 0 .. Len(text')
  OBVIOUS
<1>5. \E k \in 0 .. Len(text') : ListFits(visible', text', k)
  BY <1>3, <1>4
<1>6. active' \in IF visible' = <<>> THEN {1} ELSE DOMAIN visible'
  BY <1>1
<1>7. replaced' \in BOOLEAN
  BY <1>1
<1> QED BY <1>2, <1>5, <1>6, <1>7 DEF OfferHeld

\* The text of a suggestion taken.
LEMMA AppliedIs ==
  ASSUME text \in Seq(Lexeme), NEW s \in Suggestions
  PROVE  Applied(s) \in Seq(Lexeme)
<1> DEFINE m == IF s.from < Len(text) THEN s.from ELSE Len(text)
           a == SubSeq(text, 1, m)  b == SubSeq(text, s.to + 1, Len(text))
<1>1. s.from \in Nat /\ s.to \in Nat /\ s.replacement \in Seq(Lexeme)
  BY DEF Suggestions
<1>2. m \in Int /\ m <= Len(text) /\ 1 \in Int /\ 1 <= 1
  BY <1>1
<1>3. a \in Seq(Lexeme)
  BY <1>2, PartIs
<1>4. s.to + 1 \in Int /\ 1 <= s.to + 1 /\ Len(text) \in Int /\ Len(text) <= Len(text)
  BY <1>1
<1>5. b \in Seq(Lexeme)
  BY <1>4, PartIs
<1>6. Applied(s) = (a \o s.replacement) \o b
  BY DEF Applied, UpTo
<1> HIDE DEF a, b
<1>7. a \o s.replacement \in Seq(Lexeme)
  BY <1>1, <1>3, ConcatProperties
<1>8. (a \o s.replacement) \o b \in Seq(Lexeme)
  BY <1>5, <1>7, ConcatProperties
<1> QED BY <1>6, <1>8

LEMMA AppliedHeld ==
  ASSUME TextHeld, NEW s \in Suggestions, ApplyQuerySuggestion(s)
  PROVE  TextHeld' /\ text' \in Seq(Lexeme) /\ caret' \in 0 .. Len(text')
<1> DEFINE v == Applied(s)
<1>1. /\ Len(v) <= MaxLength /\ text' = v /\ draft' = v
      /\ caret' = Min({s.from + s.at, Len(v)}) /\ focused' = TRUE /\ shown' = shown
  BY DEF ApplyQuerySuggestion, Edited
<1>2. v \in Seq(Lexeme)
  BY AppliedIs DEF TextHeld
<1> HIDE DEF v
<1>3. s.from \in Nat /\ s.at \in Nat /\ Len(v) \in Nat
  BY <1>2 DEF Suggestions
<1>4. caret' \in 0 .. Len(v)
  <2> DEFINE p == s.from + s.at
  <2>1. p \in Nat
    BY <1>3
  <2> HIDE DEF p
  <2>2. \E x \in {p, Len(v)} : \A y \in {p, Len(v)} : x <= y
    BY <1>3, <2>1
  <2>3. PICK x \in {p, Len(v)} : x = Min({p, Len(v)}) /\ \A y \in {p, Len(v)} : x <= y
    BY <2>2 DEF Min
  <2>4. x <= Len(v) /\ x \in Nat
    BY <1>3, <2>1, <2>3
  <2>5. caret' = x
    BY <1>1, <2>3 DEF p
  <2> QED BY <1>3, <2>4, <2>5
<1>5. TextHeld'
  BY <1>1, <1>2, <1>4 DEF TextHeld, DraftIsText
<1> QED BY <1>1, <1>2, <1>4, <1>5

\* The texts the page sets.
LEMMA TextIs ==
  ASSUME NEW value \in QueryTexts
  PROVE  value \in Seq(Lexeme) /\ Len(value) <= MaxLength
<1>1. value \in Seq(Range(value)) /\ Len(value) <= MaxLength
  BY QueryEditorAssumption
<1>2. Range(value) \subseteq Lexeme
  <2>1. Range(value) \subseteq TextLexemes
    BY DEF TextLexemes
  <2> QED BY <2>1 DEF Lexeme
<1> QED BY <1>1, <1>2

\* The text set anew: the list stays with it only if it is the same.
LEMMA FilledIs ==
  ASSUME EditorInv, NEW value \in Seq(Lexeme), Len(value) <= MaxLength, RenderFilters(value),
         UNCHANGED <<visible, active>>
  PROVE  /\ text' = value /\ caret' \in 0 .. Len(text') /\ OfferHeld'
<1>1. /\ text' = value /\ caret' = (IF value = text THEN caret ELSE Len(value))
      /\ replaced' = (replaced \/ (visible # <<>> /\ value # text))
      /\ visible' = visible /\ active' = active
  BY DEF RenderFilters
<1>2. caret' \in 0 .. Len(text')
  <2>1. CASE value = text
    BY <1>1, <2>1 DEF EditorInv, TextHeld
  <2>2. CASE value # text
    <3>1. caret' = Len(value) /\ Len(value) \in Nat
      BY <1>1, <2>2
    <3> QED BY <1>1, <3>1
  <2> QED BY <2>1, <2>2
<1>3. replaced' \in BOOLEAN
  BY <1>1, Zenon
<1>4. ASSUME ~replaced' PROVE \E at \in 0 .. Len(text') : ListFits(visible', text', at)
  <2>1. ~replaced /\ (visible = <<>> \/ value = text)
    BY <1>1, <1>4, Zenon
  <2>2. CASE value = text
    BY <1>1, <2>1, <2>2 DEF EditorInv, OfferHeld
  <2>3. CASE visible = <<>>
    <3>1. visible' \in Seq(Suggestions) /\ Len(visible') = 0
      BY <1>1, <2>3, EmptySeq
    <3>2. ListFits(visible', text', 0)
      BY <3>1 DEF ListFits
    <3>3. 0 \in 0 .. Len(text')
      BY <1>1
    <3> QED BY <3>2, <3>3
  <2> QED BY <2>1, <2>2, <2>3
<1>5. visible' \in Seq(Suggestions) /\ active' \in IF visible' = <<>> THEN {1} ELSE DOMAIN visible'
  BY <1>1 DEF EditorInv, OfferHeld
<1> QED BY <1>1, <1>2, <1>3, <1>4, <1>5 DEF OfferHeld

\* The active suggestion is one of them, and its number not zero.
LEMMA ActiveIs ==
  ASSUME OfferHeld
  PROVE  /\ active \in Nat \ {0} /\ \A i \in DOMAIN visible : visible[i] \in Suggestions
         /\ visible # <<>> => active \in DOMAIN visible /\ Len(visible) \in Nat \ {0}
                              /\ DOMAIN visible = 1 .. Len(visible)
<1>1. visible \in Seq(Suggestions) /\ active \in IF visible = <<>> THEN {1} ELSE DOMAIN visible
  BY DEF OfferHeld
<1>2. Len(visible) \in Nat /\ DOMAIN visible = 1 .. Len(visible) /\ (visible # <<>> => Len(visible) # 0)
  BY <1>1, EmptySeq
<1>3. \A i \in DOMAIN visible : visible[i] \in Suggestions
  BY <1>1, <1>2
<1>4. active = 1 \/ active \in DOMAIN visible
  BY <1>1
<1>5. active \in Nat \ {0}
  BY <1>2, <1>4
<1> QED BY <1>1, <1>2, <1>3, <1>5

LEMMA EditorStart == EditorInit => EditorInv
<1> SUFFICES ASSUME EditorInit PROVE EditorInv
  OBVIOUS
<1>1. /\ text \in QueryTexts /\ draft = text /\ caret = Len(text) /\ focused = FALSE
      /\ shown = (text # <<>>) /\ visible = <<>> /\ active = 1 /\ replaced = FALSE
  BY DEF EditorInit
<1>2. text \in Seq(Lexeme) /\ Len(text) <= MaxLength
  BY <1>1, TextIs
<1>3. caret \in 0 .. Len(text)
  BY <1>1, <1>2
<1>4. shown \in BOOLEAN /\ focused \in BOOLEAN
  BY <1>1, Zenon
<1>5. TextHeld
  BY <1>1, <1>2, <1>3, <1>4 DEF TextHeld, DraftIsText
<1>6. visible \in Seq(Suggestions) /\ Len(visible) = 0
  BY <1>1, EmptySeq
<1>7. ListFits(visible, text, 0) /\ 0 \in 0 .. Len(text)
  BY <1>2, <1>6 DEF ListFits
<1>8. OfferHeld
  <2>1. \E at \in 0 .. Len(text) : ListFits(visible, text, at)
    BY <1>7
  <2>2. active \in IF visible = <<>> THEN {1} ELSE DOMAIN visible
    BY <1>1
  <2> QED BY <1>1, <1>6, <2>1, <2>2 DEF OfferHeld
<1> QED BY <1>5, <1>8 DEF EditorInv

LEMMA TypingHolds ==
  ASSUME EditorInv, NEW lexeme \in Typed, Type(lexeme)
  PROVE  EditorInv'
<1> DEFINE v == InsertAt(text, caret + 1, lexeme)
<1>1. /\ Len(text) < MaxLength /\ text' = v /\ caret' = caret + 1 /\ draft' = v
      /\ RenderQuerySuggestions(text', caret', active) /\ focused' = focused /\ shown' = shown
  BY DEF Type, Edited
<1>2. /\ text \in Seq(Lexeme) /\ caret \in 0 .. Len(text) /\ Len(text) \in Nat
      /\ focused \in BOOLEAN /\ shown \in BOOLEAN
  BY DEF EditorInv, TextHeld
<1>3. v \in Seq(Lexeme) /\ Len(v) = Len(text) + 1
  <2>1. lexeme \in Lexeme
    BY DEF Lexeme
  <2>2. PICK i \in 1 .. Len(text) + 1 : i = caret + 1
    BY <1>2
  <2>3. InsertAt(text, i, lexeme) \in Seq(Lexeme) /\ Len(InsertAt(text, i, lexeme)) = Len(text) + 1
    BY <1>2, <2>1, InsertedIs
  <2> QED BY <2>2, <2>3
<1> HIDE DEF v
<1>4. caret' \in 0 .. Len(v) /\ Len(v) <= MaxLength
  <2>1. MaxLength \in Nat
    BY QueryEditorAssumption
  <2> QED BY <1>1, <1>2, <1>3, <2>1
<1>5. TextHeld'
  BY <1>1, <1>2, <1>3, <1>4 DEF TextHeld, DraftIsText
<1>6. active \in Nat \ {0}
  BY ActiveIs DEF EditorInv
<1>7. OfferHeld'
  <2>1. text' \in Seq(Lexeme) /\ caret' \in 0 .. Len(text')
    BY <1>1, <1>3, <1>4
  <2> QED BY <1>1, <1>6, <2>1, RenderedList
<1> QED BY <1>5, <1>7 DEF EditorInv

LEMMA ErasingHolds ==
  ASSUME EditorInv, Backspace
  PROVE  EditorInv'
<1> DEFINE v == RemoveAt(text, caret)
<1>1. /\ caret > 0 /\ text' = v /\ caret' = caret - 1 /\ draft' = v
      /\ RenderQuerySuggestions(text', caret', active) /\ focused' = focused /\ shown' = shown
  BY DEF Backspace, Edited
<1>2. /\ text \in Seq(Lexeme) /\ caret \in 0 .. Len(text) /\ Len(text) \in Nat /\ Len(text) <= MaxLength
      /\ focused \in BOOLEAN /\ shown \in BOOLEAN
  BY DEF EditorInv, TextHeld
<1>3. v \in Seq(Lexeme) /\ Len(v) = Len(text) - 1
  <2>1. caret \in 1 .. Len(text)
    BY <1>1, <1>2
  <2> QED BY <1>2, <2>1, RemovedIs
<1> HIDE DEF v
<1>4. caret' \in 0 .. Len(v) /\ Len(v) <= MaxLength
  <2>1. MaxLength \in Nat
    BY QueryEditorAssumption
  <2> QED BY <1>1, <1>2, <1>3, <2>1
<1>5. TextHeld'
  BY <1>1, <1>2, <1>3, <1>4 DEF TextHeld, DraftIsText
<1>6. active \in Nat \ {0}
  BY ActiveIs DEF EditorInv
<1>7. OfferHeld'
  <2>1. text' \in Seq(Lexeme) /\ caret' \in 0 .. Len(text')
    BY <1>1, <1>3, <1>4
  <2> QED BY <1>1, <1>6, <2>1, RenderedList
<1> QED BY <1>5, <1>7 DEF EditorInv

\* Moving the caret and the highlight in the list.
LEMMA MovingHolds ==
  ASSUME EditorInv
  PROVE  /\ \A at \in 0 .. Len(text) : MoveCursor(at) \/ ClickText(at) => EditorInv'
         /\ \A down \in BOOLEAN : Arrow(down) => EditorInv'
<1> USE DEF EditorInv
<1>1. ASSUME NEW at \in 0 .. Len(text), MoveCursor(at) PROVE EditorInv'
  <2>1. /\ caret' = at /\ text' = text /\ draft' = draft /\ focused' = focused /\ shown' = shown
        /\ visible' = visible /\ active' = active /\ replaced' = replaced
    BY <1>1 DEF MoveCursor
  <2>2. TextHeld'
    BY <2>1 DEF TextHeld, DraftIsText
  <2>3. OfferHeld'
    BY <2>1 DEF OfferHeld
  <2> QED BY <2>2, <2>3
<1>2. ASSUME NEW at \in 0 .. Len(text), ClickText(at) PROVE EditorInv'
  <2>1. /\ caret' = at /\ text' = text /\ draft' = draft /\ focused' = TRUE /\ shown' = shown
        /\ RenderQuerySuggestions(text, at, active)
    BY <1>2 DEF ClickText
  <2>2. TextHeld'
    BY <2>1 DEF TextHeld, DraftIsText
  <2>3. text \in Seq(Lexeme) /\ active \in Nat \ {0}
    BY ActiveIs DEF TextHeld
  <2>4. OfferHeld'
    BY <2>1, <2>3, RenderedList
  <2> QED BY <2>2, <2>4
<1>3. ASSUME NEW down \in BOOLEAN, Arrow(down) PROVE EditorInv'
  <2> DEFINE i == IF down THEN (active % Len(visible)) + 1
                  ELSE IF active = 1 THEN Len(visible) ELSE active - 1
  <2>1. /\ visible # <<>> /\ RenderQuerySuggestions(text, caret, i)
        /\ caret' = caret /\ text' = text /\ draft' = draft /\ focused' = focused /\ shown' = shown
    BY <1>3 DEF Arrow
  <2>2. TextHeld'
    BY <2>1 DEF TextHeld, DraftIsText
  <2>3. active \in Nat \ {0} /\ Len(visible) \in Nat \ {0}
    BY <2>1, ActiveIs
  <2>4. i \in Nat \ {0}
    <3>1. active % Len(visible) \in Nat
      BY <2>3
    <3>2. CASE down
      BY <3>1, <3>2
    <3>3. CASE ~down /\ active = 1
      BY <2>3, <3>3
    <3>4. CASE ~down /\ active # 1
      BY <2>3, <3>4
    <3> QED BY <3>2, <3>3, <3>4
  <2> HIDE DEF i
  <2>5. text \in Seq(Lexeme) /\ caret \in 0 .. Len(text)
    BY DEF TextHeld
  <2>6. OfferHeld'
    BY <2>1, <2>4, <2>5, RenderedList
  <2> QED BY <2>2, <2>6
<1> QED BY <1>1, <1>2, <1>3

\* Taking a suggestion, by Tab or by a click.
LEMMA TakingHolds ==
  ASSUME EditorInv
  PROVE  /\ TabKey => EditorInv'
         /\ \A i \in DOMAIN visible : ClickSuggestion(i) => EditorInv'
<1> USE DEF EditorInv
<1>1. ASSUME TabKey PROVE EditorInv'
  <2>1. /\ visible # <<>> /\ ApplyQuerySuggestion(visible[active])
        /\ RenderQuerySuggestions(text', caret', 1)
    BY <1>1 DEF TabKey
  <2>2. visible[active] \in Suggestions
    BY <2>1, ActiveIs
  <2>3. TextHeld' /\ text' \in Seq(Lexeme) /\ caret' \in 0 .. Len(text')
    BY <2>1, <2>2, AppliedHeld
  <2>4. 1 \in Nat \ {0}
    OBVIOUS
  <2>5. OfferHeld'
    BY <2>1, <2>3, <2>4, RenderedList
  <2> QED BY <2>3, <2>5
<1>2. ASSUME NEW i \in DOMAIN visible, ClickSuggestion(i) PROVE EditorInv'
  <2>1. ApplyQuerySuggestion(visible[i]) /\ CloseQuerySuggestions
    BY <1>2 DEF ClickSuggestion
  <2>2. visible[i] \in Suggestions
    BY ActiveIs
  <2>3. TextHeld' /\ text' \in Seq(Lexeme)
    BY <2>1, <2>2, AppliedHeld
  <2> QED BY <2>1, <2>3, ClosedList
<1> QED BY <1>1, <1>2

\* What closes the list, and what sets the text from outside.
LEMMA RenderingHolds ==
  ASSUME EditorInv
  PROVE  EscapeKey \/ RunQuery \/ RenderEditor => EditorInv'
<1> USE DEF EditorInv
<1>0. text \in Seq(Lexeme) /\ draft \in Seq(Lexeme) /\ Len(draft) <= MaxLength /\ DraftIsText
  BY DEF TextHeld
<1>1. ASSUME EscapeKey PROVE EditorInv'
  <2>1. /\ CloseQuerySuggestions
        /\ caret' = caret /\ text' = text /\ draft' = draft /\ focused' = focused /\ shown' = shown
    BY <1>1 DEF EscapeKey
  <2>2. TextHeld'
    BY <2>1 DEF TextHeld, DraftIsText
  <2> QED BY <1>0, <2>1, <2>2, ClosedList
<1>2. ASSUME RunQuery PROVE EditorInv'
  <2>1. /\ draft' = Trim(text) /\ CloseQuerySuggestions
        /\ caret' = caret /\ text' = text /\ focused' = focused /\ shown' = shown
    BY <1>2 DEF RunQuery
  <2>2. Trim(text) \in Seq(Lexeme) /\ Len(Trim(text)) <= Len(text) /\ Trim(Trim(text)) = Trim(text)
    BY <1>0, TrimIs
  <2>3. draft' \in Seq(Lexeme) /\ Len(draft') <= MaxLength
    <3>1. /\ Len(text) <= MaxLength /\ MaxLength \in Nat /\ Len(text) \in Nat
          /\ Len(Trim(text)) \in Nat
      BY <1>0, <2>2, QueryEditorAssumption DEF TextHeld
    <3> QED BY <2>1, <2>2, <3>1
  <2>4. DraftIsText'
    BY <2>1, <2>2 DEF DraftIsText
  <2>5. TextHeld'
    BY <2>1, <2>3, <2>4 DEF TextHeld
  <2> QED BY <1>0, <2>1, <2>5, ClosedList
<1>3. ASSUME RenderEditor PROVE EditorInv'
  <2>1. /\ RenderFilters(draft) /\ draft' = draft /\ focused' = focused /\ shown' = shown
        /\ UNCHANGED <<visible, active>>
    BY <1>3 DEF RenderEditor
  <2>2. text' = draft /\ caret' \in 0 .. Len(text') /\ OfferHeld'
    BY <1>0, <2>1, FilledIs
  <2>3. TextHeld'
    BY <1>0, <2>1, <2>2 DEF TextHeld, DraftIsText
  <2> QED BY <2>2, <2>3
<1> QED BY <1>1, <1>2, <1>3

LEMMA SettingHolds ==
  ASSUME EditorInv, NEW value \in QueryTexts \cup {draft}, NEW shows \in BOOLEAN
  PROVE  ClickElsewhere(value, shows) \/ (value \in QueryTexts /\ Navigate(value, shows)) => EditorInv'
<1> USE DEF EditorInv
<1>1. value \in Seq(Lexeme) /\ Len(value) <= MaxLength
  <2>1. CASE value \in QueryTexts
    BY <2>1, TextIs
  <2>2. CASE value = draft
    BY <2>2 DEF TextHeld
  <2> QED BY <2>1, <2>2
<1>2. ASSUME ClickElsewhere(value, shows) PROVE EditorInv'
  <2>1. /\ draft' = value /\ text' = value /\ caret' = (IF value = text THEN caret ELSE Len(value))
        /\ focused' = FALSE /\ shown' = shows /\ CloseQuerySuggestions
    BY <1>2 DEF ClickElsewhere
  <2>2. caret' \in 0 .. Len(value)
    <3>1. CASE value = text
      BY <2>1, <3>1 DEF TextHeld
    <3>2. CASE value # text
      BY <1>1, <2>1, <3>2
    <3> QED BY <3>1, <3>2
  <2>3. TextHeld'
    BY <1>1, <2>1, <2>2 DEF TextHeld, DraftIsText
  <2> QED BY <1>1, <2>1, <2>3, ClosedList
<1>3. ASSUME Navigate(value, shows) PROVE EditorInv'
  <2>1. /\ draft' = value /\ shown' = shows /\ focused' = (focused /\ shows)
        /\ RenderFilters(value) /\ UNCHANGED <<visible, active>>
    BY <1>3 DEF Navigate
  <2>2. text' = value /\ caret' \in 0 .. Len(text') /\ OfferHeld'
    BY <1>1, <2>1, FilledIs
  <2>3. focused' \in BOOLEAN
    BY <2>1, Zenon
  <2>4. TextHeld'
    BY <1>1, <2>1, <2>2, <2>3 DEF TextHeld, DraftIsText
  <2> QED BY <2>2, <2>4
<1> QED BY <1>2, <1>3

LEMMA OfferedFits ==
  ASSUME EditorInv
  PROVE  EditorTypeOK /\ DraftIsText /\ TakesOnlyTheWord /\ ValueOfItsField
<1>1. EditorTypeOK /\ DraftIsText
  BY DEF EditorInv, TextHeld, OfferHeld, EditorTypeOK
<1>2. ASSUME NEW i \in DOMAIN visible, ~replaced
      PROVE  /\ Range(SubSeq(text, visible[i].from + 1, visible[i].to)) \subseteq Words \cup {Blank}
             /\ \A word \in Words : visible[i].replacement = <<Quoted[word]>>
                                      => BehindItsField(word, text, visible[i].from)
  <2>1. PICK at \in 0 .. Len(text) : ListFits(visible, text, at)
    BY <1>2 DEF EditorInv, OfferHeld
  <2>2. text \in Seq(Lexeme) /\ at \in Nat /\ Len(text) \in Nat /\ at <= Len(text)
    BY DEF EditorInv, TextHeld
  <2> DEFINE s == visible[i]  r == SubSeq(text, s.from + 1, s.to)
  <2>3. Fits(s, text, at)
    BY <2>1 DEF ListFits
  <2> HIDE DEF s
  <2>4. /\ s.from \in 0 .. at /\ s.to = at
        /\ \A j \in s.from + 1 .. at : text[j] \in Words \cup {Blank}
        /\ \A word \in Words : s.replacement = <<Quoted[word]>> => BehindItsField(word, text, s.from)
    BY <2>3 DEF Fits
  <2>5. PICK a \in Int : a = s.from + 1 /\ 1 <= a
    BY <2>4
  <2>6. r = SubSeq(text, a, at) /\ at \in Int
    BY <2>2, <2>4, <2>5
  <2> HIDE DEF r
  <2>7. /\ r \in Seq(Lexeme) /\ Len(r) = (IF a <= at THEN at - a + 1 ELSE 0)
        /\ \A j \in 1 .. at - a + 1 : r[j] = text[a + j - 1]
    <3>1. /\ SubSeq(text, a, at) \in Seq(Lexeme)
          /\ Len(SubSeq(text, a, at)) = (IF a <= at THEN at - a + 1 ELSE 0)
          /\ \A j \in 1 .. at - a + 1 : SubSeq(text, a, at)[j] = text[a + j - 1]
      BY <2>2, <2>5, <2>6, PartIs
    <3> QED BY <2>6, <3>1
  <2>8. ASSUME NEW j \in 1 .. Len(r) PROVE r[j] \in Words \cup {Blank}
    <3>1. a \in Int /\ a = s.from + 1 /\ 1 <= a /\ at \in Nat /\ j \in 1 .. Len(r)
          /\ Len(r) = (IF a <= at THEN at - a + 1 ELSE 0)
      BY <2>2, <2>5, <2>7
    <3>2. j \in 1 .. at - a + 1 /\ a + j - 1 \in a .. at
      BY ONLY <3>1
    <3>3. a + j - 1 \in s.from + 1 .. at
      BY <2>5, <3>2
    <3> QED BY <2>4, <2>7, <3>2, <3>3
  <2>9. Range(r) \subseteq Words \cup {Blank}
    BY <2>7, <2>8 DEF Range
  <2> QED BY <2>4, <2>9 DEF r, s
<1>3. TakesOnlyTheWord
  BY <1>2 DEF TakesOnlyTheWord
<1>4. ValueOfItsField
  BY <1>2 DEF ValueOfItsField, BehindItsField
<1> QED BY <1>1, <1>3, <1>4

\* What is in the editor is what will be saved and run, and a suggestion on offer
\* fits the text, however the caret moved and the text was set since it was built.
THEOREM EditorHolds ==
  EditorSpec => [](EditorTypeOK /\ DraftIsText /\ TakesOnlyTheWord /\ ValueOfItsField)
<1>1. ASSUME EditorInv, [EditorNext]_editorVars PROVE EditorInv'
  <2>1. CASE UNCHANGED editorVars
    BY <1>1, <2>1 DEF EditorInv, TextHeld, OfferHeld, DraftIsText, editorVars
  <2>2. CASE \E lexeme \in Typed : Type(lexeme)
    BY <1>1, <2>2, TypingHolds
  <2>3. CASE Backspace
    BY <1>1, <2>3, ErasingHolds
  <2>4. CASE TabKey
    BY <1>1, <2>4, TakingHolds
  <2>5. CASE EscapeKey \/ RunQuery \/ RenderEditor
    BY <1>1, <2>5, RenderingHolds
  <2>6. CASE \E at \in 0 .. Len(text) : MoveCursor(at) \/ ClickText(at)
    BY <1>1, <2>6, MovingHolds
  <2>7. CASE \E down \in BOOLEAN : Arrow(down)
    BY <1>1, <2>7, MovingHolds
  <2>8. CASE \E i \in DOMAIN visible : ClickSuggestion(i)
    BY <1>1, <2>8, TakingHolds
  <2>9. CASE \E value \in QueryTexts \cup {draft}, shows \in BOOLEAN :
               ClickElsewhere(value, shows) \/ (value \in QueryTexts /\ Navigate(value, shows))
    BY <1>1, <2>9, SettingHolds
  <2> QED BY <1>1, <2>1, <2>2, <2>3, <2>4, <2>5, <2>6, <2>7, <2>8, <2>9 DEF EditorNext
<1>2. EditorInv => EditorTypeOK /\ DraftIsText /\ TakesOnlyTheWord /\ ValueOfItsField
  BY OfferedFits
<1> QED BY EditorStart, <1>1, <1>2, PTL DEF EditorSpec
-----------------------------------------------------------------------------
(* What is promised of several parts. *)

\* WebApp: used one request at a time the alert policies page is the Hub's, the
\* detail's previous and next are where there is an entry, and the editor offers
\* only what fits the text - whichever events and answers come, in any order.
THEOREM PagesAgreeHolds == Spec /\ ListSpec /\ EditorSpec => []PagesAgree
<1>1. /\ TypeOK /\ InStep
      /\ ListTypeOK /\ NeighboursOffered /\ LockedWhileSelected
      /\ EditorTypeOK /\ DraftIsText /\ TakesOnlyTheWord /\ ValueOfItsField
      => PagesAgree
  BY DEF PagesAgree
<1> QED BY <1>1, PageHolds, EntryListHolds, EditorHolds, PTL

\* WebApp: the tabs and their libraries agree with the storage up to events that
\* are due, and nothing is in the history twice, for any number of tabs.
THEOREM LibraryAgreesHolds == LibrarySpec => []LibraryAgrees
<1>1. LibraryTypeOK /\ SavedIsStored /\ LibraryShowsSaved /\ RecentOnce => LibraryAgrees
  BY DEF LibraryAgrees
<1> QED BY <1>1, LibraryHolds, PTL

\* WebApp: a step forgets no saved query it does not delete, and no live update
\* what the user opened.
THEOREM NothingForgottenHolds == LibrarySpec /\ ListSpec => NothingForgotten
BY SavedHolds, OpenedHolds DEF NothingForgotten
=============================================================================
