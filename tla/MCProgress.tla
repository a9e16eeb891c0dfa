----------------------------- MODULE MCProgress -----------------------------
(***************************************************************************)
(* What must eventually happen in the Hub and in the web application, for  *)
(* TLC.  The models share no variable, so one run looks at them one after  *)
(* another, as MCHub and MCWeb do, in instances small enough for liveness: *)
(* in a behaviour only `part' moves, under the fairness its component      *)
(* states, and the others rest.                                            *)
(***************************************************************************)
EXTENDS Integers, Sequences, FiniteSets, TLC

CONSTANTS
  r, a, t, c1, c2, c3, x1, x2, x3, x4, p1, p2, e1, e2, h, v, k, n1, q1, q2,
  NoRule, NoKey, PartOfKey, None

VARIABLES
  part,
  \* AlertEngine
  rules, states, file, phase, outbox, left, since, owed, stale, lost,
  \* Enrollment
  nodes, tokens, admits, calls, agent, faults,
  \* KeyFile
  keyFile, used, proc, kills,
  \* LiveTail
  clock, stamp, committed, ingest, seen, subs, conn, viewer, panicked, breaks,
  \* AlertsPage
  hub, ids, policies, list, busy, dialog, saving, pageCalls, made, astray,
  \* NodesPage
  nodesHub, issued, items, count, nodeList, nodeBusy, panel, nodeCalls, nodesMade, due,
  nodesAstray,
  \* Explorer
  stored, search, live, pageToken, selected, url, other, load, reload, response, entries, tail,
  spinner, searchTimer, resizeTimer, ready, buckets, drawer, recent, asked, answered, outcome,
  origin, strayed

engineVars   == <<rules, states, file, phase, outbox, left, since, owed, stale, lost>>
enrollVars   == <<nodes, tokens, admits, calls, agent, faults>>
keyVars      == <<keyFile, used, proc, kills>>
tailVars     == <<clock, stamp, committed, ingest, seen, subs, conn, viewer, panicked, breaks>>
alertsVars   == <<hub, ids, policies, list, busy, dialog, saving, pageCalls, made, astray>>
nodesVars    == <<nodesHub, issued, items, count, nodeList, nodeBusy, panel, nodeCalls,
                  nodesMade, due, nodesAstray>>
explorerVars == <<stored, search, live, pageToken, selected, url, other, load, reload, response,
                  entries, tail, spinner, searchTimer, resizeTimer, ready, buckets, drawer,
                  recent, asked, answered, outcome, origin, strayed>>

Policy(threshold, window, cooldown, enabled) ==
  [threshold |-> threshold, window |-> window, cooldown |-> cooldown, enabled |-> enabled]

OnceOrTwice == {Policy(1, 1, 3, TRUE), Policy(2, 2, 2, TRUE), Policy(1, 1, 3, FALSE)}

\* A rule under every fault, and one that nobody edits on a Hub that stays up.
Engine == INSTANCE AlertEngine WITH
  Rules <- {r}, Specs <- OnceOrTwice, MaxAge <- 4,
  Bounds <- [entries |-> 2, creates |-> 1, changes |-> 1, failures |-> 1, crashes |-> 2]
Undisturbed == INSTANCE AlertEngine WITH
  Rules <- {r}, Specs <- OnceOrTwice, MaxAge <- 4,
  Bounds <- [entries |-> 4, creates |-> 1, changes |-> 0, failures |-> 1, crashes |-> 0]

Enroll == INSTANCE Enrollment WITH
  Agents <- {a}, Tokens <- {t}, Given <- (a :> {t}), Setup <- (a :> "trust"),
  Calls <- {c1, c2, c3}, MaxFaults <- 3

Key == INSTANCE KeyFile WITH
  Procs <- {p1, p2}, Keys <- {x1, x2, x3, x4}, MaxKills <- 2, Part <- PartOfKey

Live == INSTANCE LiveTail WITH
  Entries <- {e1, e2}, Hosts <- {h}, AgentOf <- (e1 :> h) @@ (e2 :> h), Viewers <- {v},
  Conns <- {k}, Buffer <- 2, MaxSeen <- 1, MaxTime <- 0, MaxBreaks <- 1, Nil <- None

Alerts == INSTANCE AlertsPage WITH
  Ids <- {r}, Names <- {a}, MaxCalls <- 2,
  used <- ids, rules <- policies, calls <- pageCalls

Nodes == INSTANCE NodesPage WITH
  Nodes <- {n1}, MaxNodeCalls <- 3, NoNode <- None, tokens <- issued, nodes <- items

Explore == INSTANCE Explorer WITH
  Searches <- {q1, q2}, Start <- q1, Ascending <- {}, MaxEntries <- 1, PageSize <- 1,
  Matching <- (q1 :> {1}) @@ (q2 :> {}), EntryLimit <- 1, Resolutions <- {24, 25},
  Gestures <- {"filter", "cancel"}

ASSUME ProgressAssumption ==
  Live!LiveTailAssumption /\ Alerts!AlertsAssumption /\ Nodes!NodesAssumption

Parts == {"engine", "undisturbed", "enroll", "key", "live", "alerts", "nodes", "explore"}

Rule == part \in {"engine", "undisturbed"}

ProgressInit ==
  /\ part \in Parts
  /\ IF part = "undisturbed" THEN Undisturbed!Init ELSE Engine!Init
  /\ Enroll!EnrollInit
  /\ Key!KeyInit /\ (part # "key" => keyFile = NoKey)
  /\ Live!TailInit
  /\ Alerts!Init /\ (part # "alerts" => ids = {})
  /\ Nodes!NodesInit /\ (part # "nodes" => nodesHub = (n1 :> "absent"))
  /\ Explore!Init
  /\ part # "explore" => stored = 0 /\ search = q1 /\ live /\ buckets = 24

ProgressNext ==
  /\ UNCHANGED part
  /\ CASE part = "engine" -> Engine!Next
       [] part = "undisturbed" -> Undisturbed!Next
       [] OTHER -> UNCHANGED engineVars
  /\ IF part = "enroll" THEN Enroll!EnrollNext ELSE UNCHANGED enrollVars
  /\ IF part = "key" THEN Key!KeyNext ELSE UNCHANGED keyVars
  /\ IF part = "live" THEN Live!TailNext ELSE UNCHANGED tailVars
  /\ IF part = "alerts" THEN Alerts!Next ELSE UNCHANGED alertsVars
  /\ IF part = "nodes" THEN Nodes!NodesNext ELSE UNCHANGED nodesVars
  /\ IF part = "explore" THEN Explore!Next ELSE UNCHANGED explorerVars

\* The fairness of each component, while it is the one that moves.
ProgressFairness ==
  /\ WF_engineVars(Rule /\ \E ok \in BOOLEAN : Engine!Resolve(ok))
  /\ WF_engineVars(Rule /\ \E note \in outbox : Engine!Send(note))
  /\ WF_engineVars(Rule /\ Engine!Subscribe) /\ WF_engineVars(Rule /\ Engine!Load)
  /\ WF_engineVars(Rule /\ Engine!Tick)
  /\ WF_enrollVars(part = "enroll" /\ \E c \in {c1, c2, c3} : Enroll!Ask(a, c))
  /\ WF_enrollVars(part = "enroll" /\ \E saved \in BOOLEAN : Enroll!Accept(a, saved))
  /\ WF_enrollVars(part = "enroll" /\ Enroll!FallBack(a))
  /\ WF_enrollVars(part = "enroll" /\ Enroll!GiveUp(a))
  /\ \A c \in {c1, c2, c3} : WF_enrollVars(part = "enroll" /\ Enroll!Handle(c))
  /\ \A p \in {p1, p2} : WF_keyVars(part = "key" /\ Key!Run(p))
  /\ WF_tailVars(part = "live" /\ Live!Publish(h))
  /\ WF_tailVars(part = "live" /\ Live!Handler(k))
  /\ WF_tailVars(part = "live" /\ Live!Unsubscribe(k))
  /\ WF_tailVars(part = "live" /\ Live!CloseChannel(k))
  /\ WF_tailVars(part = "live" /\ Live!Release(k))
  /\ WF_alertsVars(part = "alerts" /\ \E c \in pageCalls : Alerts!Serve(c))
  /\ WF_alertsVars(part = "alerts" /\ \E c \in pageCalls : Alerts!Arrival(c))
  /\ WF_nodesVars(part = "nodes" /\ \E c \in nodeCalls : Nodes!ServeNodes(c))
  /\ WF_nodesVars(part = "nodes" /\ \E c \in nodeCalls : Nodes!NodesArrival(c))
  /\ WF_explorerVars(part = "explore" /\ Explore!SearchTimer)
  /\ WF_explorerVars(part = "explore" /\ Explore!ResizeTimer)
  /\ WF_explorerVars(part = "explore" /\ Explore!InitialLoadingTimer)
  /\ WF_explorerVars(part = "explore" /\ Explore!HubAnswers)
  /\ WF_explorerVars(part = "explore" /\ Explore!ReceiveAnswer)
  /\ WF_explorerVars(part = "explore" /\ Explore!Settle)

ProgressSpec ==
  /\ ProgressInit
  /\ [][ProgressNext]_<<part, engineVars, enrollVars, keyVars, tailVars, alertsVars, nodesVars,
                        explorerVars>>
  /\ ProgressFairness

-----------------------------------------------------------------------------
\* A rule that fires does not fire for ever without matches, over faults of the
\* Hub, and what was announced is said to be over, if nobody edits the rule and
\* the Hub stays up (resolve, load).
IncidentsEnd ==
  Engine!FiringClears /\ (part = "undisturbed" => Undisturbed!AnnouncedIsResolved)

\* An Agent the Hub has admitted connects to it, or was revoked, whatever
\* answers got lost meanwhile (ensureAuthenticatedLocked, Register), and the
\* processes that share a key file come up, unless one that died left part of a
\* key in it (LoadOrCreateIdentity).
StartsComeUp == Enroll!AdmittedConnects /\ (part = "key" => Key!ComesUp)

\* What is in the channel of a connected page is shown, and a connection that
\* is gone leaves the Broker (handleTail, closeSubscription).
TailsServed == Live!BufferedIsShown /\ Live!GoneIsReleased

\* The controls of the alerts page come back, however a call ends; a node the
\* user was told is revoked is shown so, or the page says that it could not
\* load; when the user stops, the explorer comes to rest.
PagesSettle ==
  /\ part = "alerts" => Alerts!ControlsComeBack
  /\ part = "nodes" => Nodes!RevokedIsShown
  /\ part = "explore" => Explore!ComesToRest
=============================================================================
