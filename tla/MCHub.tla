------------------------------- MODULE MCHub --------------------------------
(***************************************************************************)
(* The Hub's parts for TLC: the alert engine, enrollment, the key file,    *)
(* the live tail and the pages of a search.  Their models share no         *)
(* variable, so one run looks at them one after another: in a behaviour    *)
(* only `part' moves, the others rest in an initial state, and the states  *)
(* of the parts add up instead of multiplying.                             *)
(***************************************************************************)
EXTENDS AlertEngine, Enrollment, KeyFile, LiveTail, Pagination, TLC

CONSTANTS r1, r2, a1, a2, t1, t2, e1, e2, h1, h2, v1, k1, k2

VARIABLE part

ASSUME HubAssumption == LiveTailAssumption /\ PaginationAssumption

Policy(threshold, window, cooldown, enabled) ==
  [threshold |-> threshold, window |-> window, cooldown |-> cooldown, enabled |-> enabled]

\* A rule that fires at once with a cooldown beyond its window; one that needs
\* two matches; a paused one.
OnceOrTwice == {Policy(1, 1, 3, TRUE), Policy(2, 2, 2, TRUE), Policy(1, 1, 3, FALSE)}

Faulty == [entries |-> 3, creates |-> 2, changes |-> 1, failures |-> 1, crashes |-> 1]

\* Hosts that were given the same token, one of them after another of its own,
\* and the two ways to name the Hub without its key.
Shared == (a1 :> {t1}) @@ (a2 :> {t1, t2})
Mixed == (a1 :> "url") @@ (a2 :> "trust")

\* An entry from each of two hosts.
HostOf == (e1 :> h1) @@ (e2 :> h2)

\* Row n was written at the time (n + 1) \div 2, two at each; one matches not.
RowTime == [n \in 1..5 |-> (n + 1) \div 2]
RowId == [n \in 1..5 |-> n]

Parts == {"alerts", "enrollment", "key", "tail", "walk"}

HubInit ==
  /\ part \in Parts
  /\ Init
  /\ EnrollInit /\ (part # "enrollment" => \A a \in Agents : agent[a].token = t1)
  /\ KeyInit /\ (part # "key" => keyFile = NoKey)
  /\ TailInit
  /\ WalkInit /\ (part # "walk" => stored = {})

HubNext ==
  /\ UNCHANGED part
  /\ IF part = "alerts" THEN Next ELSE UNCHANGED vars
  /\ IF part = "enrollment" THEN EnrollNext ELSE UNCHANGED enrollVars
  /\ IF part = "key" THEN KeyNext ELSE UNCHANGED keyVars
  /\ IF part = "tail" THEN TailNext ELSE UNCHANGED tailVars
  /\ IF part = "walk" THEN WalkNext ELSE UNCHANGED walkVars

HubSpec ==
  HubInit /\ [][HubNext]_<<part, vars, enrollVars, keyVars, tailVars, walkVars>>
=============================================================================
