----------------------------- MODULE Enrollment -----------------------------
(***************************************************************************)
(* How an Agent becomes a node of the Hub: the Agent's Sender              *)
(* (src/internal/agent/sender.go, hubpin.go), the Hub's registry           *)
(* (src/internal/node/service.go) and its tables                           *)
(* (src/internal/storage/sqlite/sqlite.go).                                *)
(*                                                                         *)
(* A handler of the Hub is several transactions; revocations, expiries and *)
(* other handlers come in between.  An Agent asks one thing at a time, but *)
(* a request it gave up on is still handled.  Nobody forges or repeats a   *)
(* request here, so signatures, nonces and clocks are left out.            *)
(***************************************************************************)
EXTENDS Naturals

CONSTANTS
  Agents,
  Tokens,
  Given,     \* the enrollment tokens an Agent's environment may name
  Setup,     \* how: "url"; or as a token with the Hub's "key", or with "trust"
             \* on first use
  Calls,     \* bound: requests under way
  None,
  MaxFaults  \* bound: timeouts, restarts and failures

ASSUME EnrollmentAssumption ==
  /\ Given \in [Agents -> SUBSET Tokens] /\ Setup \in [Agents -> {"url", "key", "trust"}]
  /\ None \notin Agents \cup Calls \cup Tokens /\ MaxFaults \in Nat

VARIABLES
  nodes,   \* the status in the table nodes, "none" without a row
  tokens,  \* the table enrollment_tokens
  admits,  \* the Agents each token has made nodes; only properties read this
  calls,   \* requests, and how far the Hub is with them
  agent,   \* each Agent's pin file, and its Sender
  faults   \* faults so far

enrollVars == <<nodes, tokens, admits, calls, agent, faults>>

Free == [kind |-> "free", agent |-> None, token |-> None, step |-> "free"]

Answers == {"ok", "unauthorized", "refused"}

Fault == faults < MaxFaults /\ faults' = faults + 1

\* loadHubPublicKey and NewSender: a Sender as it starts, beside a pin file.
Started(a, pin, t) == [pin |-> pin, key |-> pin, token |-> t, connected |-> FALSE, waits |-> None]

EnrollInit ==
  /\ nodes = [a \in Agents |-> "none"] /\ tokens = [t \in Tokens |-> "open"]
  /\ admits = [t \in Tokens |-> {}] /\ calls = [c \in Calls |-> Free]
  /\ \E first \in [Agents -> Tokens] :
       /\ \A a \in Agents : first[a] \in Given[a]
       /\ agent = [a \in Agents |-> Started(a, Setup[a] = "key", first[a])]
  /\ faults = 0
-----------------------------------------------------------------------------
(* The Agent.                                                              *)

Sent(a, kind) ==
  [kind |-> kind, agent |-> a, token |-> IF kind = "register" THEN agent[a].token ELSE None,
   step |-> "sent"]

\* ensureAuthenticatedLocked: enroll, register or ask for a challenge.
Wanted(a) ==
  IF IF Setup[a] = "url" THEN agent[a].key ELSE agent[a].token = None
  THEN "challenge" ELSE "register"

Ask(a, c) ==
  /\ ~agent[a].connected /\ agent[a].waits = None /\ calls[c] = Free
  /\ calls' = [calls EXCEPT ![c] = Sent(a, Wanted(a))]
  /\ agent' = [agent EXCEPT ![a].waits = c]
  /\ UNCHANGED <<nodes, tokens, admits, faults>>

Awaits(a, answers) == agent[a].waits # None /\ calls[agent[a].waits].step \in answers

\* acceptHubChallengeWithTOFU: a key seen first is kept and then saved; when
\* the file cannot be written the exchange has failed, and the key stays.
Accepted(a, saved, registered) ==
  [agent[a] EXCEPT !.waits = None, !.key = TRUE,
                   !.pin = IF agent[a].key THEN @ ELSE saved,
                   !.connected = saved,
                   !.token = IF saved /\ registered THEN None ELSE @]

Accept(a, saved) ==
  /\ Awaits(a, {"ok"})
  /\ LET c          == agent[a].waits
         registered == calls[c].kind = "register"
         trusted    == agent[a].key \/ Setup[a] = "trust" \/ (Setup[a] = "url" /\ registered)
     IN /\ agent' = [agent EXCEPT ![a] =
             IF trusted THEN Accepted(a, saved, registered) ELSE [@ EXCEPT !.waits = None]]
        /\ calls' = [calls EXCEPT ![c] = Free]
  /\ IF saved THEN UNCHANGED faults ELSE ~agent[a].key /\ Fault
  /\ UNCHANGED <<nodes, tokens, admits>>

\* Slip: what the Hub refuses is not asked again with the Agent's own key.
NoFallback(a) == FALSE

\* A token that is no good may be the Agent's own, from an earlier start.
Fallback(a) ==
  Awaits(a, {"unauthorized"}) /\ calls[agent[a].waits].kind = "register" /\ Setup[a] # "url"

FallBack(a) ==
  /\ Fallback(a)
  /\ calls' = [calls EXCEPT ![agent[a].waits] = Sent(a, "challenge")]
  /\ UNCHANGED <<nodes, tokens, admits, agent, faults>>

GiveUp(a) ==
  /\ Awaits(a, {"unauthorized", "refused"}) /\ ~Fallback(a)
  /\ calls' = [calls EXCEPT ![agent[a].waits] = Free]
  /\ agent' = [agent EXCEPT ![a].waits = None]
  /\ UNCHANGED <<nodes, tokens, admits, faults>>

\* What becomes of a request nobody waits for: it may still arrive.
Abandoned(a, arrives) ==
  [c \in Calls |->
     IF c = agent[a].waits /\ (calls[c].step \in Answers \/ (calls[c].step = "sent" /\ ~arrives))
     THEN Free ELSE calls[c]]

Timeout(a, arrives) ==
  /\ agent[a].waits # None /\ Fault
  /\ calls' = Abandoned(a, arrives)
  /\ agent' = [agent EXCEPT ![a].waits = None]
  /\ UNCHANGED <<nodes, tokens, admits>>

\* The Agent starts again, perhaps with another token.
Restart(a, arrives, t) ==
  /\ t \in Given[a] /\ Fault
  /\ calls' = Abandoned(a, arrives)
  /\ agent' = [agent EXCEPT ![a] = Started(a, agent[a].pin, t)]
  /\ UNCHANGED <<nodes, tokens, admits>>
-----------------------------------------------------------------------------
(* The Hub.                                                                *)

Heard(c) == agent[calls[c].agent].waits = c

\* Slip: an answer lies there though its connection is closed.
AnswerAnyway(c, answer) == calls' = [calls EXCEPT ![c].step = answer]

Answer(c, answer) ==
  calls' = [calls EXCEPT ![c] = IF Heard(c) THEN [@ EXCEPT !.step = answer] ELSE Free]

Proceed(c, step) == calls' = [calls EXCEPT ![c].step = step]

At(c, kind, step) == calls[c].kind = kind /\ calls[c].step = step

Status(c) == nodes[calls[c].agent]

\* Register looks the node up.
Check(c) ==
  /\ At(c, "register", "sent")
  /\ IF Status(c) = "revoked" THEN Answer(c, "refused") ELSE Proceed(c, "checked")
  /\ UNCHANGED <<nodes, tokens, admits, agent, faults>>

\* Slip: the token is only looked at.
ConsumeNothing(c) ==
  /\ At(c, "register", "checked")
  /\ IF tokens[calls[c].token] = "open" THEN Proceed(c, "consumed") ELSE Answer(c, "unauthorized")
  /\ UNCHANGED <<nodes, tokens, admits, agent, faults>>

\* ConsumeEnrollmentToken, one UPDATE.
Consume(c) ==
  /\ At(c, "register", "checked")
  /\ IF tokens[calls[c].token] = "open"
     THEN Proceed(c, "consumed") /\ tokens' = [tokens EXCEPT ![calls[c].token] = "used"]
     ELSE Answer(c, "unauthorized") /\ UNCHANGED tokens
  /\ UNCHANGED <<nodes, admits, agent, faults>>

Admitted(c) ==
  /\ nodes' = [nodes EXCEPT ![calls[c].agent] = "online"]
  /\ admits' = [admits EXCEPT ![calls[c].token] = @ \cup {calls[c].agent}]
  /\ Answer(c, "ok")

\* Slip: the row is written whatever it says.
SaveAnyway(c) ==
  /\ At(c, "register", "consumed") /\ Admitted(c)
  /\ UNCHANGED <<tokens, agent, faults>>

\* SaveNode leaves a revoked row as it is.
SaveNode(c) ==
  /\ At(c, "register", "consumed")
  /\ IF Status(c) = "revoked"
     THEN Answer(c, "refused") /\ UNCHANGED <<nodes, admits>>
     ELSE Admitted(c)
  /\ UNCHANGED <<tokens, agent, faults>>

\* Authenticate looks the node up.
Lookup(c) ==
  /\ At(c, "challenge", "sent")
  /\ CASE Status(c) = "none"    -> Answer(c, "unauthorized")
       [] Status(c) = "revoked" -> Answer(c, "refused")
       [] OTHER                 -> Proceed(c, "known")
  /\ UNCHANGED <<nodes, tokens, admits, agent, faults>>

\* TouchNode keeps a revoked status; a row is never deleted.
Touch(c) ==
  /\ At(c, "challenge", "known") /\ Proceed(c, "touched")
  /\ nodes' = [nodes EXCEPT ![calls[c].agent] = IF @ = "revoked" THEN @ ELSE "online"]
  /\ UNCHANGED <<tokens, admits, agent, faults>>

\* Challenge looks the node up again.
Challenge(c) ==
  /\ At(c, "challenge", "touched")
  /\ Answer(c, IF Status(c) = "revoked" THEN "refused" ELSE "ok")
  /\ UNCHANGED <<nodes, tokens, admits, agent, faults>>

Handle(c) == Check(c) \/ Consume(c) \/ SaveNode(c) \/ Lookup(c) \/ Touch(c) \/ Challenge(c)

Pending(c) == calls[c].step \notin Answers \cup {"free"}

\* Slip: the answer is sent whether the row was written or not.
StoreFailsUnnoticed(c) ==
  /\ Pending(c) /\ Fault
  /\ Answer(c, IF calls[c].step = "consumed" THEN "ok" ELSE "unauthorized")
  /\ UNCHANGED <<nodes, tokens, admits, agent>>

\* A transaction fails: what came before it stays.
StoreFails(c) ==
  /\ Pending(c) /\ Fault
  /\ Answer(c, IF calls[c].kind = "register" THEN "refused" ELSE "unauthorized")
  /\ UNCHANGED <<nodes, tokens, admits, agent>>

\* The Hub dies with the requests it was at.
HubRestart ==
  /\ Fault
  /\ calls' = [c \in Calls |->
       IF ~Pending(c) THEN calls[c]
       ELSE IF Heard(c) THEN [calls[c] EXCEPT !.step = "refused"] ELSE Free]
  /\ UNCHANGED <<nodes, tokens, admits, agent>>

\* The token's time is over; Cleanup removes it, and the used ones.
Expire(t) ==
  /\ tokens[t] = "open" /\ tokens' = [tokens EXCEPT ![t] = "expired"]
  /\ UNCHANGED <<nodes, admits, calls, agent, faults>>

Revoke(a) ==
  /\ nodes[a] = "online" /\ nodes' = [nodes EXCEPT ![a] = "revoked"]
  /\ UNCHANGED <<tokens, admits, calls, agent, faults>>

EnrollNext ==
  \/ \E a \in Agents, c \in Calls : Ask(a, c)
  \/ \E a \in Agents, saved \in BOOLEAN : Accept(a, saved)
  \/ \E a \in Agents : FallBack(a) \/ GiveUp(a) \/ Revoke(a)
  \/ \E a \in Agents, arrives \in BOOLEAN :
       Timeout(a, arrives) \/ \E t \in Tokens : Restart(a, arrives, t)
  \/ \E c \in Calls : Handle(c) \/ StoreFails(c)
  \/ \E t \in Tokens : Expire(t)
  \/ HubRestart

EnrollSpec == EnrollInit /\ [][EnrollNext]_enrollVars

\* Both processes go on: an Agent asks again every second, the Hub answers.
EnrollFairness ==
  /\ \A a \in Agents :
       /\ WF_enrollVars(\E c \in Calls : Ask(a, c))
       /\ WF_enrollVars(\E saved \in BOOLEAN : Accept(a, saved))
       /\ WF_enrollVars(FallBack(a)) /\ WF_enrollVars(GiveUp(a))
  /\ \A c \in Calls : WF_enrollVars(Handle(c))

EnrollFairSpec == EnrollSpec /\ EnrollFairness
-----------------------------------------------------------------------------
Step == {"free", "sent", "checked", "consumed", "known", "touched"} \cup Answers

\* The variables have their types; an answer is one its Agent waits for.
EnrollTypeOK ==
  /\ nodes \in [Agents -> {"none", "online", "revoked"}]
  /\ tokens \in [Tokens -> {"open", "used", "expired"}] /\ admits \in [Tokens -> SUBSET Agents]
  /\ calls \in [Calls -> [kind : {"free", "register", "challenge"}, agent : Agents \cup {None},
                          token : Tokens \cup {None}, step : Step]]
  /\ agent \in [Agents -> [pin : BOOLEAN, key : BOOLEAN, token : Tokens \cup {None},
                           connected : BOOLEAN,
                           waits : Calls \cup {None}]]
  /\ faults \in 0..MaxFaults
  /\ \A c \in Calls : calls[c].step # "free" => calls[c].agent \in Agents
  /\ \A c \in Calls : calls[c].step \in Answers => Heard(c)

\* A node that is revoked stays so, whatever requests of it are half done or
\* arrive late (SaveNode, TouchNode).
RevokedForGood == [][\A a \in Agents : nodes[a] = "revoked" => nodes'[a] = "revoked"]_enrollVars

\* A token makes one Agent a node, also when several hosts, or one again and
\* again, present it at the same time (ConsumeEnrollmentToken).
TokenAdmitsOne == \A t \in Tokens : \A a, b \in admits[t] : a = b

\* An Agent that goes on to send logs is a node the Hub knows, over restarts of
\* either and through answers that came late (ensureAuthenticatedLocked).
ConnectedIsKnown == \A a \in Agents : agent[a].connected => nodes[a] # "none"

\* Tokens, nodes and connected Agents agree.
AdmissionSound == EnrollTypeOK /\ TokenAdmitsOne /\ ConnectedIsKnown

\* An Agent that goes on to send logs has the Hub's key in its file
\* (acceptHubChallengeWithTOFU).
ConnectedIsPinned == \A a \in Agents : agent[a].connected => agent[a].pin

\* An Agent the Hub has made a node gets through, or is revoked, whatever
\* answer it missed (ensureAuthenticatedLocked).
AdmittedConnects ==
  \A a \in Agents : nodes[a] = "online" ~> agent[a].connected \/ nodes[a] = "revoked"
=============================================================================
