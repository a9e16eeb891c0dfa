--------------------------- MODULE IdentityProofs ---------------------------
(***************************************************************************)
(* What Enrollment keeps for any Agents, tokens and requests, and KeyFile  *)
(* for any processes, keys and failures.                                   *)
(*                                                                         *)
(* EnrollTypeOK, ConnectedIsKnown and TokenAdmitsOne are made inductive by *)
(* what the requests on their way know: Asks, Offers, Knows and Spends.    *)
(* One lemma per action says that it keeps Inv; steps that only move a     *)
(* request on, and answers, share QuietKeeps and the lemmas about answers. *)
(***************************************************************************)
EXTENDS Enrollment, KeyFile, TLAPS

\* The answer an Agent waits for is to a request of its own.
Asks == \A a \in Agents : agent[a].waits # None => calls[agent[a].waits].agent = a

\* A request to register carries a token.
Offers ==
  /\ \A a \in Agents : Wanted(a) = "register" => agent[a].token \in Tokens
  /\ \A c \in Calls : calls[c].kind = "register" => calls[c].token \in Tokens

\* Who was looked up, or is told yes, is a node.
Knows ==
  \A c \in Calls :
    calls[c].step \in {"known", "touched", "ok"} => nodes[calls[c].agent] # "none"

\* A token that admitted somebody, or is about to, is not open, and is at most
\* one of both.
Spends ==
  /\ \A t \in Tokens : admits[t] # {} => tokens[t] # "open"
  /\ \A c \in Calls : At(c, "register", "consumed") =>
       /\ tokens[calls[c].token] # "open" /\ admits[calls[c].token] = {}
       /\ \A d \in Calls : At(d, "register", "consumed") /\ calls[d].token = calls[c].token => c = d

\* The inductive invariant.
Inv == EnrollTypeOK /\ Asks /\ Offers /\ Knows /\ ConnectedIsKnown /\ Spends /\ TokenAdmitsOne

Call == [kind : {"free", "register", "challenge"}, agent : Agents \cup {None},
         token : Tokens \cup {None}, step : Step]

\* What EnrollTypeOK says of the requests.
CallsTyped ==
  /\ calls \in [Calls -> Call]
  /\ \A c \in Calls : calls[c].step # "free" => calls[c].agent \in Agents
  /\ \A c \in Calls : calls[c].step \in Answers => agent[calls[c].agent].waits = c

\* What EnrollTypeOK says of the rest.
RestTyped ==
  /\ nodes \in [Agents -> {"none", "online", "revoked"}]
  /\ tokens \in [Tokens -> {"open", "used", "expired"}] /\ admits \in [Tokens -> SUBSET Agents]
  /\ agent \in [Agents -> [pin : BOOLEAN, key : BOOLEAN, token : Tokens \cup {None},
                           connected : BOOLEAN, waits : Calls \cup {None}]]
  /\ faults \in 0..MaxFaults

LEMMA Typed == EnrollTypeOK <=> CallsTyped /\ RestTyped
BY DEF EnrollTypeOK, CallsTyped, RestTyped, Call, Heard

LEMMA TypedNext == EnrollTypeOK' <=> CallsTyped' /\ RestTyped'
BY DEF EnrollTypeOK, CallsTyped, RestTyped, Call, Heard

LEMMA InitInv == EnrollInit => Inv
<1> SUFFICES ASSUME EnrollInit PROVE Inv
  OBVIOUS
<1>1. CallsTyped
  BY DEF EnrollInit, CallsTyped, Call, Free, Step, Answers
<1>2. RestTyped
  <2>1. agent \in [Agents -> [pin : BOOLEAN, key : BOOLEAN, token : Tokens \cup {None},
                             connected : BOOLEAN, waits : Calls \cup {None}]]
    BY DEF EnrollInit, Started
  <2> QED BY <2>1, EnrollmentAssumption DEF EnrollInit, RestTyped
<1>3. Asks /\ Knows /\ ConnectedIsKnown /\ Spends /\ TokenAdmitsOne
  BY EnrollmentAssumption DEF EnrollInit, Asks, Knows, ConnectedIsKnown, Spends, TokenAdmitsOne,
      Started, Free, At
<1>4. Offers
  BY EnrollmentAssumption DEF EnrollInit, Offers, Wanted, Started, Free
<1> QED BY <1>1, <1>2, <1>3, <1>4, Typed DEF Inv

\* The Hub is at a request.
LEMMA AtPending ==
  ASSUME NEW c \in Calls, NEW kind, NEW step, At(c, kind, step), step \notin Answers \cup {"free"}
  PROVE  Pending(c)
BY DEF At, Pending

\* A step takes a request on, and changes nothing else of it.
Moved(c, step) == calls'[c] = [calls[c] EXCEPT !.step = step]

\* What an answer changes (Answer).
LEMMA Answering ==
  ASSUME CallsTyped, NEW c \in Calls, Pending(c), NEW answer \in Answers, Answer(c, answer),
         agent' = agent
  PROVE  /\ CallsTyped' /\ \A d \in Calls \ {c} : calls'[d] = calls[d]
         /\ (calls'[c] = Free /\ ~Heard(c)) \/ (Heard(c) /\ Moved(c, answer))
<1>1. (calls'[c] = Free /\ ~Heard(c)) \/ (Heard(c) /\ Moved(c, answer))
  BY DEF Answer, CallsTyped, Moved
<1>2. \A d \in Calls \ {c} : calls'[d] = calls[d]
  BY DEF Answer, CallsTyped
<1>3. calls' = [d \in Calls |-> calls'[d]]
  BY DEF Answer, CallsTyped
<1>4. calls[c].agent \in Agents /\ calls[c] \in Call
  BY DEF CallsTyped, Pending
<1>5. calls'[c] \in Call
  BY <1>1, <1>4 DEF Call, Free, Step, Answers, Moved
<1> QED BY <1>1, <1>2, <1>3, <1>4, <1>5 DEF CallsTyped, Heard, Moved, Free, Call, Answers

\* What going on with a request changes (Proceed).
LEMMA Proceeding ==
  ASSUME CallsTyped, NEW c \in Calls, Pending(c), NEW step \in Step,
         step \notin Answers \cup {"free"},
         Proceed(c, step), agent' = agent
  PROVE  /\ CallsTyped' /\ \A d \in Calls \ {c} : calls'[d] = calls[d]
         /\ Moved(c, step)
<1>1. calls'[c] = [calls[c] EXCEPT !.step = step] /\ calls[c] \in Call
  BY DEF Proceed, CallsTyped
<1>2. \A d \in Calls \ {c} : calls'[d] = calls[d]
  BY DEF Proceed, CallsTyped
<1>3. calls' = [d \in Calls |-> calls'[d]]
  BY DEF Proceed, CallsTyped
<1>4. calls'[c] \in Call /\ calls'[c].agent = calls[c].agent /\ calls'[c].step = step
  BY <1>1 DEF Call, Step
<1> QED BY <1>1, <1>2, <1>3, <1>4 DEF CallsTyped, Pending, Moved

\* A step of the Hub that writes nothing.
LEMMA QuietKeeps ==
  ASSUME Inv, CallsTyped', UNCHANGED <<nodes, tokens, admits, agent>>, faults' \in 0..MaxFaults,
         NEW c \in Calls, \A d \in Calls \ {c} : calls'[d] = calls[d], NEW step,
         \/ calls'[c] = Free /\ ~Heard(c)
         \/ Moved(c, step),
         step # "consumed",
         step \in {"known", "touched", "ok"} => nodes[calls[c].agent] # "none"
  PROVE  Inv'
<1>0. CallsTyped /\ RestTyped /\ calls[c] \in Call
  BY Typed DEF Inv, CallsTyped
<1>1. EnrollTypeOK'
  <2>1. RestTyped'
    BY <1>0 DEF RestTyped
  <2> QED BY <2>1, TypedNext
<1>2. \/ calls'[c] = Free /\ ~Heard(c)
      \/ /\ calls'[c].kind = calls[c].kind /\ calls'[c].agent = calls[c].agent
         /\ calls'[c].token = calls[c].token /\ calls'[c].step = step
  BY <1>0 DEF Call, Moved
<1>3. Asks'
  BY <1>2, <1>0, EnrollmentAssumption DEF Inv, Asks, Heard, RestTyped
<1>4. Offers'
  BY <1>2 DEF Inv, Offers, Wanted, Free
<1>5. Knows'
  BY <1>2 DEF Inv, Knows, Free
<1>6. ConnectedIsKnown' /\ TokenAdmitsOne'
  BY DEF Inv, ConnectedIsKnown, TokenAdmitsOne
<1>7. Spends'
  <2>1. \A d \in Calls : At(d, "register", "consumed")' =>
          At(d, "register", "consumed") /\ calls'[d].token = calls[d].token
    BY <1>2 DEF At, Free
  <2> QED BY <2>1 DEF Inv, Spends
<1> QED BY <1>1, <1>3, <1>4, <1>5, <1>6, <1>7 DEF Inv

LEMMA CheckKeeps == ASSUME Inv, NEW c \in Calls, Check(c) PROVE Inv'
<1>1. CallsTyped /\ Pending(c) /\ faults' \in 0..MaxFaults
  BY Typed, AtPending DEF Inv, Check, RestTyped, Answers
<1>2. CASE Answer(c, "refused")
  BY <1>1, <1>2, Answering, QuietKeeps DEF Check, Answers
<1>3. CASE Proceed(c, "checked")
  BY <1>1, <1>3, Proceeding, QuietKeeps DEF Check, Step, Answers
<1> QED BY <1>2, <1>3 DEF Check

LEMMA LookupKeeps == ASSUME Inv, NEW c \in Calls, Lookup(c) PROVE Inv'
<1>1. CallsTyped /\ Pending(c) /\ faults' \in 0..MaxFaults
  BY Typed, AtPending DEF Inv, Lookup, RestTyped, Answers
<1>2. CASE Status(c) = "none"
  BY <1>1, <1>2, Answering, QuietKeeps DEF Lookup, Answers
<1>3. CASE Status(c) = "revoked"
  BY <1>1, <1>3, Answering, QuietKeeps DEF Lookup, Answers
<1>4. CASE Status(c) \notin {"none", "revoked"}
  <2>1. Proceed(c, "known")
    BY <1>4 DEF Lookup
  <2>2. CallsTyped' /\ (\A d \in Calls \ {c} : calls'[d] = calls[d]) /\ Moved(c, "known")
    BY <1>1, <2>1, Proceeding DEF Lookup, Step, Answers
  <2>3. UNCHANGED <<nodes, tokens, admits, agent>> /\ nodes[calls[c].agent] # "none"
    BY <1>4 DEF Lookup, Status
  <2>4. ASSUME NEW step, Moved(c, step), step # "consumed" PROVE Inv'
    BY <1>1, <2>2, <2>3, <2>4, QuietKeeps
  <2> QED BY <2>2, <2>4
<1> QED BY <1>2, <1>3, <1>4

LEMMA ChallengeKeeps == ASSUME Inv, NEW c \in Calls, Challenge(c) PROVE Inv'
<1>1. CallsTyped /\ Pending(c) /\ faults' \in 0..MaxFaults
  BY Typed, AtPending DEF Inv, Challenge, RestTyped, Answers
<1>2. nodes[calls[c].agent] # "none"
  BY DEF Inv, Knows, Challenge, At
<1>3. PICK answer \in {"refused", "ok"} : Answer(c, answer)
  BY DEF Challenge
<1> QED BY <1>1, <1>2, <1>3, Answering, QuietKeeps DEF Challenge, Answers

LEMMA StoreFailsKeeps == ASSUME Inv, NEW c \in Calls, StoreFails(c) PROVE Inv'
<1>1. CallsTyped /\ Pending(c) /\ faults' \in 0..MaxFaults
  BY Typed, EnrollmentAssumption DEF Inv, StoreFails, Fault, RestTyped
<1>2. PICK answer \in {"refused", "unauthorized"} : Answer(c, answer)
  BY DEF StoreFails
<1> QED BY <1>1, <1>2, Answering, QuietKeeps DEF StoreFails, Answers

LEMMA ConsumeKeeps == ASSUME Inv, NEW c \in Calls, Consume(c) PROVE Inv'
<1>1. CallsTyped /\ RestTyped /\ Pending(c) /\ faults' \in 0..MaxFaults
  BY Typed, AtPending DEF Inv, Consume, RestTyped, Answers
<1>2. CASE tokens[calls[c].token] # "open"
  <2>1. Answer(c, "unauthorized") /\ UNCHANGED <<nodes, tokens, admits, agent>>
    BY <1>2 DEF Consume
  <2>2. /\ CallsTyped' /\ \A d \in Calls \ {c} : calls'[d] = calls[d]
        /\ \/ calls'[c] = Free /\ ~Heard(c)
           \/ Moved(c, "unauthorized")
    BY <1>1, <2>1, Answering DEF Answers
  <2> QED BY <1>1, <2>1, <2>2, QuietKeeps
<1>3. CASE tokens[calls[c].token] = "open"
  <2> DEFINE t == calls[c].token
  <2>1. CallsTyped' /\ \A d \in Calls \ {c} : calls'[d] = calls[d]
    BY <1>1, <1>3, Proceeding DEF Consume, Step, Answers
  <2>2. /\ calls'[c].kind = "register" /\ calls'[c].agent = calls[c].agent
        /\ calls'[c].token = t /\ calls'[c].step = "consumed"
    <3>1. Moved(c, "consumed") /\ calls[c] \in Call
      BY <1>1, <1>3, Proceeding DEF Consume, Step, Answers, CallsTyped
    <3> QED BY <3>1 DEF Consume, At, Call, Moved
  <2>3. tokens' = [tokens EXCEPT ![t] = "used"] /\ UNCHANGED <<nodes, admits, agent, faults>>
    BY <1>3 DEF Consume
  <2>4. EnrollTypeOK'
    <3>1. RestTyped'
      BY <1>1, <2>3 DEF RestTyped
    <3> QED BY <2>1, <3>1, TypedNext
  <2>5. Asks'
    BY <1>1, <2>1, <2>2, <2>3 DEF Inv, Asks, RestTyped
  <2>6. Offers'
    BY <2>1, <2>2, <2>3 DEF Inv, Offers, Wanted, Consume, At
  <2>7. Knows' /\ ConnectedIsKnown' /\ TokenAdmitsOne'
    BY <2>1, <2>2, <2>3 DEF Inv, Knows, ConnectedIsKnown, TokenAdmitsOne
  <2>8. Spends'
    <3>1. t \in Tokens
      BY DEF Inv, Offers, Consume, At
    <3>2. admits[t] = {} /\ \A d \in Calls : At(d, "register", "consumed") => calls[d].token # t
      BY <1>3, <3>1 DEF Inv, Spends
    <3>3. \A d \in Calls \ {c} : At(d, "register", "consumed")' => At(d, "register", "consumed")
      BY <2>1 DEF At
    <3>4. \A u \in Tokens : u # t => tokens'[u] = tokens[u]
      BY <1>1, <2>3 DEF RestTyped
    <3>5. tokens'[t] = "used"
      BY <1>1, <2>3, <3>1 DEF RestTyped
    <3>6. \A d \in Calls : At(d, "register", "consumed") => calls[d].token \in Tokens
      BY DEF Inv, Offers, At
    <3> QED BY <2>1, <2>2, <2>3, <3>1, <3>2, <3>3, <3>4, <3>5, <3>6 DEF Inv, Spends
  <2> QED BY <2>4, <2>5, <2>6, <2>7, <2>8 DEF Inv
<1> QED BY <1>2, <1>3

LEMMA SaveKeeps == ASSUME Inv, NEW c \in Calls, SaveNode(c) PROVE Inv'
<1>1. CallsTyped /\ RestTyped /\ Pending(c) /\ faults' \in 0..MaxFaults
  BY Typed, AtPending DEF Inv, SaveNode, RestTyped, Answers
<1>2. CASE Status(c) = "revoked"
  BY <1>1, <1>2, Answering, QuietKeeps DEF SaveNode, Answers
<1>3. CASE Status(c) # "revoked"
  <2> DEFINE t == calls[c].token
             b == calls[c].agent
  <2>1. CallsTyped' /\ \A d \in Calls \ {c} : calls'[d] = calls[d]
    BY <1>1, <1>3, Answering DEF SaveNode, Admitted, Answers
  <2>2. \/ calls'[c] = Free /\ ~Heard(c)
        \/ /\ calls'[c].kind = "register" /\ calls'[c].agent = b
           /\ calls'[c].token = t /\ calls'[c].step = "ok"
    BY <1>1, <1>3, Answering DEF SaveNode, Admitted, At, Answers, CallsTyped, Call, Moved
  <2>3. /\ nodes' = [nodes EXCEPT ![b] = "online"] /\ admits' = [admits EXCEPT ![t] = @ \cup {b}]
        /\ UNCHANGED <<tokens, agent, faults>>
    BY <1>3 DEF SaveNode, Admitted
  <2>4. b \in Agents /\ t \in Tokens
    BY <1>1 DEF Inv, Offers, SaveNode, At, CallsTyped
  <2>5. \A a \in Agents : nodes'[a] = IF a = b THEN "online" ELSE nodes[a]
    BY <1>1, <2>3, <2>4 DEF RestTyped
  <2>6. \A u \in Tokens : admits'[u] = IF u = t THEN admits[t] \cup {b} ELSE admits[u]
    BY <1>1, <2>3, <2>4 DEF RestTyped
  <2>7. EnrollTypeOK'
    <3>1. RestTyped'
      BY <1>1, <2>3, <2>4 DEF RestTyped
    <3> QED BY <2>1, <3>1, TypedNext
  <2>8. Asks'
    BY <1>1, <2>1, <2>2, <2>3 DEF Inv, Asks, Heard, RestTyped
  <2>9. Offers'
    BY <2>1, <2>2, <2>3, <2>4 DEF Inv, Offers, Wanted, Free
  <2>10. Knows'
    <3>1. \A d \in Calls : calls'[d].step \in {"known", "touched", "ok"}
           => calls'[d].agent \in Agents
      BY <2>1 DEF CallsTyped
    <3> QED BY <2>1, <2>2, <2>5, <3>1 DEF Inv, Knows, Free
  <2>11. ConnectedIsKnown'
    BY <2>3, <2>5 DEF Inv, ConnectedIsKnown
  <2>12. admits[t] = {} /\ tokens[t] # "open"
         /\ \A d \in Calls \ {c} : At(d, "register", "consumed") => calls[d].token # t
    BY DEF Inv, Spends, SaveNode
  <2>13. Spends'
    <3>1. \A d \in Calls : At(d, "register", "consumed")' =>
            d # c /\ At(d, "register", "consumed") /\ calls'[d] = calls[d]
      BY <2>1, <2>2 DEF At, Free
    <3>2. \A d \in Calls : At(d, "register", "consumed") => calls[d].token \in Tokens
      BY DEF Inv, Offers, At
    <3> QED BY <2>3, <2>6, <2>12, <3>1, <3>2 DEF Inv, Spends
  <2>14. TokenAdmitsOne'
    BY <2>6, <2>12 DEF Inv, TokenAdmitsOne
  <2> QED BY <2>7, <2>8, <2>9, <2>10, <2>11, <2>13, <2>14 DEF Inv
<1> QED BY <1>2, <1>3

LEMMA AskKeeps == ASSUME Inv, NEW a \in Agents, NEW c \in Calls, Ask(a, c) PROVE Inv'
<1>0. CallsTyped /\ RestTyped
  BY Typed DEF Inv
<1>1. CallsTyped'
  BY <1>0, EnrollmentAssumption DEF CallsTyped, RestTyped, Ask, Sent, Wanted, Call, Step
<1>2. RestTyped'
  BY <1>0 DEF RestTyped, Ask
<1>3. Asks'
  BY <1>0, EnrollmentAssumption DEF Inv, CallsTyped, Asks, Ask, Sent, Free
<1>4. Offers'
  BY <1>0 DEF Inv, Offers, Ask, Sent, Wanted
<1>5. Knows'
  BY <1>0 DEF Inv, Knows, Ask, Sent
<1>6. ConnectedIsKnown'
  BY <1>0 DEF Inv, ConnectedIsKnown, Ask
<1>7. Spends'
  BY <1>0 DEF Inv, CallsTyped, Spends, Ask, Sent, At
<1>8. TokenAdmitsOne'
  BY <1>0 DEF Inv, TokenAdmitsOne, Ask
<1> QED BY <1>1, <1>2, <1>3, <1>4, <1>5, <1>6, <1>7, <1>8, TypedNext DEF Inv

LEMMA AcceptKeeps ==
  ASSUME Inv, NEW a \in Agents, NEW saved \in BOOLEAN, Accept(a, saved)
  PROVE  Inv'
<1>0. CallsTyped /\ RestTyped
  BY Typed DEF Inv
<1>1. CallsTyped'
  BY <1>0 DEF CallsTyped, RestTyped, Accept, Call, Free, Step, Answers
<1>2. RestTyped'
  <2> DEFINE shape == [pin : BOOLEAN, key : BOOLEAN, token : Tokens \cup {None},
                       connected : BOOLEAN, waits : Calls \cup {None}]
  <2>1. agent[a] \in shape
    BY <1>0 DEF RestTyped
  <2>2. \A registered \in BOOLEAN : Accepted(a, saved, registered) \in shape
    BY <2>1 DEF Accepted
  <2>3. [agent[a] EXCEPT !.waits = None] \in shape
    BY <2>1
  <2>4. agent' \in [Agents -> shape]
    BY <1>0, <2>2, <2>3 DEF Accept, RestTyped
  <2>5. faults' \in 0..MaxFaults
    BY <1>0, EnrollmentAssumption DEF Accept, RestTyped, Fault
  <2> QED BY <1>0, <2>4, <2>5 DEF Accept, RestTyped
<1>3. Asks'
  BY <1>0 DEF Inv, RestTyped, Asks, Accept, Accepted
<1>4. Offers'
  BY <1>0 DEF Inv, Offers, Wanted, Accept, Accepted, Free
<1>5. Knows'
  BY <1>0 DEF Inv, Knows, Accept, Free
<1>6. ConnectedIsKnown'
  BY <1>0 DEF Inv, RestTyped, Asks, Knows, ConnectedIsKnown, Accept, Awaits
<1>7. Spends'
  BY <1>0 DEF Inv, CallsTyped, Spends, Accept, Free, At
<1>8. TokenAdmitsOne'
  BY <1>0 DEF Inv, TokenAdmitsOne, Accept
<1> QED BY <1>1, <1>2, <1>3, <1>4, <1>5, <1>6, <1>7, <1>8, TypedNext DEF Inv

LEMMA FallBackKeeps == ASSUME Inv, NEW a \in Agents, FallBack(a) PROVE Inv'
<1>0. CallsTyped /\ RestTyped
  BY Typed DEF Inv
<1>1. CallsTyped'
  BY <1>0 DEF CallsTyped, FallBack, Sent, Call, Step
<1>2. RestTyped'
  BY <1>0 DEF RestTyped, FallBack
<1>3. Asks'
  BY <1>0 DEF Inv, Asks, FallBack, Sent
<1>4. Offers'
  BY <1>0 DEF Inv, Offers, Wanted, FallBack, Sent
<1>5. Knows'
  BY <1>0 DEF Inv, Knows, FallBack, Sent
<1>6. ConnectedIsKnown'
  BY <1>0 DEF Inv, ConnectedIsKnown, FallBack
<1>7. Spends'
  BY <1>0 DEF Inv, Spends, FallBack, Sent, At
<1>8. TokenAdmitsOne'
  BY <1>0 DEF Inv, TokenAdmitsOne, FallBack
<1> QED BY <1>1, <1>2, <1>3, <1>4, <1>5, <1>6, <1>7, <1>8, TypedNext DEF Inv

LEMMA GiveUpKeeps == ASSUME Inv, NEW a \in Agents, GiveUp(a) PROVE Inv'
<1>0. CallsTyped /\ RestTyped
  BY Typed DEF Inv
<1>1. CallsTyped'
  BY <1>0 DEF CallsTyped, RestTyped, GiveUp, Call, Free, Step, Answers
<1>2. RestTyped'
  BY <1>0 DEF RestTyped, GiveUp
<1>3. Asks'
  BY <1>0 DEF Inv, RestTyped, Asks, GiveUp
<1>4. Offers'
  BY <1>0 DEF Inv, Offers, Wanted, GiveUp, Free
<1>5. Knows'
  BY <1>0 DEF Inv, Knows, GiveUp, Free
<1>6. ConnectedIsKnown'
  BY <1>0 DEF Inv, ConnectedIsKnown, GiveUp
<1>7. Spends'
  BY <1>0 DEF Inv, Spends, GiveUp, Free, At
<1>8. TokenAdmitsOne'
  BY <1>0 DEF Inv, TokenAdmitsOne, GiveUp
<1> QED BY <1>1, <1>2, <1>3, <1>4, <1>5, <1>6, <1>7, <1>8, TypedNext DEF Inv

LEMMA TimeoutKeeps ==
  ASSUME Inv, NEW a \in Agents, NEW arrives \in BOOLEAN, Timeout(a, arrives)
  PROVE  Inv'
<1>0. CallsTyped /\ RestTyped
  BY Typed DEF Inv
<1>1. CallsTyped'
  BY <1>0 DEF CallsTyped, Timeout, Abandoned, Call, Free, Step, Answers
<1>2. RestTyped'
  BY <1>0, EnrollmentAssumption DEF RestTyped, Timeout, Fault
<1>3. Asks'
  BY <1>0 DEF Inv, RestTyped, Asks, Timeout, Abandoned
<1>4. Offers'
  BY <1>0 DEF Inv, Offers, Wanted, Timeout, Abandoned, Free
<1>5. Knows'
  BY <1>0 DEF Inv, Knows, Timeout, Abandoned, Free
<1>6. ConnectedIsKnown'
  BY <1>0 DEF Inv, ConnectedIsKnown, Timeout
<1>7. Spends'
  BY <1>0 DEF Inv, Offers, Spends, Timeout, Abandoned, Free, At
<1>8. TokenAdmitsOne'
  BY <1>0 DEF Inv, TokenAdmitsOne, Timeout
<1> QED BY <1>1, <1>2, <1>3, <1>4, <1>5, <1>6, <1>7, <1>8, TypedNext DEF Inv

LEMMA RestartKeeps ==
  ASSUME Inv, NEW a \in Agents, NEW arrives \in BOOLEAN, NEW t \in Tokens, Restart(a, arrives, t)
  PROVE  Inv'
<1>0. CallsTyped /\ RestTyped
  BY Typed DEF Inv
<1>1. CallsTyped'
  BY <1>0 DEF CallsTyped, Restart, Abandoned, Call, Free, Step, Answers
<1>2. RestTyped'
  BY <1>0, EnrollmentAssumption DEF RestTyped, Restart, Started, Fault
<1>3. Asks'
  BY <1>0 DEF Inv, RestTyped, Asks, Restart, Abandoned, Started
<1>4. Offers'
  BY <1>0 DEF Inv, Offers, Wanted, Restart, Abandoned, Started, Free
<1>5. Knows'
  BY <1>0 DEF Inv, Knows, Restart, Abandoned, Free
<1>6. ConnectedIsKnown'
  BY <1>0 DEF Inv, ConnectedIsKnown, Restart, Started
<1>7. Spends'
  BY <1>0 DEF Inv, Offers, Spends, Restart, Abandoned, Free, At
<1>8. TokenAdmitsOne'
  BY <1>0 DEF Inv, TokenAdmitsOne, Restart
<1> QED BY <1>1, <1>2, <1>3, <1>4, <1>5, <1>6, <1>7, <1>8, TypedNext DEF Inv

LEMMA TouchKeeps == ASSUME Inv, NEW c \in Calls, Touch(c) PROVE Inv'
<1>0. CallsTyped /\ RestTyped
  BY Typed DEF Inv
<1>1. CallsTyped'
  BY <1>0 DEF CallsTyped, Touch, Proceed, Call, At, Step, Answers
<1>2. RestTyped'
  BY <1>0 DEF RestTyped, Touch
<1>3. Asks'
  BY <1>0 DEF Inv, Asks, Touch, Proceed
<1>4. Offers'
  BY <1>0 DEF Inv, Offers, Wanted, Touch, Proceed
<1>5. Knows'
  BY <1>0 DEF Inv, Knows, Touch, Proceed, At
<1>6. ConnectedIsKnown'
  BY <1>0 DEF Inv, ConnectedIsKnown, Touch
<1>7. Spends'
  BY <1>0 DEF Inv, Spends, Touch, Proceed, At
<1>8. TokenAdmitsOne'
  BY <1>0 DEF Inv, TokenAdmitsOne, Touch
<1> QED BY <1>1, <1>2, <1>3, <1>4, <1>5, <1>6, <1>7, <1>8, TypedNext DEF Inv

LEMMA HubRestartKeeps == ASSUME Inv, HubRestart PROVE Inv'
<1>0. CallsTyped /\ RestTyped
  BY Typed DEF Inv
<1>1. CallsTyped'
  <2>1. ASSUME NEW c \in Calls
        PROVE  \/ calls'[c] = calls[c] /\ ~Pending(c)
               \/ calls'[c] = Free
               \/ Heard(c) /\ Pending(c) /\ calls'[c] = [calls[c] EXCEPT !.step = "refused"]
    BY DEF HubRestart
  <2>2. ASSUME NEW c \in Calls PROVE calls'[c] \in Call
    <3>1. calls[c] \in Call
      BY <1>0 DEF CallsTyped
    <3>2. [calls[c] EXCEPT !.step = "refused"] \in Call
      BY <3>1 DEF Call, Step, Answers
    <3>3. Free \in Call
      BY DEF Free, Call, Step
    <3> QED BY <2>1, <3>1, <3>2, <3>3
  <2>3. ASSUME NEW c \in Calls, Pending(c)
        PROVE  [calls[c] EXCEPT !.step = "refused"].agent = calls[c].agent
               /\ calls[c].agent \in Agents
    BY <2>3, <1>0 DEF CallsTyped, Call, Pending
  <2>4. \A c \in Calls : calls'[c].step # "free" => calls'[c].agent \in Agents
    <3> SUFFICES ASSUME NEW c \in Calls, calls'[c].step # "free" PROVE calls'[c].agent \in Agents
      OBVIOUS
    <3>1. CASE calls'[c] = calls[c]
      BY <1>0, <3>1 DEF CallsTyped
    <3>2. CASE calls'[c] = Free
      BY <3>2 DEF Free
    <3>3. CASE Pending(c) /\ calls'[c] = [calls[c] EXCEPT !.step = "refused"]
      BY <2>3, <3>3
    <3> QED BY <2>1, <3>1, <3>2, <3>3
  <2>5. \A c \in Calls : calls'[c].step \in Answers => agent'[calls'[c].agent].waits = c
    BY <1>0, <2>1, <2>3 DEF CallsTyped, Free, Answers, Heard, HubRestart
  <2>6. calls' = [c \in Calls |-> calls'[c]]
    BY DEF HubRestart
  <2> QED BY <2>2, <2>4, <2>5, <2>6 DEF CallsTyped
<1>2. RestTyped'
  BY <1>0, EnrollmentAssumption DEF RestTyped, HubRestart, Fault
<1>3. Asks'
  BY <1>0 DEF Inv, RestTyped, Asks, HubRestart, Heard
<1>4. Offers'
  BY <1>0 DEF Inv, Offers, Wanted, HubRestart, Free
<1>5. Knows'
  BY <1>0 DEF Inv, Knows, HubRestart, Free
<1>6. ConnectedIsKnown'
  BY <1>0 DEF Inv, ConnectedIsKnown, HubRestart
<1>7. Spends'
  BY <1>0 DEF Inv, RestTyped, Spends, HubRestart, Free, At
<1>8. TokenAdmitsOne'
  BY <1>0 DEF Inv, TokenAdmitsOne, HubRestart
<1> QED BY <1>1, <1>2, <1>3, <1>4, <1>5, <1>6, <1>7, <1>8, TypedNext DEF Inv

LEMMA ExpireKeeps == ASSUME Inv, NEW t \in Tokens, Expire(t) PROVE Inv'
<1>0. CallsTyped /\ RestTyped
  BY Typed DEF Inv
<1>1. CallsTyped'
  BY <1>0 DEF CallsTyped, Expire
<1>2. RestTyped'
  BY <1>0 DEF RestTyped, Expire
<1>3. Asks'
  BY <1>0 DEF Inv, Asks, Expire
<1>4. Offers'
  BY <1>0 DEF Inv, Offers, Wanted, Expire
<1>5. Knows'
  BY <1>0 DEF Inv, Knows, Expire
<1>6. ConnectedIsKnown'
  BY <1>0 DEF Inv, ConnectedIsKnown, Expire
<1>7. Spends'
  BY <1>0 DEF Inv, Spends, Expire, At
<1>8. TokenAdmitsOne'
  BY <1>0 DEF Inv, TokenAdmitsOne, Expire
<1> QED BY <1>1, <1>2, <1>3, <1>4, <1>5, <1>6, <1>7, <1>8, TypedNext DEF Inv

LEMMA RevokeKeeps == ASSUME Inv, NEW a \in Agents, Revoke(a) PROVE Inv'
<1>0. CallsTyped /\ RestTyped
  BY Typed DEF Inv
<1>1. CallsTyped'
  BY <1>0 DEF CallsTyped, Revoke
<1>2. RestTyped'
  BY <1>0 DEF RestTyped, Revoke
<1>3. Asks'
  BY <1>0 DEF Inv, Asks, Revoke
<1>4. Offers'
  BY <1>0 DEF Inv, Offers, Wanted, Revoke
<1>5. Knows'
  BY <1>0 DEF Inv, Knows, Revoke
<1>6. ConnectedIsKnown'
  BY <1>0 DEF Inv, ConnectedIsKnown, Revoke
<1>7. Spends'
  BY <1>0 DEF Inv, Spends, Revoke, At
<1>8. TokenAdmitsOne'
  BY <1>0 DEF Inv, TokenAdmitsOne, Revoke
<1> QED BY <1>1, <1>2, <1>3, <1>4, <1>5, <1>6, <1>7, <1>8, TypedNext DEF Inv

LEMMA StutterKeeps == ASSUME Inv, UNCHANGED enrollVars PROVE Inv'
BY DEF Inv, EnrollTypeOK, Asks, Offers, Wanted, Knows, ConnectedIsKnown, Spends, TokenAdmitsOne, At,
    Heard, enrollVars

LEMMA NextKeeps == Inv /\ [EnrollNext]_enrollVars => Inv'
<1> SUFFICES ASSUME Inv, [EnrollNext]_enrollVars PROVE Inv'
  OBVIOUS
<1>1. CASE \E a \in Agents, c \in Calls : Ask(a, c)
  BY <1>1, AskKeeps
<1>2. CASE \E a \in Agents, saved \in BOOLEAN : Accept(a, saved)
  BY <1>2, AcceptKeeps
<1>3. CASE \E a \in Agents : FallBack(a) \/ GiveUp(a) \/ Revoke(a)
  BY <1>3, FallBackKeeps, GiveUpKeeps, RevokeKeeps
<1>4. CASE \E a \in Agents, arrives \in BOOLEAN :
             Timeout(a, arrives) \/ \E t \in Tokens : Restart(a, arrives, t)
  BY <1>4, TimeoutKeeps, RestartKeeps
<1>5. CASE \E c \in Calls : Handle(c) \/ StoreFails(c)
  BY <1>5, CheckKeeps, ConsumeKeeps, SaveKeeps, LookupKeeps, TouchKeeps, ChallengeKeeps,
      StoreFailsKeeps
     DEF Handle
<1>6. CASE \E t \in Tokens : Expire(t)
  BY <1>6, ExpireKeeps
<1>7. CASE HubRestart
  BY <1>7, HubRestartKeeps
<1> QED BY <1>1, <1>2, <1>3, <1>4, <1>5, <1>6, <1>7, StutterKeeps DEF EnrollNext

\* The inductive invariant holds after any requests, timeouts, failed
\* transactions, restarts, expiries and revocations.
THEOREM InvHolds == EnrollSpec => []Inv
<1> QED BY InitInv, NextKeeps, PTL DEF EnrollSpec
-----------------------------------------------------------------------------
\* The variables keep their types, for any Agents, tokens, requests and faults.
THEOREM TypesAreKept == EnrollSpec => []EnrollTypeOK
<1>1. Inv => EnrollTypeOK
  BY DEF Inv
<1> QED BY <1>1, InvHolds, PTL

\* A token makes at most one Agent a node (ConsumeEnrollmentToken): while a
\* request has used it and not yet saved its node, nobody else can be there.
THEOREM TokenAdmitsAtMostOne == EnrollSpec => []TokenAdmitsOne
<1>1. Inv => TokenAdmitsOne
  BY DEF Inv
<1> QED BY <1>1, InvHolds, PTL

\* An Agent goes on to send logs only when the Hub has a row for it
\* (ensureAuthenticatedLocked).
THEOREM ConnectedAgentIsNode == EnrollSpec => []ConnectedIsKnown
<1>1. Inv => ConnectedIsKnown
  BY DEF Inv
<1> QED BY <1>1, InvHolds, PTL

\* No step takes a revocation back (SaveNode, TouchNode).
LEMMA RevocationStays ==
  ASSUME Inv, [EnrollNext]_enrollVars, NEW a \in Agents, nodes[a] = "revoked" PROVE nodes'[a] = "revoked"
<1>1. nodes \in [Agents -> {"none", "online", "revoked"}]
  BY DEF Inv, EnrollTypeOK
<1>2. CASE \E c \in Calls : SaveNode(c)
  BY <1>1, <1>2 DEF SaveNode, Admitted, Status
<1>3. CASE \E c \in Calls : Touch(c)
  BY <1>1, <1>3 DEF Touch
<1>4. CASE \E b \in Agents : Revoke(b)
  BY <1>1, <1>4 DEF Revoke
<1>5. CASE UNCHANGED nodes
  BY <1>5
<1>6. (\E c \in Calls : SaveNode(c) \/ Touch(c)) \/ (\E b \in Agents : Revoke(b)) \/ UNCHANGED nodes
  BY DEF EnrollNext, Handle, Ask, Accept, FallBack, GiveUp, Timeout, Restart, Check, Consume, Lookup,
         Challenge, StoreFails, HubRestart, Expire, enrollVars
<1> QED BY <1>2, <1>3, <1>4, <1>5, <1>6

\* A revoked node stays revoked, for any requests half done or late.
THEOREM RevocationIsKept == EnrollSpec => RevokedForGood
<1>1. Inv /\ [EnrollNext]_enrollVars
        => [\A a \in Agents : nodes[a] = "revoked" => nodes'[a] = "revoked"]_enrollVars
  BY RevocationStays
<1> QED BY <1>1, InvHolds, PTL DEF EnrollSpec, RevokedForGood

\* Tokens, nodes and connected Agents agree, whatever is under way.
THEOREM AdmissionIsSound == EnrollSpec => []AdmissionSound
BY TypesAreKept, TokenAdmitsAtMostOne, ConnectedAgentIsNode, PTL DEF AdmissionSound
-----------------------------------------------------------------------------
(* Key files. *)

\* Who has written the file has its key, as nobody else can write it.
WrittenIsFile == \A p \in Procs : Stands(p, "close") => proc[p].key = keyFile /\ keyFile \in Keys

\* Who is to write has a key.
WriterHasKey == \A p \in Procs : proc[p].step \in {"create", "write"} => proc[p].key \in Keys

\* The inductive invariant.
KeyInv == KeyTypeOK /\ UpHasFile /\ OneWriter /\ WrittenIsFile /\ WriterHasKey

LEMMA KeyInitInv == KeyInit => KeyInv
BY KeyFileAssumption
   DEF KeyInit, KeyInv, KeyTypeOK, UpHasFile, OneWriter, WrittenIsFile, WriterHasKey, Stands, Steps

\* A step of p that leaves the file alone and does not begin to write.
LEMMA KeyQuietKeeps ==
  ASSUME KeyInv, NEW p \in Procs, NEW step \in Steps, NEW key \in Keys \cup {NoKey},
         proc' = [proc EXCEPT ![p] = [step |-> step, key |-> key]], UNCHANGED keyFile,
         step \in {"up", "close"} => key = keyFile /\ keyFile \in Keys,
         step = "create" => key \in Keys,
         step # "write",
         used' \subseteq Keys, kills' \in 0..MaxKills
  PROVE  KeyInv'
<1>1. KeyTypeOK'
  BY DEF KeyInv, KeyTypeOK
<1>2. \A q \in Procs : proc'[q] = IF q = p THEN [step |-> step, key |-> key] ELSE proc[q]
  BY DEF KeyInv, KeyTypeOK
<1>3. UpHasFile' /\ WrittenIsFile' /\ WriterHasKey'
  BY <1>2 DEF KeyInv, UpHasFile, WrittenIsFile, WriterHasKey, Stands
<1>4. OneWriter'
  BY <1>2 DEF KeyInv, OneWriter, Stands
<1> QED BY <1>1, <1>3, <1>4 DEF KeyInv

\* A fault leaves the number of faults within its bound.
LEMMA FaultBound == KeyInv /\ Harm => kills' \in 0..MaxKills
BY KeyFileAssumption DEF KeyInv, KeyTypeOK, Harm

LEMMA GoesIs ==
  ASSUME KeyTypeOK, NEW p \in Procs, NEW step, Goes(p, step)
  PROVE  /\ proc' = [proc EXCEPT ![p] = [step |-> step, key |-> proc[p].key]]
         /\ proc[p].key \in Keys \cup {NoKey}
<1>1. proc[p] \in [step : Steps, key : Keys \cup {NoKey}]
  BY DEF KeyTypeOK
<1>2. proc[p] = [step |-> proc[p].step, key |-> proc[p].key]
  BY <1>1
<1>3. proc' = [proc EXCEPT ![p] = [proc[p] EXCEPT !.step = step]]
  BY DEF Goes
<1>4. [proc[p] EXCEPT !.step = step] = [step |-> step, key |-> proc[p].key]
  BY <1>1, <1>2
<1> QED BY <1>1, <1>3, <1>4

LEMMA ReadKeeps == ASSUME KeyInv, NEW p \in Procs, Read(p) PROVE KeyInv'
<1>1. CASE keyFile = NoKey /\ Goes(p, "generate")
  <2>1. /\ proc' = [proc EXCEPT ![p] = [step |-> "generate", key |-> proc[p].key]]
        /\ proc[p].key \in Keys \cup {NoKey}
    BY <1>1, GoesIs DEF KeyInv
  <2> QED BY <2>1, KeyQuietKeeps DEF Read, KeyInv, KeyTypeOK, Steps
<1>2. CASE keyFile = Part /\ Goes(p, "failed")
  <2>1. /\ proc' = [proc EXCEPT ![p] = [step |-> "failed", key |-> proc[p].key]]
        /\ proc[p].key \in Keys \cup {NoKey}
    BY <1>2, GoesIs DEF KeyInv
  <2> QED BY <2>1, KeyQuietKeeps DEF Read, KeyInv, KeyTypeOK, Steps
<1>3. CASE keyFile \in Keys /\ proc' = [proc EXCEPT ![p] = [step |-> "up", key |-> keyFile]]
  BY <1>3, KeyQuietKeeps DEF Read, KeyInv, KeyTypeOK, Steps
<1> QED BY <1>1, <1>2, <1>3 DEF Read

LEMMA GenerateKeeps == ASSUME KeyInv, NEW p \in Procs, Generate(p) PROVE KeyInv'
<1>1. PICK k \in Keys \ used :
        used' = used \cup {k} /\ proc' = [proc EXCEPT ![p] = [step |-> "create", key |-> k]]
  BY DEF Generate
<1> QED BY <1>1, KeyQuietKeeps DEF Generate, KeyInv, KeyTypeOK, Steps

\* The one who finds no file is the only one to write.
LEMMA CreateKeeps == ASSUME KeyInv, NEW p \in Procs, CreateFile(p) PROVE KeyInv'
<1>1. CASE keyFile = NoKey
  <2>1. proc' = [proc EXCEPT ![p] = [step |-> "write", key |-> proc[p].key]] /\ keyFile' = Part
    BY <1>1, GoesIs DEF CreateFile, KeyInv
  <2>2. \A q \in Procs : ~Stands(q, "write") /\ ~Stands(q, "close") /\ ~Stands(q, "up")
    BY <1>1, KeyFileAssumption DEF KeyInv, OneWriter, UpHasFile, WrittenIsFile
  <2> QED BY <1>1, <2>1, <2>2 DEF CreateFile, KeyInv, KeyTypeOK, UpHasFile, OneWriter, WrittenIsFile,
                                  WriterHasKey, Stands, Steps
<1>2. CASE keyFile # NoKey
  BY <1>2, KeyQuietKeeps DEF CreateFile, KeyInv, KeyTypeOK, Steps
<1> QED BY <1>1, <1>2

\* The writer is alone, and nobody is up that knew another key.
LEMMA WriteKeeps == ASSUME KeyInv, NEW p \in Procs, WriteFile(p) PROVE KeyInv'
<1>1. proc' = [proc EXCEPT ![p] = [step |-> "close", key |-> proc[p].key]] /\ keyFile' = proc[p].key
  BY GoesIs DEF WriteFile, KeyInv
<1>2. proc[p].key \in Keys
  BY DEF WriteFile, KeyInv, WriterHasKey, Stands
<1>3. keyFile = Part /\ \A q \in Procs \ {p} : ~Stands(q, "write")
  BY DEF WriteFile, KeyInv, OneWriter
<1>4. \A q \in Procs : ~Stands(q, "close") /\ ~Stands(q, "up")
  BY <1>3, KeyFileAssumption DEF KeyInv, UpHasFile, WrittenIsFile
<1> QED BY <1>1, <1>2, <1>3, <1>4 DEF WriteFile, KeyInv, KeyTypeOK, UpHasFile, OneWriter, WrittenIsFile,
                                      WriterHasKey, Stands, Steps

LEMMA CloseKeeps == ASSUME KeyInv, NEW p \in Procs, Close(p) PROVE KeyInv'
<1>1. /\ proc' = [proc EXCEPT ![p] = [step |-> "up", key |-> proc[p].key]]
      /\ proc[p].key \in Keys \cup {NoKey}
  BY GoesIs DEF Close, KeyInv
<1>2. proc[p].key = keyFile /\ keyFile \in Keys
  BY DEF Close, KeyInv, WrittenIsFile
<1> QED BY <1>1, <1>2, KeyQuietKeeps DEF Close, KeyInv, KeyTypeOK, Steps

LEMMA EndsKeep ==
  ASSUME KeyInv, NEW p \in Procs, Start(p) \/ Again(p) \/ WriteFails(p) \/ Kill(p)
  PROVE  KeyInv'
<1>1. CASE Start(p)
  <2>1. /\ proc' = [proc EXCEPT ![p] = [step |-> "read", key |-> proc[p].key]]
        /\ proc[p].key \in Keys \cup {NoKey}
    BY <1>1, GoesIs DEF Start, KeyInv
  <2> QED BY <1>1, <2>1, KeyQuietKeeps DEF Start, KeyInv, KeyTypeOK, Steps
<1>2. CASE Again(p)
  BY <1>2, KeyQuietKeeps DEF Again, KeyInv, KeyTypeOK, Steps
<1>3. CASE WriteFails(p)
  <2>1. /\ proc' = [proc EXCEPT ![p] = [step |-> "failed", key |-> proc[p].key]]
        /\ proc[p].key \in Keys \cup {NoKey}
    BY <1>3, GoesIs DEF WriteFails, KeyInv
  <2> QED BY <1>3, <2>1, FaultBound, KeyQuietKeeps DEF WriteFails, KeyInv, KeyTypeOK, Steps
<1>4. CASE Kill(p)
  BY <1>4, FaultBound, KeyQuietKeeps DEF Kill, KeyInv, KeyTypeOK, Steps
<1> QED BY <1>1, <1>2, <1>3, <1>4

LEMMA KeyNextKeeps == KeyInv /\ [KeyNext]_keyVars => KeyInv'
<1> SUFFICES ASSUME KeyInv, [KeyNext]_keyVars PROVE KeyInv'
  OBVIOUS
<1>1. ASSUME NEW p \in Procs, Run(p) \/ WriteFails(p) \/ Kill(p) PROVE KeyInv'
  BY <1>1, ReadKeeps, GenerateKeeps, CreateKeeps, WriteKeeps, CloseKeeps, EndsKeep DEF Run
<1>2. CASE UNCHANGED keyVars
  BY <1>2 DEF keyVars, KeyInv, KeyTypeOK, UpHasFile, OneWriter, WrittenIsFile, WriterHasKey, Stands
<1> QED BY <1>1, <1>2 DEF KeyNext

\* The inductive invariant holds of every start, kill and failure.
THEOREM KeyInvHolds == KeySpec => []KeyInv
<1> QED BY KeyInitInv, KeyNextKeeps, PTL DEF KeySpec

\* Whatever processes start together, are killed or fail, those that run have
\* the key of the file (LoadOrCreateIdentity, LoadOrCreateKey).
THEOREM RunningHasFile == KeySpec => []UpHasFile
<1>1. KeyInv => UpHasFile
  BY DEF KeyInv
<1> QED BY <1>1, KeyInvHolds, PTL

\* No two processes write the file (O_EXCL).
THEOREM WritesAlone == KeySpec => []OneWriter
<1>1. KeyInv => OneWriter
  BY DEF KeyInv
<1> QED BY <1>1, KeyInvHolds, PTL

\* A file with a key is never changed again.
THEOREM IdentityStays == KeySpec => KeyStays
<1>1. KeyInv /\ [KeyNext]_keyVars => [(keyFile \in Keys) => keyFile' = keyFile]_keyVars
  <2> SUFFICES ASSUME KeyInv, KeyNext, keyFile \in Keys PROVE keyFile' = keyFile
    OBVIOUS
  <2>1. keyFile # NoKey /\ keyFile # Part
    BY KeyFileAssumption
  <2>2. \A p \in Procs : ~Stands(p, "write")
    BY <2>1 DEF KeyInv, OneWriter
  <2> QED BY <2>1, <2>2 DEF KeyNext, Run, Start, Again, Read, Generate, CreateFile, WriteFile, Close,
                            WriteFails, Kill
<1> QED BY <1>1, KeyInvHolds, PTL DEF KeySpec, KeyStays

\* Processes that share a key file share its key.
THEOREM KeyIsShared == KeySpec => []KeySound
<1>1. KeyInv => KeySound
  BY DEF KeyInv, KeySound
<1> QED BY <1>1, KeyInvHolds, PTL
=============================================================================
