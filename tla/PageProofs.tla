----------------------------- MODULE PageProofs -----------------------------
(***************************************************************************)
(* What the lists of the web application's pages promise, for every number *)
(* of rules, entries, queries, tabs and requests: the alert policies page, *)
(* the list of entries with its detail, and the query library.             *)
(*                                                                         *)
(* The lists are filtered, sorted and searched by the operators of Places; *)
(* the lemmas of PlacesProofs about them carry every argument here.        *)
(***************************************************************************)
EXTENDS AlertsPage, EntryList, QueryLibrary, PlacesProofs
-----------------------------------------------------------------------------
(* The alert policies page: no webhook is lost. *)

\* A request is of a kind the Hub serves, and the form a save carries is of the
\* rule it is about.
CallFits(c) ==
  /\ {"kind", "id", "form"} \subseteq DOMAIN c
  /\ c.kind \in {"list", "create", "save", "toggle", "delete"}
  /\ c.kind = "save" => c.form.editing = c.id

\* What the Hub's rules are, as far as their webhooks go: an id not given yet
\* has no rule.  (What names and answers are makes no difference.)
RulesHeld ==
  /\ DOMAIN hub = Ids
  /\ \A id \in Ids : hub[id] # None => id \in used /\ "hook" \in DOMAIN hub[id]

AlertsInv == RulesHeld /\ \A c \in calls : CallFits(c)

LEMMA AlertsInitInv == Init => AlertsInv
<1> SUFFICES ASSUME Init PROVE AlertsInv
  OBVIOUS
<1>1. RulesHeld
  BY DEF Init, Hubs, Rule, RulesHeld
<1>2. \A c \in calls : CallFits(c)
  BY DEF Init, CallFits
<1> QED BY <1>1, <1>2 DEF AlertsInv

LEMMA SendingKeeps ==
  ASSUME AlertsInv, NEW kind, NEW id, NEW enabled, Sends(kind, id, enabled),
         kind \in {"list", "create", "save", "toggle", "delete"},
         kind = "save" => dialog.editing = id, UNCHANGED <<hub, used>>
  PROVE  AlertsInv' /\ KeepsWebhook
<1> DEFINE c == [n |-> made + 1, kind |-> kind, id |-> id, form |-> dialog,
                 enabled |-> enabled, state |-> "sent", answer |-> <<>>]
<1>1. calls' = calls \cup {c}
  BY DEF Sends
<1>2. CallFits(c)
  BY DEF CallFits
<1> HIDE DEF c
<1>3. \A d \in calls' : CallFits(d)
  BY <1>1, <1>2 DEF AlertsInv
<1> QED BY <1>3 DEF AlertsInv, RulesHeld, KeepsWebhook

\* What does not touch the Hub, and sends nothing new.
LEMMA QuietKeeps ==
  ASSUME AlertsInv, UNCHANGED <<hub, used>>, calls' \subseteq calls
  PROVE  AlertsInv' /\ KeepsWebhook
BY DEF AlertsInv, RulesHeld, KeepsWebhook

LEMMA UserCallsKeep == ASSUME AlertsInv, User PROVE AlertsInv' /\ KeepsWebhook
<1>1. CASE LoadAlerts
  BY <1>1, SendingKeeps DEF LoadAlerts
<1>2. CASE FilterAlerts \/ OpenCreate \/ CloseDialog
  BY <1>2, QuietKeeps DEF FilterAlerts, OpenCreate, CloseDialog
<1>3. CASE SubmitAlert
  <2> DEFINE kind == IF dialog.editing = None THEN "create" ELSE "save"
  <2>1. Sends(kind, dialog.editing, TRUE) /\ UNCHANGED <<hub, used>>
    BY <1>3 DEF SubmitAlert
  <2>2. kind \in {"create", "save"}
    OBVIOUS
  <2> HIDE DEF kind
  <2> QED BY <2>1, <2>2, SendingKeeps
<1>4. ASSUME NEW name \in Names, NEW hook \in BOOLEAN, NEW remove \in BOOLEAN,
             FillIn(name, hook, remove)
      PROVE  AlertsInv' /\ KeepsWebhook
  BY <1>4, QuietKeeps DEF FillIn
<1>5. ASSUME NEW item, OpenEdit(item) PROVE AlertsInv' /\ KeepsWebhook
  BY <1>5, QuietKeeps DEF OpenEdit
<1>6. ASSUME NEW item, Toggle(item) \/ Delete(item) PROVE AlertsInv' /\ KeepsWebhook
  <2>1. Sends("toggle", item.id, ~item.rule.enabled) \/ Sends("delete", item.id, TRUE)
    BY <1>6 DEF Toggle, Delete, Click
  <2>2. UNCHANGED <<hub, used>>
    BY <1>6 DEF Toggle, Delete, Click
  <2> QED BY <2>1, <2>2, SendingKeeps
<1> QED BY <1>1, <1>2, <1>3, <1>4, <1>5, <1>6 DEF User

\* Serving a call takes no webhook away but for a save that asks for it.
LEMMA EffectKeeps ==
  ASSUME RulesHeld, NEW c, CallFits(c), Possible(c), hub' = Effect(c)
  PROVE  /\ DOMAIN hub' = Ids
         /\ \A id \in Ids : hub'[id] # None => "hook" \in DOMAIN hub'[id]
         /\ \A id \in Ids : hub[id] # None /\ hub'[id] # None /\ hub[id].hook /\ ~hub'[id].hook =>
              c.form.editing = id /\ c.form.remove
<1>1. CASE c.kind = "list"
  BY <1>1 DEF Effect, RulesHeld
<1>2. CASE c.kind = "create"
  <2> DEFINE new == CHOOSE i \in Ids \ used : TRUE
             rule == [name |-> c.form.name, enabled |-> TRUE, hook |-> c.form.hook]
  <2>1. new \in Ids \ used
    BY <1>2 DEF Possible
  <2>2. "hook" \in DOMAIN rule
    OBVIOUS
  <2>3. hub' = [hub EXCEPT ![new] = rule]
    BY <1>2 DEF Effect
  <2> HIDE DEF new, rule
  <2>4. hub[new] = None
    BY <2>1 DEF RulesHeld
  <2> QED BY <2>1, <2>2, <2>3, <2>4 DEF RulesHeld
<1>3. CASE c.kind = "save"
  <2> DEFINE rule == Patched(hub[c.id], c.form)
  <2>1. hub' = [hub EXCEPT ![c.id] = rule] /\ hub[c.id] # None /\ c.form.editing = c.id
    BY <1>3 DEF Effect, Possible, CallFits
  <2>2. ASSUME c.id \in Ids
        PROVE  "hook" \in DOMAIN rule /\ (hub[c.id].hook /\ ~rule.hook => c.form.remove)
    BY <2>1, <2>2 DEF RulesHeld, Patched
  <2> HIDE DEF rule
  <2> QED BY <2>1, <2>2 DEF RulesHeld
<1>4. CASE c.kind = "toggle"
  <2> DEFINE rule == [hub[c.id] EXCEPT !.enabled = c.enabled]
  <2>1. hub' = [hub EXCEPT ![c.id] = rule] /\ hub[c.id] # None
    BY <1>4 DEF Effect, Possible
  <2>2. ASSUME c.id \in Ids PROVE "hook" \in DOMAIN rule /\ rule.hook = hub[c.id].hook
    BY <2>1, <2>2 DEF RulesHeld
  <2> HIDE DEF rule
  <2> QED BY <2>1, <2>2 DEF RulesHeld
<1>5. CASE c.kind = "delete"
  <2>1. hub' = [hub EXCEPT ![c.id] = None]
    BY <1>5 DEF Effect
  <2> QED BY <2>1 DEF RulesHeld
<1> QED BY <1>1, <1>2, <1>3, <1>4, <1>5 DEF CallFits

LEMMA ServingKeeps ==
  ASSUME AlertsInv, NEW c \in calls, Serve(c) PROVE AlertsInv' /\ KeepsWebhook
<1>1. CallFits(c) /\ RulesHeld
  BY DEF AlertsInv
<1>2. ASSUME NEW d, \E state, answer : d = [c EXCEPT !.state = state, !.answer = answer]
      PROVE  CallFits(d)
  BY <1>1, <1>2 DEF CallFits
<1>3. CASE HubServes(c)
  <2>1. /\ Possible(c) /\ hub' = Effect(c) /\ used' = used \cup {i \in Ids : hub'[i] # None}
    BY <1>3 DEF HubServes
  <2>2. PICK ok \in BOOLEAN :
          calls' = (calls \ {c}) \cup {[c EXCEPT !.state = IF ok THEN "ok" ELSE "failed",
                                                 !.answer = IF ok THEN AnswerOf(c) ELSE <<>>]}
    BY <1>3 DEF HubServes
  <2>3. \A d \in calls' : CallFits(d)
    BY <1>2, <2>2 DEF AlertsInv
  <2>4. /\ DOMAIN hub' = Ids
        /\ \A id \in Ids : hub'[id] # None => "hook" \in DOMAIN hub'[id]
        /\ KeepsWebhook
    BY <1>1, <2>1, EffectKeeps DEF KeepsWebhook
  <2>5. RulesHeld'
    BY <2>1, <2>4 DEF RulesHeld
  <2> QED BY <2>3, <2>4, <2>5 DEF AlertsInv
<1>4. CASE HubRefuses(c)
  <2> DEFINE d == [c EXCEPT !.state = "failed"]
  <2>1. calls' = (calls \ {c}) \cup {d} /\ UNCHANGED <<hub, used>>
    BY <1>4 DEF HubRefuses
  <2>2. CallFits(d)
    BY <1>1 DEF CallFits
  <2> HIDE DEF d
  <2>3. \A e \in calls' : CallFits(e)
    BY <2>1, <2>2 DEF AlertsInv
  <2> QED BY <2>1, <2>3 DEF AlertsInv, RulesHeld, KeepsWebhook
<1> QED BY <1>3, <1>4 DEF Serve

LEMMA AlertsNextKeeps == AlertsInv /\ [Next]_vars => AlertsInv' /\ KeepsWebhook
<1> SUFFICES ASSUME AlertsInv, [Next]_vars PROVE AlertsInv' /\ KeepsWebhook
  OBVIOUS
<1>1. CASE UNCHANGED vars
  BY <1>1, QuietKeeps DEF vars
<1>2. ASSUME NEW c \in calls, Arrival(c) PROVE AlertsInv' /\ KeepsWebhook
  <2>1. UNCHANGED <<hub, used>> /\ calls' = calls \ {c}
    BY <1>2 DEF Arrival, ListArrives, SaveArrives, ToggleArrives, DeleteArrives, FailureArrives,
                Arrives
  <2> QED BY <2>1, QuietKeeps
<1> QED BY <1>1, <1>2, UserCallsKeep, ServingKeeps DEF Next

\* README: "partial edits retain an existing webhook unless it is explicitly
\* removed" - whatever forms are under way, and in whatever order the Hub gets them.
THEOREM WebhooksAreKept == Spec => WebhookKept
<1>1. AlertsInv /\ [Next]_vars => [KeepsWebhook]_vars
  BY AlertsNextKeeps
<1> QED BY <1>1, AlertsInitInv, AlertsNextKeeps, PTL DEF Spec, WebhookKept
-----------------------------------------------------------------------------
(* The alert policies page shows what the Hub has. *)

LEMMA OnceLength ==
  ASSUME NEW S, NEW l \in Seq(S), \A i, j \in DOMAIN l : l[i] = l[j] => i = j
  PROVE  IsFiniteSet(Range(l)) /\ Len(l) = Cardinality(Range(l))
<1> DEFINE n == Len(l)
<1>1. n \in Nat /\ DOMAIN l = 1 .. n /\ l \in [1 .. n -> S]
  OBVIOUS
<1>2. IsFiniteSet(1 .. n) /\ Cardinality(1 .. n) = n
  <2>1. 1 \in Int /\ n \in Int
    BY <1>1
  <2>2. IsFiniteSet(1 .. n) /\ Cardinality(1 .. n) = IF 1 > n THEN 0 ELSE n - 1 + 1
    BY <2>1, FS_Interval
  <2>3. (IF 1 > n THEN 0 ELSE n - 1 + 1) = n
    BY <1>1
  <2> QED BY <2>2, <2>3
<1>3. l \in Bijection(1 .. n, Range(l))
  <2>1. l \in [1 .. n -> Range(l)]
    BY <1>1 DEF Range
  <2>2. \A y \in Range(l) : \E x \in 1 .. n : l[x] = y
    BY <1>1 DEF Range
  <2> HIDE DEF n
  <2> QED BY <1>1, <2>1, <2>2 DEF Bijection, Injection, Surjection, IsInjective
<1>4. ExistsBijection(1 .. n, Range(l))
  BY <1>3 DEF ExistsBijection
<1> HIDE DEF n
<1>5. IsFiniteSet(Range(l)) /\ Cardinality(Range(l)) = n
  BY <1>2, <1>4, FS_Bijection
<1> QED BY <1>5 DEF n

LEMMA SetToSeqIs ==
  ASSUME NEW S, IsFiniteSet(S)
  PROVE  /\ SetToSeq(S) \in Seq(S) /\ Len(SetToSeq(S)) = Cardinality(S)
         /\ Range(SetToSeq(S)) = S
         /\ \A i, j \in DOMAIN SetToSeq(S) : SetToSeq(S)[i] = SetToSeq(S)[j] => i = j
<1> DEFINE n == Cardinality(S)
           l == SetToSeq(S)
<1>1. n \in Nat /\ ExistsBijection(1 .. n, S)
  BY FS_CardinalityType
<1>2. \E f \in [1 .. n -> S] : IsInjective(f)
  BY <1>1 DEF ExistsBijection, Bijection, Injection
<1>3. l \in [1 .. n -> S] /\ IsInjective(l)
  BY <1>2 DEF SetToSeq
<1> HIDE DEF l
<1>4. l \in Seq(S) /\ Len(l) = n /\ DOMAIN l = 1 .. n
  BY <1>1, <1>3
<1>5. \A i, j \in DOMAIN l : l[i] = l[j] => i = j
  BY <1>3 DEF IsInjective
<1>6. Len(l) = Cardinality(Range(l))
  BY <1>4, <1>5, OnceLength
<1>7. Range(l) \in SUBSET S
  BY <1>3 DEF Range
<1>8. Range(l) = S
  BY <1>4, <1>6, <1>7, FS_Subset
<1> QED BY <1>4, <1>5, <1>8 DEF l

\* The page is in step with the rules h: it lists each of them once.
Shows(l, h) ==
  /\ \A i \in DOMAIN l : h[l[i].id] # None /\ l[i].rule = h[l[i].id]
  /\ \A id \in Ids : h[id] # None => \E i \in DOMAIN l : l[i].id = id
  /\ \A i, j \in DOMAIN l : l[i].id = l[j].id => i = j

LEMMA ShownIs ==
  ASSUME NEW x \in ShownRules
  PROVE  x.id \in Ids /\ x.rule \in Rule /\ x.rule # None /\ x = Shown(x.id, x.rule)
BY AlertsAssumption DEF ShownRules, Shown

LEMMA IsShown ==
  ASSUME NEW id \in Ids, NEW rule \in Rule
  PROVE  Shown(id, rule) \in ShownRules /\ Shown(id, rule).id = id /\ Shown(id, rule).rule = rule
BY DEF ShownRules, Shown

\* What a full load answers.
LEMMA ListedIs ==
  ASSUME NEW h \in Hubs
  PROVE  /\ Listed(h) \in Seq(ShownRules) /\ Shows(Listed(h), h)
         /\ Range(Listed(h)) = {Shown(id, h[id]) : id \in {i \in Ids : h[i] # None}}
<1> DEFINE I == {i \in Ids : h[i] # None}
           S == {Shown(id, h[id]) : id \in I}
           up == [id \in I |-> Shown(id, h[id])]
           l == Listed(h)
<1>1. \A id \in I : id \in Ids /\ h[id] \in Rule /\ h[id] # None
  BY DEF Hubs
<1>2. IsFiniteSet(I)
  <2>1. I \in SUBSET Ids
    OBVIOUS
  <2> QED BY <2>1, AlertsAssumption, FS_Subset
<1>3. up \in Surjection(I, S)
  <2>1. up \in [I -> S]
    OBVIOUS
  <2>2. \A t \in S : \E i \in I : up[i] = t
    OBVIOUS
  <2> QED BY <2>1, <2>2 DEF Surjection
<1>4. IsFiniteSet(S)
  <2> HIDE DEF up, S, I
  <2> QED BY <1>2, <1>3, FS_Surjection
<1>5. \A id \in I : /\ Shown(id, h[id]) \in ShownRules
                    /\ Shown(id, h[id]).id = id /\ Shown(id, h[id]).rule = h[id]
  BY <1>1, IsShown
<1>6. /\ \A x \in S : x.id \in I /\ x.rule = h[x.id] /\ x \in ShownRules
      /\ \A id \in I : \E x \in S : x.id = id
      /\ \A x, y \in S : x.id = y.id => x = y
  <2> SUFFICES /\ \A x \in S : x.id \in I /\ x.rule = h[x.id] /\ x \in ShownRules
               /\ \A x \in S : x = Shown(x.id, h[x.id])
               /\ \A id \in I : \E x \in S : x.id = id
    BY Zenon
  <2>1. \A x \in S : \E id \in I : x = Shown(id, h[id])
    OBVIOUS
  <2>2. \A id \in I : Shown(id, h[id]) \in S
    OBVIOUS
  <2> HIDE DEF S, I
  <2>3. ASSUME NEW x \in S
        PROVE  x.id \in I /\ x.rule = h[x.id] /\ x \in ShownRules /\ x = Shown(x.id, h[x.id])
    <3>1. PICK id \in I : x = Shown(id, h[id])
      BY <2>1
    <3>2. x.id = id /\ x.rule = h[id] /\ x \in ShownRules
      BY <1>5, <3>1
    <3> QED BY <3>1, <3>2
  <2> QED BY <1>5, <2>2, <2>3
<1>7. l = SetToSeq(S)
  BY DEF Listed
<1>8. \A id \in Ids : h[id] # None <=> id \in I
  OBVIOUS
<1> HIDE DEF l, S, I
<1>9. /\ l \in Seq(S) /\ Range(l) = S
      /\ \A i, j \in DOMAIN l : l[i] = l[j] => i = j
  BY <1>4, <1>7, SetToSeqIs
<1>10. /\ \A i \in DOMAIN l : l[i] \in S
       /\ \A x \in S : \E i \in DOMAIN l : l[i] = x
  BY <1>9 DEF Range
<1>11. S \subseteq ShownRules
  BY <1>6
<1>12. l \in Seq(ShownRules)
  BY <1>9, <1>11
<1>13. \A i \in DOMAIN l : h[l[i].id] # None /\ l[i].rule = h[l[i].id]
  BY <1>1, <1>6, <1>10
<1>14. \A id \in Ids : h[id] # None => \E i \in DOMAIN l : l[i].id = id
  BY <1>6, <1>8, <1>10
<1>15. \A i, j \in DOMAIN l : l[i].id = l[j].id => i = j
  BY <1>6, <1>9, <1>10
<1>16. Shows(l, h)
  BY <1>13, <1>14, <1>15 DEF Shows
<1> QED BY <1>9, <1>12, <1>16 DEF l, S, I

\* What shows the rules is, but for the order, what a full load answers.
LEMMA ShowsAsListed ==
  ASSUME NEW h \in Hubs, NEW l \in Seq(ShownRules), Shows(l, h)
  PROVE  Range(l) = Range(Listed(h)) /\ Len(l) = Cardinality(Range(l))
<1>1. \A i \in DOMAIN l : l[i] \in ShownRules
  OBVIOUS
<1>2. \A i \in DOMAIN l : l[i].id \in Ids /\ h[l[i].id] # None /\ l[i] = Shown(l[i].id, h[l[i].id])
  BY <1>1, ShownIs DEF Shows
<1>3. \A i, j \in DOMAIN l : l[i] = l[j] => i = j
  BY DEF Shows
<1>4. Len(l) = Cardinality(Range(l))
  BY <1>3, OnceLength
<1> DEFINE S == {Shown(id, h[id]) : id \in {i \in Ids : h[i] # None}}
<1>5. ASSUME NEW x \in Range(l) PROVE x \in S
  <2>1. PICK i \in DOMAIN l : x = l[i]
    BY DEF Range
  <2> QED BY <1>2, <2>1
<1>6. ASSUME NEW x \in S PROVE x \in Range(l)
  <2>1. PICK id \in Ids : h[id] # None /\ x = Shown(id, h[id])
    OBVIOUS
  <2>2. PICK i \in DOMAIN l : l[i].id = id
    BY <2>1 DEF Shows
  <2>3. x = l[i]
    BY <1>2, <2>1, <2>2
  <2> QED BY <2>3 DEF Range
<1>7. Range(l) = S
  BY <1>5, <1>6
<1>8. Range(Listed(h)) = S
  BY ListedIs
<1> QED BY <1>4, <1>7, <1>8

\* What is left of the rules when one is deleted.
Left(id) == Kept(rules, {i \in DOMAIN rules : rules[i].id # id})

\* What the page draws when the answer of a call arrives.
Drawing(c) ==
  CASE c.kind = "list" -> c.answer
    [] c.kind = "create" -> c.answer \o rules
    [] c.kind \in {"save", "toggle"} -> Replaced(c.answer)
    [] c.kind = "delete" -> Left(c.id)

\* What a call under way carries.
CallSound(c) ==
  /\ c.kind \in {"save", "toggle", "delete"} => c.id \in Ids
  /\ c.kind = "create" => c.id = None
  /\ c.kind \in {"save", "toggle"} /\ c.state = "ok" => Len(c.answer) = 1

\* Ids not given yet have no rule.
UsedHeld == \A id \in Ids : hub[id] # None => id \in used

\* The only call under way will leave the page in step.
Due(c) ==
  /\ \A d \in calls : d = c
  /\ c.kind # "list" /\ c.state = "sent" => Shows(rules, hub)
  /\ c.state = "ok" => Shows(Drawing(c), hub)

OnCourse == ~astray => (calls = {} => Shows(rules, hub)) /\ \A c \in calls : Due(c)

\* What makes InStep inductive: between two calls the page shows the Hub's rules;
\* during one, what its answer will lead to does.
PageInv == TypeOK /\ UsedHeld /\ (\A c \in calls : CallSound(c)) /\ OnCourse

\* The rule that a call changes, adds or deletes.
Touches(c, id) ==
  /\ \A i \in Ids : i # id => hub'[i] = hub[i]
  /\ c.kind = "create" => c.id = None /\ id \notin used
  /\ c.kind # "create" => c.id = id /\ hub[id] # None
  /\ c.kind = "delete" => hub'[id] = None
  /\ c.kind # "delete" => hub'[id] \in Rule

\* What serving a call does to the Hub's rules.
LEMMA EffectIs ==
  ASSUME TypeOK, UsedHeld, NEW c \in Call, CallSound(c), Possible(c), hub' = Effect(c)
  PROVE  /\ hub' \in Hubs
         /\ c.kind = "list" => hub' = hub
         /\ c.kind # "list" => \E id \in Ids : Touches(c, id)
<1>1. hub \in [Ids -> Rule \cup {None}] /\ None \notin Ids /\ None \notin Rule
  BY AlertsAssumption DEF TypeOK, Hubs
<1>2. /\ c.kind \in {"list", "create", "save", "toggle", "delete"} /\ c.form \in Form
      /\ c.enabled \in BOOLEAN
  BY DEF Call
<1>3. c.form.name \in Names /\ c.form.hook \in BOOLEAN /\ c.form.remove \in BOOLEAN
  BY <1>2 DEF Form
<1>4. CASE c.kind = "list"
  BY <1>1, <1>4 DEF Effect, Hubs
<1>5. CASE c.kind = "create"
  <2> DEFINE new == CHOOSE i \in Ids \ used : TRUE
             rule == [name |-> c.form.name, enabled |-> TRUE, hook |-> c.form.hook]
  <2>1. new \in Ids \ used
    BY <1>5 DEF Possible
  <2>2. hub' = [hub EXCEPT ![new] = rule]
    BY <1>5 DEF Effect
  <2>3. rule \in Rule
    BY <1>3 DEF Rule
  <2>4. c.id = None
    BY <1>5 DEF CallSound
  <2> HIDE DEF new, rule
  <2>5. hub' \in Hubs /\ hub'[new] \in Rule /\ \A i \in Ids : i # new => hub'[i] = hub[i]
    BY <1>1, <2>1, <2>2, <2>3 DEF Hubs
  <2>6. Touches(c, new)
    BY <1>5, <2>1, <2>4, <2>5 DEF Touches
  <2> QED BY <1>5, <2>1, <2>5, <2>6
<1>6. ASSUME c.kind \in {"save", "toggle", "delete"}
      PROVE  c.id \in Ids /\ hub[c.id] \in Rule /\ hub[c.id] # None
  <2>1. c.id \in Ids /\ hub[c.id] # None
    BY <1>6 DEF CallSound, Possible
  <2> QED BY <1>1, <2>1
<1>7. CASE c.kind = "save"
  <2> DEFINE rule == Patched(hub[c.id], c.form)
             hook == ~c.form.remove /\ (c.form.hook \/ hub[c.id].hook)
  <2>1. hub' = [hub EXCEPT ![c.id] = rule]
    BY <1>7 DEF Effect
  <2>2. hook \in BOOLEAN
    OBVIOUS
  <2>3. rule = [hub[c.id] EXCEPT !.name = c.form.name, !.hook = hook]
    BY DEF Patched
  <2> HIDE DEF hook, rule
  <2>4. rule \in Rule
    BY <1>3, <1>6, <1>7, <2>2, <2>3 DEF Rule
  <2>5. hub' \in Hubs /\ hub'[c.id] \in Rule /\ \A i \in Ids : i # c.id => hub'[i] = hub[i]
    BY <1>1, <1>6, <1>7, <2>1, <2>4 DEF Hubs
  <2>6. Touches(c, c.id)
    BY <1>6, <1>7, <2>5 DEF Touches
  <2> QED BY <1>6, <1>7, <2>5, <2>6
<1>8. CASE c.kind = "toggle"
  <2> DEFINE rule == [hub[c.id] EXCEPT !.enabled = c.enabled]
  <2>1. hub' = [hub EXCEPT ![c.id] = rule]
    BY <1>8 DEF Effect
  <2>2. rule \in Rule
    BY <1>2, <1>6, <1>8 DEF Rule
  <2> HIDE DEF rule
  <2>3. hub' \in Hubs /\ hub'[c.id] \in Rule /\ \A i \in Ids : i # c.id => hub'[i] = hub[i]
    BY <1>1, <1>6, <1>8, <2>1, <2>2 DEF Hubs
  <2>4. Touches(c, c.id)
    BY <1>6, <1>8, <2>3 DEF Touches
  <2> QED BY <1>6, <1>8, <2>3, <2>4
<1>9. CASE c.kind = "delete"
  <2>1. hub' = [hub EXCEPT ![c.id] = None]
    BY <1>9 DEF Effect
  <2>2. hub' \in Hubs /\ hub'[c.id] = None /\ \A i \in Ids : i # c.id => hub'[i] = hub[i]
    BY <1>1, <1>6, <1>9, <2>1 DEF Hubs
  <2>3. Touches(c, c.id)
    BY <1>6, <1>9, <2>2 DEF Touches
  <2> QED BY <1>6, <1>9, <2>2, <2>3
<1> QED BY <1>2, <1>4, <1>5, <1>7, <1>8, <1>9

\* What the Hub answers: the rule that changed, unless it is gone.
LEMMA AnswerIs ==
  ASSUME TypeOK, UsedHeld, NEW c \in Call, CallSound(c), Possible(c), hub' = Effect(c)
  PROVE  /\ AnswerOf(c) \in Seq(ShownRules)
         /\ c.kind = "list" => Shows(AnswerOf(c), hub')
         /\ \A id \in Ids : c.kind \in {"create", "save", "toggle"} /\ Touches(c, id) =>
              Len(AnswerOf(c)) = 1 /\ AnswerOf(c)[1] = Shown(id, hub'[id])
<1>1. hub \in Hubs /\ hub' \in Hubs /\ (c.kind = "list" => hub' = hub)
  BY EffectIs DEF TypeOK
<1>2. CASE c.kind = "list"
  <2>1. AnswerOf(c) = Listed(hub)
    BY <1>2 DEF AnswerOf
  <2> QED BY <1>1, <1>2, <2>1, ListedIs
<1>3. CASE c.kind # "list"
  <2> DEFINE I == {j \in Ids : hub'[j] # None /\ (j = c.id \/ j \notin used)}
             S == {Shown(i, hub'[i]) : i \in I}
             up == [i \in I |-> Shown(i, hub'[i])]
             l == AnswerOf(c)
  <2>1. l = SetToSeq(S)
    BY <1>3 DEF AnswerOf
  <2>2. IsFiniteSet(I)
    <3>1. I \in SUBSET Ids
      OBVIOUS
    <3> QED BY <3>1, AlertsAssumption, FS_Subset
  <2>3. up \in Surjection(I, S)
    <3>1. up \in [I -> S]
      OBVIOUS
    <3>2. \A t \in S : \E i \in I : up[i] = t
      OBVIOUS
    <3> QED BY <3>1, <3>2 DEF Surjection
  <2>4. IsFiniteSet(S)
    <3> HIDE DEF up, S, I
    <3> QED BY <2>2, <2>3, FS_Surjection
  <2>5. S \subseteq ShownRules
    <3>1. \A i \in I : i \in Ids /\ hub'[i] \in Rule
      BY <1>1 DEF Hubs
    <3>2. \A i \in I : Shown(i, hub'[i]) \in ShownRules
      BY <3>1, IsShown
    <3> HIDE DEF I
    <3> QED BY <3>2
  <2>6. /\ l \in Seq(S) /\ Len(l) = Cardinality(S) /\ Range(l) = S
    <3> HIDE DEF S, l
    <3> QED BY <2>1, <2>4, SetToSeqIs
  <2>7. l \in Seq(ShownRules)
    <3> HIDE DEF S, l
    <3> QED BY <2>5, <2>6
  <2>8. ASSUME NEW id \in Ids, c.kind \in {"create", "save", "toggle"}, Touches(c, id)
        PROVE  Len(l) = 1 /\ l[1] = Shown(id, hub'[id])
    <3>0. /\ hub'[id] \in Rule /\ \A i \in Ids : i # id => hub'[i] = hub[i]
          /\ c.id = id \/ (c.id = None /\ id \notin used)
      BY <2>8 DEF Touches
    <3>1. \A i \in Ids : i # id /\ hub'[i] # None => i \in used
      BY <3>0 DEF UsedHeld
    <3>2. None \notin Ids /\ None \notin Rule
      BY AlertsAssumption
    <3>3. hub'[id] # None /\ (id = c.id \/ id \notin used)
      BY <3>0, <3>2
    <3>4. c.id = id \/ c.id \notin Ids
      BY <3>0, <3>2
    <3>5. \A i \in I : i = id
      BY <3>1, <3>4
    <3>6. id \in I
      BY <3>3
    <3> DEFINE x == Shown(id, hub'[id])
    <3>7. S = {x}
      <4>1. x \in S
        BY <3>6
      <4>2. ASSUME NEW y \in S PROVE y = x
        <5>1. PICK i \in I : y = Shown(i, hub'[i])
          OBVIOUS
        <5> QED BY <3>5, <5>1
      <4> QED BY <4>1, <4>2
    <3> HIDE DEF x, S, l
    <3>8. Cardinality(S) = 1
      BY <3>7, FS_Singleton
    <3>9. l[1] \in S
      BY <2>6, <3>8
    <3> QED BY <2>6, <3>7, <3>8, <3>9 DEF x
  <2> QED BY <1>3, <2>7, <2>8
<1> QED BY <1>2, <1>3

\* The page with one rule in place of what it showed of it.
LEMMA ReplacedIs ==
  ASSUME rules \in Seq(ShownRules), NEW answer \in Seq(ShownRules), Len(answer) = 1
  PROVE  /\ Replaced(answer) \in Seq(ShownRules) /\ DOMAIN Replaced(answer) = DOMAIN rules
         /\ \A i \in DOMAIN rules :
              Replaced(answer)[i] = IF rules[i].id = answer[1].id THEN answer[1] ELSE rules[i]
<1> DEFINE a == answer[1]
<1>1. a \in ShownRules
  OBVIOUS
<1> HIDE DEF a
<1>2. \A i \in DOMAIN rules : rules[i] \in ShownRules
  OBVIOUS
<1> DEFINE r == [i \in DOMAIN rules |-> IF rules[i].id = a.id THEN a ELSE rules[i]]
<1>3. r = Replaced(answer)
  BY DEF Replaced, a
<1>4. DOMAIN rules = 1 .. Len(rules) /\ Len(rules) \in Nat
  OBVIOUS
<1>5. r \in [1 .. Len(rules) -> ShownRules]
  BY <1>1, <1>2, <1>4
<1>6. r \in Seq(ShownRules)
  BY <1>4, <1>5
<1>7. \A i \in DOMAIN rules : r[i] = IF rules[i].id = a.id THEN a ELSE rules[i]
  OBVIOUS
<1> QED BY <1>3, <1>6, <1>7 DEF a

LEMMA AddedIs ==
  ASSUME rules \in Seq(ShownRules), NEW answer \in Seq(ShownRules), Len(answer) = 1
  PROVE  /\ answer \o rules \in Seq(ShownRules) /\ (answer \o rules)[1] = answer[1]
         /\ DOMAIN (answer \o rules) = 1 .. Len(rules) + 1 /\ DOMAIN rules = 1 .. Len(rules)
         /\ Len(rules) \in Nat
         /\ \A i \in 2 .. Len(rules) + 1 : (answer \o rules)[i] = rules[i - 1]
<1> DEFINE r == answer \o rules
<1>1. /\ r \in Seq(ShownRules) /\ Len(r) = Len(answer) + Len(rules)
      /\ \A i \in 1 .. Len(answer) + Len(rules) :
           r[i] = IF i <= Len(answer) THEN answer[i] ELSE rules[i - Len(answer)]
  BY ConcatProperties
<1> HIDE DEF r
<1>2. Len(rules) \in Nat /\ DOMAIN rules = 1 .. Len(rules)
  OBVIOUS
<1>3. DOMAIN r = 1 .. Len(rules) + 1
  BY <1>1, <1>2
<1>4. r[1] = answer[1] /\ \A i \in 2 .. Len(rules) + 1 : r[i] = rules[i - 1]
  BY <1>1, <1>2
<1> QED BY <1>1, <1>2, <1>3, <1>4 DEF r

LEMMA LeftIs ==
  ASSUME rules \in Seq(ShownRules), NEW id
  PROVE  /\ Left(id) \in Seq(ShownRules)
         /\ \A k \in DOMAIN Left(id) :
              \E i \in DOMAIN rules : Left(id)[k] = rules[i] /\ rules[i].id # id
         /\ \A i \in DOMAIN rules :
              rules[i].id # id => \E k \in DOMAIN Left(id) : Left(id)[k] = rules[i]
         /\ (\A i, j \in DOMAIN rules : rules[i].id = rules[j].id => i = j) =>
              \A k, l \in DOMAIN Left(id) : Left(id)[k].id = Left(id)[l].id => k = l
<1> DEFINE I == {i \in DOMAIN rules : rules[i].id # id}
           r == Kept(rules, I)
<1>1. DOMAIN rules = 1 .. Len(rules) /\ Len(rules) \in Nat
  OBVIOUS
<1>2. /\ I \in SUBSET (1 .. Len(rules))
      /\ \A i \in DOMAIN rules : i \in I <=> rules[i].id # id
  BY <1>1
<1>3. r = Left(id)
  BY DEF Left
<1> HIDE DEF I, r
<1>4. r \in Seq(ShownRules) /\ Len(r) \in Nat
  BY <1>2, KeptIs DEF r
<1>5. \A k \in 1 .. Len(r) : Place(I, k) \in I /\ r[k] = rules[Place(I, k)]
  BY <1>2, KeptIs DEF r
<1>6. \A k, l \in 1 .. Len(r) : k < l => Place(I, k) < Place(I, l)
  BY <1>2, KeptIs DEF r
<1>7. \A i \in I : \E k \in 1 .. Len(r) : Place(I, k) = i
  BY <1>2, KeptIs DEF r
<1>8. DOMAIN r = 1 .. Len(r)
  BY <1>4
<1>9. ASSUME \A i, j \in DOMAIN rules : rules[i].id = rules[j].id => i = j,
             NEW k \in DOMAIN r, NEW l \in DOMAIN r, r[k].id = r[l].id
      PROVE  k = l
  <2>1. Place(I, k) \in DOMAIN rules /\ Place(I, l) \in DOMAIN rules
    BY <1>1, <1>2, <1>5, <1>8
  <2>2. Place(I, k) = Place(I, l)
    BY <1>5, <1>8, <1>9, <2>1
  <2>3. ~(k < l) /\ ~(l < k)
    <3>1. ~(Place(I, k) < Place(I, l)) /\ ~(Place(I, l) < Place(I, k))
      BY <1>1, <2>1, <2>2
    <3> QED BY <1>6, <1>8, <3>1
  <2>4. k \in Int /\ l \in Int
    BY <1>8
  <2> QED BY ONLY <2>3, <2>4
<1>10. \A k \in DOMAIN r : \E i \in DOMAIN rules : r[k] = rules[i] /\ rules[i].id # id
  BY <1>1, <1>2, <1>5, <1>8
<1>11. \A i \in DOMAIN rules : rules[i].id # id => \E k \in DOMAIN r : r[k] = rules[i]
  <2> SUFFICES ASSUME NEW i \in DOMAIN rules, rules[i].id # id
               PROVE  \E k \in DOMAIN r : r[k] = rules[i]
    OBVIOUS
  <2>1. PICK k \in 1 .. Len(r) : Place(I, k) = i
    BY <1>2, <1>7
  <2> QED BY <1>5, <1>8, <2>1
<1> QED BY <1>3, <1>4, <1>9, <1>10, <1>11

LEMMA DrawingIs ==
  ASSUME rules \in Seq(ShownRules), NEW c \in Call, CallSound(c), c.state = "ok"
  PROVE  Drawing(c) \in Seq(ShownRules)
<1>1. /\ c.kind \in {"list", "create", "save", "toggle", "delete"} /\ c.answer \in Seq(ShownRules)
      /\ c.kind \in {"save", "toggle"} => Len(c.answer) = 1
  BY DEF Call, CallSound
<1>2. CASE c.kind = "list"
  BY <1>1, <1>2 DEF Drawing
<1>3. CASE c.kind = "create"
  <2>1. Drawing(c) = c.answer \o rules
    BY <1>3 DEF Drawing
  <2> QED BY <1>1, <2>1, ConcatProperties
<1>4. CASE c.kind \in {"save", "toggle"}
  <2>1. Drawing(c) = Replaced(c.answer)
    BY <1>4 DEF Drawing
  <2> QED BY <1>1, <1>4, <2>1, ReplacedIs
<1>5. CASE c.kind = "delete"
  <2>1. Drawing(c) = Left(c.id)
    BY <1>5 DEF Drawing
  <2> QED BY <2>1, LeftIs
<1> QED BY <1>1, <1>2, <1>3, <1>4, <1>5

\* The answer to a call, put where the handler puts it, brings the page in step
\* with what the call did.
LEMMA DrawingShows ==
  ASSUME TypeOK, UsedHeld, Shows(rules, hub), hub' \in Hubs, NEW c \in Call, NEW id \in Ids,
         Touches(c, id), NEW d, d.kind = c.kind, d.id = c.id, d.answer \in Seq(ShownRules),
         c.kind # "list",
         c.kind \in {"create", "save", "toggle"} =>
           Len(d.answer) = 1 /\ d.answer[1] = Shown(id, hub'[id])
  PROVE  Shows(Drawing(d), hub')
<1>1. /\ rules \in Seq(ShownRules) /\ hub \in [Ids -> Rule \cup {None}]
      /\ c.kind \in {"list", "create", "save", "toggle", "delete"}
      /\ None \notin Ids /\ None \notin Rule
  BY AlertsAssumption DEF TypeOK, Hubs, Call
<1>2. \A i \in DOMAIN rules : rules[i].id \in Ids
  <2>1. \A i \in DOMAIN rules : rules[i] \in ShownRules
    BY <1>1
  <2> QED BY <2>1, ShownIs
<1>3. /\ \A i \in DOMAIN rules : hub[rules[i].id] # None /\ rules[i].rule = hub[rules[i].id]
      /\ \A x \in Ids : hub[x] # None => \E i \in DOMAIN rules : rules[i].id = x
      /\ \A i, j \in DOMAIN rules : rules[i].id = rules[j].id => i = j
  BY DEF Shows
<1>4. \A i \in Ids : i # id => hub'[i] = hub[i]
  BY DEF Touches
<1>5. CASE c.kind = "create"
  <2> DEFINE r == d.answer \o rules
  <2>1. Drawing(d) = r
    BY <1>5 DEF Drawing
  <2>2. hub[id] = None /\ hub'[id] \in Rule
    BY <1>5 DEF Touches, UsedHeld
  <2>3. /\ r[1] = d.answer[1] /\ DOMAIN r = 1 .. Len(rules) + 1 /\ DOMAIN rules = 1 .. Len(rules)
        /\ Len(rules) \in Nat
        /\ \A i \in 2 .. Len(rules) + 1 : r[i] = rules[i - 1]
    BY <1>1, <1>5, AddedIs
  <2>4. r[1].id = id /\ r[1].rule = hub'[id]
    BY <1>5, <2>2, <2>3, IsShown
  <2> HIDE DEF r
  <2>5. \A i \in DOMAIN rules : rules[i].id # id
    BY <1>3, <2>2
  <2>6. \A i \in 2 .. Len(rules) + 1 : i - 1 \in DOMAIN rules /\ r[i] = rules[i - 1]
    BY <2>3
  <2>7. \A i \in DOMAIN r : i # 1 => i \in 2 .. Len(rules) + 1
    BY <2>3
  <2>8. \A i \in DOMAIN r : hub'[r[i].id] # None /\ r[i].rule = hub'[r[i].id]
    BY <1>1, <1>2, <1>3, <1>4, <2>2, <2>4, <2>5, <2>6, <2>7
  <2>9. ASSUME NEW x \in Ids, hub'[x] # None PROVE \E i \in DOMAIN r : r[i].id = x
    <3>1. CASE x = id
      BY <2>3, <2>4, <3>1
    <3>2. CASE x # id
      <4>1. PICK i \in DOMAIN rules : rules[i].id = x
        BY <1>3, <1>4, <2>9, <3>2
      <4>2. i + 1 \in 2 .. Len(rules) + 1 /\ i + 1 - 1 = i /\ i + 1 \in DOMAIN r
        BY <2>3
      <4>3. r[i + 1] = rules[i]
        BY <2>3, <4>2
      <4> QED BY <4>1, <4>2, <4>3
    <3> QED BY <3>1, <3>2
  <2>10. ASSUME NEW i \in DOMAIN r, NEW j \in DOMAIN r, r[i].id = r[j].id PROVE i = j
    <3>1. CASE i = 1 \/ j = 1
      BY <2>4, <2>5, <2>6, <2>7, <2>10, <3>1
    <3>2. CASE i # 1 /\ j # 1
      <4>1. i - 1 = j - 1
        BY <1>3, <2>6, <2>7, <2>10, <3>2
      <4>2. i \in Int /\ j \in Int
        BY <2>3
      <4> QED BY ONLY <4>1, <4>2
    <3> QED BY <3>1, <3>2
  <2> QED BY <2>1, <2>8, <2>9, <2>10 DEF Shows
<1>6. CASE c.kind \in {"save", "toggle"}
  <2> DEFINE r == Replaced(d.answer)
  <2>1. Drawing(d) = r
    BY <1>6 DEF Drawing
  <2>2. hub[id] # None /\ hub'[id] \in Rule
    BY <1>6 DEF Touches
  <2>3. /\ DOMAIN r = DOMAIN rules
        /\ \A i \in DOMAIN rules :
             r[i] = IF rules[i].id = d.answer[1].id THEN d.answer[1] ELSE rules[i]
    BY <1>1, <1>6, ReplacedIs
  <2>4. d.answer[1].id = id /\ d.answer[1].rule = hub'[id]
    BY <1>6, <2>2, IsShown
  <2> HIDE DEF r
  <2>5. \A i \in DOMAIN rules : r[i].id = rules[i].id /\ r[i].rule = hub'[r[i].id]
    BY <1>2, <1>3, <1>4, <2>3, <2>4
  <2>6. \A x \in Ids : hub'[x] # None <=> hub[x] # None
    BY <1>1, <1>4, <2>2
  <2>7. \A i \in DOMAIN r : hub'[r[i].id] # None /\ r[i].rule = hub'[r[i].id]
    BY <1>2, <1>3, <2>3, <2>5, <2>6
  <2>8. \A x \in Ids : hub'[x] # None => \E i \in DOMAIN r : r[i].id = x
    BY <1>3, <2>3, <2>5, <2>6
  <2>9. \A i, j \in DOMAIN r : r[i].id = r[j].id => i = j
    BY <1>3, <2>3, <2>5
  <2> QED BY <2>1, <2>7, <2>8, <2>9 DEF Shows
<1>7. CASE c.kind = "delete"
  <2> DEFINE r == Left(id)
  <2>1. d.id = id /\ hub'[id] = None
    BY <1>7 DEF Touches
  <2>2. Drawing(d) = r
    BY <1>7, <2>1 DEF Drawing
  <2>3. /\ \A k \in DOMAIN r : \E i \in DOMAIN rules : r[k] = rules[i] /\ rules[i].id # id
        /\ \A i \in DOMAIN rules : rules[i].id # id => \E k \in DOMAIN r : r[k] = rules[i]
        /\ (\A i, j \in DOMAIN rules : rules[i].id = rules[j].id => i = j) =>
             \A k, l \in DOMAIN r : r[k].id = r[l].id => k = l
    BY <1>1, LeftIs
  <2> HIDE DEF r
  <2>4. \A k \in DOMAIN r : hub'[r[k].id] # None /\ r[k].rule = hub'[r[k].id]
    BY <1>2, <1>3, <1>4, <2>3
  <2>5. ASSUME NEW x \in Ids, hub'[x] # None PROVE \E k \in DOMAIN r : r[k].id = x
    <3>1. x # id /\ hub[x] # None
      BY <1>4, <2>1, <2>5
    <3>2. PICK i \in DOMAIN rules : rules[i].id = x
      BY <1>3, <3>1
    <3> QED BY <2>3, <3>1, <3>2
  <2>6. \A k, l \in DOMAIN r : r[k].id = r[l].id => k = l
    BY <1>3, <2>3
  <2> QED BY <2>2, <2>4, <2>5, <2>6 DEF Shows
<1> QED BY <1>1, <1>5, <1>6, <1>7

LEMMA ClosedFormIs == ClosedDialog \in Form /\ None \in Ids \cup {None}
BY AlertsAssumption DEF ClosedDialog, Form

\* What an answer leads to depends on the rules shown only.
LEMMA DrawingSame == ASSUME NEW c, rules' = rules PROVE Drawing(c)' = Drawing(c)
<1>1. Left(c.id)' = Left(c.id)
  BY DEF Left
<1>2. Replaced(c.answer)' = Replaced(c.answer)
  BY DEF Replaced
<1> QED BY <1>1, <1>2 DEF Drawing

LEMMA PageInitInv == Init => PageInv
<1> SUFFICES ASSUME Init PROVE PageInv
  OBVIOUS
<1> DEFINE none == <<>>
           c == [n |-> 1, kind |-> "list", id |-> None, form |-> ClosedDialog, enabled |-> TRUE,
                 state |-> "sent", answer |-> none]
<1>1. calls = {c} /\ rules = none /\ none \in Seq(ShownRules) /\ Len(none) = 0
  BY DEF Init
<1> HIDE DEF none
<1>2. 1 \in 1 .. MaxCalls /\ 1 \in 0 .. MaxCalls
  BY AlertsAssumption
<1>3. c \in Call /\ c.kind = "list" /\ c.state = "sent"
  BY <1>1, <1>2, ClosedFormIs DEF Call
<1> HIDE DEF c
<1>4. TypeOK
  BY <1>1, <1>2, <1>3, ClosedFormIs DEF Init, TypeOK
<1>5. UsedHeld
  BY DEF Init, UsedHeld
<1>6. \A d \in calls : CallSound(d) /\ Due(d)
  BY <1>1, <1>3 DEF CallSound, Due
<1>7. OnCourse
  BY <1>1, <1>6 DEF OnCourse
<1> QED BY <1>4, <1>5, <1>6, <1>7 DEF PageInv

\* A request that is sent when all is quiet keeps the page on course.
LEMMA SendKeepsPage ==
  ASSUME PageInv, NEW kind \in {"list", "create", "save", "toggle", "delete"}, NEW id \in Ids \cup {None},
         NEW enabled \in BOOLEAN, Sends(kind, id, enabled),
         kind \in {"save", "toggle", "delete"} => id \in Ids, kind = "create" => id = None,
         UNCHANGED <<hub, used, rules, dialog>>, list' \in {"loading", "error", "rules"},
         saving' \in BOOLEAN, busy' \subseteq calls'
  PROVE  PageInv'
<1> DEFINE none == <<>>
           c == [n |-> made + 1, kind |-> kind, id |-> id, form |-> dialog, enabled |-> enabled,
                 state |-> "sent", answer |-> none]
<1>1. /\ made < MaxCalls /\ made' = made + 1 /\ calls' = calls \cup {c}
      /\ astray' = IF calls # {} THEN TRUE ELSE IF kind = "list" THEN FALSE ELSE astray
  BY DEF Sends
<1>2. none \in Seq(ShownRules)
  OBVIOUS
<1> HIDE DEF none
<1>3. TypeOK /\ made \in 0 .. MaxCalls /\ MaxCalls \in Nat /\ dialog \in Form /\ calls \subseteq Call
      /\ astray \in BOOLEAN
  BY AlertsAssumption DEF PageInv, TypeOK
<1>4. made' \in 1 .. MaxCalls /\ made' \in 0 .. MaxCalls
  BY <1>1, <1>3
<1>5. c \in Call /\ c.kind = kind /\ c.state = "sent" /\ c.id = id
  BY <1>1, <1>2, <1>3, <1>4 DEF Call
<1> HIDE DEF c
<1>6. astray' \in BOOLEAN
  BY <1>1, <1>3
<1>7. TypeOK'
  BY <1>1, <1>3, <1>4, <1>5, <1>6 DEF TypeOK
<1>8. UsedHeld'
  BY DEF PageInv, UsedHeld
<1>9. \A d \in calls' : CallSound(d)
  BY <1>1, <1>5 DEF PageInv, CallSound
<1>10. ASSUME ~astray' PROVE calls' # {} /\ \A d \in calls' : Due(d)'
  <2>1. calls' = {c} /\ (kind # "list" => Shows(rules, hub))
    BY <1>1, <1>10 DEF PageInv, OnCourse
  <2> QED BY <1>5, <2>1 DEF Due, Shows
<1> QED BY <1>7, <1>8, <1>9, <1>10 DEF PageInv, OnCourse, CallSound

\* What leaves the requests, the Hub and the rules alone.
LEMMA QuietKeepsPage ==
  ASSUME PageInv, UNCHANGED <<hub, used, rules, saving, calls, made, astray>>,
         list' \in {"loading", "error", "rules"}, busy' \subseteq calls, dialog' \in Form
  PROVE  PageInv'
<1>1. TypeOK'
  BY DEF PageInv, TypeOK
<1>2. UsedHeld' /\ (\A c \in calls' : CallSound(c)')
  BY DEF PageInv, UsedHeld, CallSound
<1>3. OnCourse'
  <2>1. \A c : Drawing(c)' = Drawing(c)
    BY DrawingSame
  <2>3. \A c \in calls : Due(c) => Due(c)'
    BY <2>1 DEF Due, Shows
  <2>4. Shows(rules, hub) => Shows(rules, hub)'
    BY DEF Shows
  <2> QED BY <2>3, <2>4 DEF PageInv, OnCourse
<1> QED BY <1>1, <1>2, <1>3 DEF PageInv

LEMMA UserKeepsPage == ASSUME PageInv, User PROVE PageInv'
<1>1. /\ list \in {"loading", "error", "rules"} /\ busy \subseteq calls /\ dialog \in Form
      /\ saving \in BOOLEAN /\ rules \in Seq(ShownRules)
  BY DEF PageInv, TypeOK
<1>2. \A i \in DOMAIN rules : rules[i].id \in Ids /\ rules[i].rule \in Rule
  <2>1. \A i \in DOMAIN rules : rules[i] \in ShownRules
    BY <1>1
  <2> QED BY <2>1, ShownIs
<1>3. CASE LoadAlerts
  BY <1>1, <1>3, SendKeepsPage DEF LoadAlerts
<1>4. CASE FilterAlerts
  BY <1>1, <1>4, QuietKeepsPage DEF FilterAlerts, Render
<1>5. CASE OpenCreate
  <2>1. dialog' \in Form
    BY <1>5, ClosedFormIs DEF OpenCreate, Form
  <2> QED BY <1>1, <1>5, <2>1, QuietKeepsPage DEF OpenCreate, alertsPage
<1>6. CASE CloseDialog
  BY <1>1, <1>6, ClosedFormIs, QuietKeepsPage DEF CloseDialog, alertsPage
<1>7. CASE SubmitAlert
  <2> DEFINE kind == IF dialog.editing = None THEN "create" ELSE "save"
  <2>1. /\ Sends(kind, dialog.editing, TRUE) /\ saving' = TRUE
        /\ UNCHANGED <<hub, used, alertsPage, dialog>>
    BY <1>7 DEF SubmitAlert
  <2>2. dialog.editing \in Ids \cup {None}
    BY <1>1 DEF Form
  <2>3. /\ kind \in {"list", "create", "save", "toggle", "delete"}
        /\ kind \in {"save", "toggle", "delete"} => dialog.editing \in Ids
        /\ kind = "create" => dialog.editing = None
    BY <2>2
  <2>4. busy' \subseteq calls'
    BY <1>1, <2>1 DEF Sends, alertsPage
  <2> HIDE DEF kind
  <2>5. UNCHANGED <<hub, used, rules, dialog>> /\ list' \in {"loading", "error", "rules"}
    BY <1>1, <2>1 DEF alertsPage
  <2>6. saving' \in BOOLEAN /\ TRUE \in BOOLEAN
    BY <2>1
  <2> QED BY <2>1, <2>2, <2>3, <2>4, <2>5, <2>6, SendKeepsPage
<1>8. ASSUME NEW name \in Names, NEW hook \in BOOLEAN, NEW remove \in BOOLEAN,
             FillIn(name, hook, remove)
      PROVE  PageInv'
  <2>1. dialog' \in Form
    BY <1>1, <1>8 DEF FillIn, Form
  <2> QED BY <1>1, <1>8, <2>1, QuietKeepsPage DEF FillIn, alertsPage
<1>9. ASSUME NEW i \in DOMAIN rules, OpenEdit(rules[i]) PROVE PageInv'
  <2> DEFINE item == rules[i]
  <2>1. item.id \in Ids /\ item.rule.name \in Names
    BY <1>2 DEF Rule
  <2>2. /\ dialog' = [ClosedDialog EXCEPT !.open = TRUE, !.editing = item.id, !.name = item.rule.name]
        /\ UNCHANGED <<hub, used, rules, list, busy, saving, calls, made, astray>>
    BY <1>9 DEF OpenEdit, alertsPage
  <2> HIDE DEF item
  <2>3. dialog' \in Form
    BY <2>1, <2>2, ClosedFormIs DEF Form
  <2> QED BY <1>1, <2>2, <2>3, QuietKeepsPage
<1>10. ASSUME NEW i \in DOMAIN rules, NEW kind \in {"toggle", "delete"}, NEW enabled \in BOOLEAN,
              Click(kind, rules[i], enabled)
       PROVE  PageInv'
  <2> DEFINE id == rules[i].id
  <2>1. /\ Sends(kind, id, enabled) /\ busy' = busy \cup (calls' \ calls)
        /\ UNCHANGED <<hub, used, rules, list, dialog, saving>>
    BY <1>10 DEF Click
  <2>2. id \in Ids
    BY <1>2
  <2> HIDE DEF id
  <2>3. busy' \subseteq calls'
    BY <1>1, <2>1 DEF Sends
  <2>4. id \in Ids \cup {None} /\ kind \in {"list", "create", "save", "toggle", "delete"}
        /\ kind # "create" /\ list' \in {"loading", "error", "rules"} /\ saving' \in BOOLEAN
    BY <1>1, <2>1, <2>2
  <2> QED BY <2>1, <2>2, <2>3, <2>4, SendKeepsPage
<1>11. ASSUME NEW i \in DOMAIN rules, Toggle(rules[i]) \/ Delete(rules[i]) PROVE PageInv'
  <2>1. (~rules[i].rule.enabled) \in BOOLEAN /\ TRUE \in BOOLEAN
    OBVIOUS
  <2> QED BY <1>10, <1>11, <2>1 DEF Toggle, Delete
<1> QED BY <1>3, <1>4, <1>5, <1>6, <1>7, <1>8, <1>9, <1>11 DEF User

\* A call is served or refused.
LEMMA ServeKeepsPage == ASSUME PageInv, NEW c \in calls, Serve(c) PROVE PageInv'
<1>1. /\ TypeOK /\ UsedHeld /\ c \in Call /\ CallSound(c) /\ calls \subseteq Call
      /\ busy \subseteq calls
  BY DEF PageInv, TypeOK
<1>2. CASE HubServes(c)
  <2>1. /\ c.state = "sent" /\ Possible(c) /\ hub' = Effect(c)
        /\ used' = used \cup {i \in Ids : hub'[i] # None}
        /\ busy' = {IF b.n = c.n THEN CHOOSE d \in calls' : d.n = c.n ELSE b : b \in busy}
        /\ UNCHANGED <<rules, list, dialog, saving, made, astray>>
    BY <1>2 DEF HubServes
  <2>2. AnswerOf(c) \in Seq(ShownRules) /\ <<>> \in Seq(ShownRules)
    BY <1>1, <2>1, AnswerIs
  <2>3. PICK ok \in BOOLEAN :
          calls' = (calls \ {c}) \cup {[c EXCEPT !.state = IF ok THEN "ok" ELSE "failed",
                                                 !.answer = IF ok THEN AnswerOf(c) ELSE <<>>]}
    BY <1>2 DEF HubServes
  <2>4. PICK answer : answer = IF ok THEN AnswerOf(c) ELSE <<>>
    OBVIOUS
  <2> DEFINE state == IF ok THEN "ok" ELSE "failed"
             d == [c EXCEPT !.state = state, !.answer = answer]
  <2>5. calls' = (calls \ {c}) \cup {d}
    BY <2>3, <2>4
  <2>6. answer \in Seq(ShownRules) /\ state \in {"ok", "failed"} /\ (ok <=> state = "ok")
    BY <2>2, <2>4
  <2>7. ok => answer = AnswerOf(c)
    BY <2>4
  <2>8. /\ d \in Call /\ d.state = state /\ d.answer = answer
        /\ d.kind = c.kind /\ d.id = c.id /\ d.n = c.n
    <3> HIDE DEF state
    <3> QED BY <1>1, <2>6 DEF Call
  <2> HIDE DEF state, d
  <2>9. /\ hub' \in Hubs
        /\ c.kind = "list" => hub' = hub
        /\ c.kind # "list" => \E id \in Ids : Touches(c, id)
    BY <1>1, <2>1, EffectIs
  <2>10. /\ c.kind = "list" => Shows(AnswerOf(c), hub')
         /\ \A id \in Ids : c.kind \in {"create", "save", "toggle"} /\ Touches(c, id) =>
              Len(AnswerOf(c)) = 1 /\ AnswerOf(c)[1] = Shown(id, hub'[id])
    BY <1>1, <2>1, AnswerIs
  <2>11. CallSound(d)
    <3>1. ASSUME c.kind \in {"save", "toggle"}, ok PROVE Len(answer) = 1
      <4>1. PICK id \in Ids : Touches(c, id)
        BY <2>9, <3>1
      <4> QED BY <2>7, <2>10, <3>1, <4>1
    <3> QED BY <1>1, <2>6, <2>8, <3>1 DEF CallSound
  <2>12. TypeOK'
    <3>1. calls' \subseteq Call
      BY <1>1, <2>5, <2>8
    <3>2. busy' \subseteq calls'
      <4>1. (CHOOSE e \in calls' : e.n = c.n) \in calls'
        <5>1. \E e \in calls' : e.n = c.n
          BY <2>5, <2>8
        <5> QED BY <5>1
      <4> QED BY <1>1, <2>1, <2>5, <4>1
    <3> QED BY <1>1, <2>1, <2>9, <3>1, <3>2 DEF TypeOK
  <2>13. UsedHeld'
    BY <2>1 DEF UsedHeld
  <2>14. \A e \in calls' : CallSound(e)
    BY <2>5, <2>11 DEF PageInv
  <2>15. ASSUME ~astray PROVE \A e \in calls' : Due(e)'
    <3>1. Due(c) /\ calls = {c}
      BY <2>15 DEF PageInv, OnCourse, Due
    <3>2. calls' = {d}
      BY <2>5, <3>1
    <3>3. d.state # "sent"
      BY <2>6, <2>8
    <3>4. ASSUME ok PROVE Shows(Drawing(d), hub')
      <4>1. CASE c.kind = "list"
        BY <2>7, <2>8, <2>10, <3>4, <4>1 DEF Drawing
      <4>2. CASE c.kind # "list"
        <5>1. PICK id \in Ids : Touches(c, id)
          BY <2>9, <4>2
        <5>2. Shows(rules, hub)
          BY <2>1, <3>1, <4>2 DEF Due
        <5>3. /\ d.answer \in Seq(ShownRules)
              /\ c.kind \in {"create", "save", "toggle"} =>
                   Len(d.answer) = 1 /\ d.answer[1] = Shown(id, hub'[id])
          BY <2>6, <2>7, <2>8, <2>10, <3>4, <5>1
        <5> QED BY <1>1, <2>8, <2>9, <4>2, <5>1, <5>2, <5>3, DrawingShows
      <4> QED BY <4>1, <4>2
    <3>5. Drawing(d)' = Drawing(d)
      BY <2>1, DrawingSame
    <3>6. ok => Shows(Drawing(d)', hub')
      BY <3>4, <3>5
    <3>7. \A e \in calls' : e = d
      BY <3>2
    <3>8. Due(d)'
      BY <2>6, <2>8, <3>3, <3>6, <3>7 DEF Due, Shows
    <3> QED BY <3>7, <3>8
  <2>16. calls' # {} /\ astray' = astray
    BY <2>1, <2>5
  <2>17. OnCourse'
    BY <2>15, <2>16 DEF OnCourse
  <2> QED BY <2>12, <2>13, <2>14, <2>17 DEF PageInv, CallSound
<1>3. CASE HubRefuses(c)
  <2> DEFINE d == [c EXCEPT !.state = "failed"]
  <2>1. /\ calls' = (calls \ {c}) \cup {d}
        /\ busy' = {IF b.n = c.n THEN d ELSE b : b \in busy}
        /\ UNCHANGED <<hub, used, rules, list, dialog, saving, made, astray>>
    BY <1>3 DEF HubRefuses
  <2>2. d \in Call /\ d.state = "failed" /\ d.kind = c.kind /\ d.id = c.id /\ d.answer = c.answer
    BY <1>1 DEF Call
  <2> HIDE DEF d
  <2>3. calls' \subseteq Call /\ busy' \subseteq calls'
    BY <1>1, <2>1, <2>2
  <2>4. TypeOK'
    BY <1>1, <2>1, <2>3 DEF TypeOK
  <2>5. UsedHeld'
    BY <1>1, <2>1 DEF UsedHeld
  <2>6. \A e \in calls' : CallSound(e)
    BY <1>1, <2>1, <2>2 DEF PageInv, CallSound
  <2>7. ASSUME ~astray PROVE \A e \in calls' : Due(e)'
    <3>1. calls = {c}
      BY <2>7 DEF PageInv, OnCourse, Due
    <3> QED BY <2>1, <2>2, <3>1 DEF Due
  <2>8. calls' # {} /\ astray' = astray
    BY <2>1
  <2>9. OnCourse'
    BY <2>7, <2>8 DEF OnCourse
  <2> QED BY <2>4, <2>5, <2>6, <2>9 DEF PageInv, CallSound
<1> QED BY <1>2, <1>3 DEF Serve

LEMMA ArrivalKeepsPage == ASSUME PageInv, NEW c \in calls, Arrival(c) PROVE PageInv'
<1>1. /\ TypeOK /\ c \in Call /\ CallSound(c) /\ calls \subseteq Call /\ busy \subseteq calls
      /\ rules \in Seq(ShownRules) /\ dialog \in Form /\ saving \in BOOLEAN
      /\ list \in {"loading", "error", "rules"}
  BY DEF PageInv, TypeOK
<1>2. calls' = calls \ {c} /\ UNCHANGED <<hub, used, made>>
  BY DEF Arrival, ListArrives, SaveArrives, ToggleArrives, DeleteArrives, FailureArrives, Arrives
<1>3. UsedHeld' /\ \A e \in calls' : CallSound(e)
  BY <1>2 DEF PageInv, UsedHeld
<1>4. CASE FailureArrives(c)
  <2>1. /\ astray' = TRUE /\ rules' = rules /\ dialog' = dialog
        /\ busy' = IF c.kind = "list" THEN {} ELSE busy \ {c}
        /\ list' = IF c.kind = "list" THEN "error" ELSE list
        /\ saving' = IF c.kind \in {"create", "save"} THEN FALSE ELSE saving
    BY <1>4 DEF FailureArrives
  <2>2. TypeOK'
    <3>1. /\ busy' \subseteq calls' /\ list' \in {"loading", "error", "rules"} /\ saving' \in BOOLEAN
          /\ calls' \subseteq Call
      BY <1>1, <1>2, <2>1
    <3> QED BY <1>1, <1>2, <2>1, <3>1 DEF TypeOK
  <2>3. OnCourse'
    BY <2>1 DEF OnCourse
  <2> QED BY <1>3, <2>2, <2>3 DEF PageInv, CallSound
<1>5. ASSUME ~FailureArrives(c) PROVE PageInv'
  <2>1. ListArrives(c) \/ SaveArrives(c) \/ ToggleArrives(c) \/ DeleteArrives(c)
    BY <1>5 DEF Arrival
  <2>2. c.state = "ok" /\ astray' = astray /\ list' = "rules" /\ busy' = {}
    BY <2>1 DEF ListArrives, SaveArrives, ToggleArrives, DeleteArrives, Arrives, Render
  <2>3. rules' = Drawing(c)
    <3>1. CASE ListArrives(c)
      BY <3>1 DEF ListArrives, Render, Drawing
    <3>2. CASE SaveArrives(c)
      BY <3>2 DEF SaveArrives, Render, Drawing
    <3>3. CASE ToggleArrives(c)
      BY <3>3 DEF ToggleArrives, Render, Drawing
    <3>4. CASE DeleteArrives(c)
      BY <3>4 DEF DeleteArrives, Render, Drawing, Left
    <3> QED BY <2>1, <3>1, <3>2, <3>3, <3>4
  <2>4. dialog' \in Form /\ saving' \in BOOLEAN
    BY <1>1, <2>1, ClosedFormIs DEF ListArrives, SaveArrives, ToggleArrives, DeleteArrives
  <2>5. rules' \in Seq(ShownRules)
    BY <1>1, <2>2, <2>3, DrawingIs
  <2>6. TypeOK'
    <3>1. calls' \subseteq Call /\ busy' \subseteq calls'
      BY <1>1, <1>2, <2>2
    <3> QED BY <1>1, <1>2, <2>2, <2>4, <2>5, <3>1 DEF TypeOK
  <2>7. ASSUME ~astray PROVE calls' = {} /\ Shows(rules', hub')
    <3>1. Due(c) /\ calls = {c}
      BY <2>7 DEF PageInv, OnCourse, Due
    <3>2. Shows(Drawing(c), hub)
      BY <2>2, <3>1 DEF Due
    <3> QED BY <1>2, <2>3, <3>1, <3>2
  <2>8. OnCourse'
    <3>1. Shows(rules, hub)' <=> Shows(rules', hub')
      BY DEF Shows
    <3> QED BY <2>2, <2>7, <3>1 DEF OnCourse
  <2> QED BY <1>3, <2>6, <2>8 DEF PageInv, CallSound
<1> QED BY <1>4, <1>5

LEMMA PageNextKeeps == PageInv /\ [Next]_vars => PageInv'
<1> SUFFICES ASSUME PageInv, [Next]_vars PROVE PageInv'
  OBVIOUS
<1>1. CASE UNCHANGED vars
  <2>1. /\ UNCHANGED <<hub, used, rules, saving, calls, made, astray>>
        /\ list' = list /\ busy' = busy /\ dialog' = dialog
    BY <1>1 DEF vars, alertsPage
  <2>2. list' \in {"loading", "error", "rules"} /\ busy' \subseteq calls /\ dialog' \in Form
    BY <2>1 DEF PageInv, TypeOK
  <2> QED BY <2>1, <2>2, QuietKeepsPage
<1>2. CASE Next
  BY <1>2, UserKeepsPage, ServeKeepsPage, ArrivalKeepsPage DEF Next
<1> QED BY <1>1, <1>2

LEMMA PageInvIs == PageInv => TypeOK /\ InStep
<1> SUFFICES ASSUME PageInv PROVE TypeOK /\ InStep
  OBVIOUS
<1>1. hub \in Hubs /\ rules \in Seq(ShownRules)
  BY DEF PageInv, TypeOK
<1>2. calls = {} /\ ~astray => Shows(rules, hub)
  BY DEF PageInv, OnCourse
<1> QED BY <1>1, <1>2, ShowsAsListed DEF PageInv, InStep

\* The page of the alert policies, used one request at a time, shows what the
\* Hub has whenever nothing is under way, for any rules and any answers.
THEOREM PageHolds == Spec => [](TypeOK /\ InStep)
<1>1. Spec => []PageInv
  BY PageInitInv, PageNextKeeps, PTL DEF Spec
<1> QED BY <1>1, PageInvIs, PTL
-----------------------------------------------------------------------------
(* The list of entries. *)

\* A list as it is drawn: every entry once.
IsDrawn(rows) ==
  /\ rows \in Seq(EntryIds) /\ Len(rows) <= Limit
  /\ \A i, j \in DOMAIN rows : rows[i] = rows[j] => i = j

LEMMA RangeIs ==
  ASSUME NEW S, NEW rows \in Seq(S)
  PROVE  /\ Range(rows) = {rows[i] : i \in 1 .. Len(rows)} /\ Range(rows) \subseteq S
         /\ Len(rows) \in Nat /\ DOMAIN rows = 1 .. Len(rows)
BY DEF Range

LEMMA NewestIs ==
  ASSUME NEW chosen \in SUBSET EntryIds
  PROVE  /\ Newest(chosen) \in Seq(EntryIds) /\ Len(Newest(chosen)) = Cardinality(chosen)
         /\ Len(Newest(chosen)) \in Nat /\ DOMAIN Newest(chosen) = 1 .. Len(Newest(chosen))
         /\ \A i, j \in 1 .. Len(Newest(chosen)) : Newest(chosen)[i] = Newest(chosen)[j] => i = j
         /\ Range(Newest(chosen)) = chosen
<1>1. 1 \in Int /\ MaxEntry \in Int
  BY EntryListAssumption
<1>2. IsFiniteSet(1 .. MaxEntry)
  BY <1>1, FS_Interval
<1>3. IsFiniteSet(chosen) /\ chosen \subseteq Int
  <2>1. chosen \subseteq 1 .. MaxEntry
    BY DEF EntryIds
  <2>2. IsFiniteSet(chosen)
    BY <1>2, <2>1, FS_Subset
  <2> QED BY <1>1, <2>1, <2>2
<1> DEFINE r == Falling(chosen)
<1>4. r = Newest(chosen)
  BY DEF Newest
<1>5. /\ r \in Seq(chosen) /\ Len(r) = Cardinality(chosen) /\ Range(r) = chosen
      /\ \A i, j \in 1 .. Len(r) : i < j => r[i] > r[j]
  BY <1>3, FallingIs
<1> HIDE DEF r
<1>6. r \in Seq(EntryIds) /\ Len(r) \in Nat /\ DOMAIN r = 1 .. Len(r)
  <2>1. r \in Seq(EntryIds)
    BY <1>5
  <2> QED BY <2>1
<1>7. ASSUME NEW i \in 1 .. Len(r), NEW j \in 1 .. Len(r), r[i] = r[j], i # j PROVE FALSE
  <2>1. r[i] \in Int /\ r[j] \in Int
    <3>1. r \in Seq(chosen) /\ chosen \subseteq Int
      BY <1>3, <1>5
    <3>2. r[i] \in chosen /\ r[j] \in chosen
      BY ONLY <3>1, i \in 1 .. Len(r), j \in 1 .. Len(r)
    <3> QED BY <3>1, <3>2
  <2>2. i < j \/ j < i
    BY <1>6, <1>7
  <2>3. r[i] > r[j] \/ r[j] > r[i]
    BY <1>5, <2>2
  <2> QED BY ONLY <1>7, <2>1, <2>3
<1> QED BY <1>4, <1>5, <1>6, <1>7

\* The list of a live entry: the newest of it and those that were listed.
LEMMA LiveListIs ==
  ASSUME IsDrawn(entries), NEW new \in EntryIds, NEW kept,
         kept = LET rows == Newest(Range(entries) \cup {new})
                IN  SubSeq(rows, 1, IF Len(rows) <= Limit THEN Len(rows) ELSE Limit)
  PROVE  IsDrawn(kept)
<1> DEFINE chosen == Range(entries) \cup {new}
           rows == Newest(chosen)
           n == IF Len(rows) <= Limit THEN Len(rows) ELSE Limit
<1>1. chosen \in SUBSET EntryIds
  BY RangeIs DEF IsDrawn
<1> HIDE DEF chosen
<1>2. /\ rows \in Seq(EntryIds) /\ Len(rows) \in Nat
      /\ \A i, j \in 1 .. Len(rows) : rows[i] = rows[j] => i = j
  BY <1>1, NewestIs
<1> HIDE DEF rows
<1>3. n \in Nat /\ n <= Len(rows) /\ n <= Limit
  BY <1>2, EntryListAssumption
<1> HIDE DEF n
<1>4. kept = SubSeq(rows, 1, n)
  BY DEF chosen, rows, n
<1>5. kept \in Seq(EntryIds) /\ Len(kept) = n /\ \A i \in 1 .. n : kept[i] = rows[i]
  <2>1. rows \in Seq(EntryIds) /\ Len(rows) \in Nat
    BY <1>2
  <2> QED BY ONLY <1>3, <1>4, <2>1
<1>6. DOMAIN kept = 1 .. n
  BY <1>5
<1>7. \A i \in 1 .. n : i \in 1 .. Len(rows)
  BY <1>2, <1>3
<1>8. ASSUME NEW i \in 1 .. n, NEW j \in 1 .. n, kept[i] = kept[j] PROVE i = j
  <2>1. i \in 1 .. Len(rows) /\ j \in 1 .. Len(rows)
    BY <1>7
  <2>2. kept[i] = rows[i] /\ kept[j] = rows[j]
    BY <1>5
  <2>3. rows[i] = rows[j]
    BY <1>8, <2>2
  <2>4. \A k, l \in 1 .. Len(rows) : rows[k] = rows[l] => k = l
    BY <1>2
  <2> QED BY ONLY <2>1, <2>3, <2>4
<1>9. kept \in Seq(EntryIds) /\ Len(kept) <= Limit
  BY <1>3, <1>5
<1> QED BY <1>6, <1>8, <1>9 DEF IsDrawn

LEMMA PagesAreDrawn ==
  ASSUME NEW rows \in Pages
  PROVE  IsDrawn(rows)
<1>1. PICK chosen \in SUBSET EntryIds : Cardinality(chosen) <= Limit /\ rows = Newest(chosen)
  BY DEF Pages
<1> QED BY <1>1, NewestIs DEF IsDrawn

\* Where an entry is in the list.
LEMMA IndexIs ==
  ASSUME NEW rows, IsDrawn(rows), NEW id \in Range(rows)
  PROVE  /\ Index(rows, id) \in 1 .. Len(rows) /\ rows[Index(rows, id)] = id
         /\ \A i \in 1 .. Len(rows) : rows[i] = id => i = Index(rows, id)
<1>1. DOMAIN rows = 1 .. Len(rows)
  BY DEF IsDrawn
<1>2. \E i \in DOMAIN rows : rows[i] = id
  BY DEF Range
<1>3. Index(rows, id) \in DOMAIN rows /\ rows[Index(rows, id)] = id
  BY <1>2 DEF Index
<1> QED BY <1>1, <1>3 DEF IsDrawn

Details == [id : 0 .. MaxEntry, raw : BOOLEAN, settings : BOOLEAN, first : BOOLEAN, last : BOOLEAN]

LEMMA NoDetailIs == NoDetail \in Details /\ NoDetail.id = 0
<1>1. 0 \in 0 .. MaxEntry
  BY EntryListAssumption
<1> QED BY <1>1 DEF NoDetail, Details

\* What renderDetail shows of an entry, and of one that is not listed.
LEMMA RenderDetailIs ==
  ASSUME NEW rows, IsDrawn(rows), NEW sel, NEW s \in BOOLEAN, detail \in Details
  PROVE  /\ RenderDetail(rows, sel, s) \in Details
         /\ sel \notin Range(rows) => RenderDetail(rows, sel, s).id = 0
         /\ sel \in Range(rows) =>
              /\ RenderDetail(rows, sel, s).id = sel /\ RenderDetail(rows, sel, s).settings = s
              /\ RenderDetail(rows, sel, s).first <=> Index(rows, sel) = 1
              /\ RenderDetail(rows, sel, s).last <=> Index(rows, sel) = Len(rows)
              /\ detail.id = sel /\ detail.settings = s =>
                   RenderDetail(rows, sel, s).raw = detail.raw
<1>1. CASE sel \notin Range(rows)
  BY <1>1, NoDetailIs DEF RenderDetail
<1>2. CASE sel \in Range(rows)
  <2> DEFINE r == RenderDetail(rows, sel, s)
             raw == detail.id = sel /\ detail.settings = s /\ detail.raw
             first == Head(rows) = sel
             last == Last(rows) = sel
  <2>1. r = [id |-> sel, raw |-> raw, settings |-> s, first |-> first, last |-> last]
    BY <1>2 DEF RenderDetail
  <2>2. /\ Index(rows, sel) \in 1 .. Len(rows) /\ rows[Index(rows, sel)] = sel
        /\ \A i \in 1 .. Len(rows) : rows[i] = sel => i = Index(rows, sel)
    BY <1>2, IndexIs
  <2>3. rows \in Seq(EntryIds) /\ Len(rows) \in Nat /\ rows # <<>>
    BY <2>2 DEF IsDrawn
  <2>4. sel \in 0 .. MaxEntry
    BY <2>2, <2>3, EntryListAssumption DEF EntryIds
  <2>5. first <=> Index(rows, sel) = 1
    BY <2>2, <2>3
  <2>6. last <=> Index(rows, sel) = Len(rows)
    BY <2>2, <2>3 DEF Last
  <2>7. raw \in BOOLEAN /\ first \in BOOLEAN /\ last \in BOOLEAN
    OBVIOUS
  <2>8. detail.id = sel /\ detail.settings = s => raw = detail.raw
    <3>1. detail.raw \in BOOLEAN
      BY DEF Details
    <3> QED BY <3>1
  <2> HIDE DEF raw, first, last
  <2>9. r \in Details
    BY <2>1, <2>4, <2>7 DEF Details
  <2>10. r.id = sel /\ r.settings = s /\ r.raw = raw /\ r.first = first /\ r.last = last
    BY <2>1
  <2> HIDE DEF r
  <2>11. /\ r.id = sel /\ r.settings = s
         /\ r.first <=> Index(rows, sel) = 1
         /\ r.last <=> Index(rows, sel) = Len(rows)
         /\ detail.id = sel /\ detail.settings = s => r.raw = detail.raw
    BY <2>5, <2>6, <2>8, <2>10
  <2> QED BY <1>2, <2>9, <2>11 DEF r
<1> QED BY <1>1, <1>2

LEMMA RenderEntriesIs ==
  ASSUME inline \in [{id \in Range(entries) : IsExpanded(expanded, id)} -> BOOLEAN],
         NEW rows, NEW x, NEW s
  PROVE  /\ RenderEntries(rows, x, s) \in [{id \in Range(rows) : IsExpanded(x, id)} -> BOOLEAN]
         /\ \A id \in Range(rows) : IsExpanded(x, id) /\ id \in DOMAIN inline /\ s = settings =>
              id \in DOMAIN RenderEntries(rows, x, s) /\ RenderEntries(rows, x, s)[id] = inline[id]
<1>1. \A id \in DOMAIN inline : inline[id] \in BOOLEAN
  OBVIOUS
<1> QED BY <1>1 DEF RenderEntries

\* The list as it is drawn, what is expanded in it, and the keyboard's place.
ListShapes ==
  /\ IsDrawn(entries)
  /\ expanded \in [all : BOOLEAN, ids : SUBSET EntryIds] /\ settings \in BOOLEAN
  /\ inline \in [{id \in Range(entries) : IsExpanded(expanded, id)} -> BOOLEAN]
  /\ focus \in {0} \cup Range(entries) /\ row \in 0 .. MaxEntry

DrawerShapes ==
  /\ selected \in 0 .. MaxEntry /\ back \in 0 .. MaxEntry
  /\ drawer \in BOOLEAN /\ locked \in BOOLEAN /\ detail \in Details

\* An open drawer shows its entry with the settings of the drawing.
DrawerInStep == NeighboursOffered /\ (drawer => detail.settings = settings)

\* What makes NeighboursOffered inductive: the row of the selected entry is known
\* from the list, which has no entry twice.
ListInv == ListShapes /\ DrawerShapes /\ DrawerInStep /\ LockedWhileSelected

LEMMA SelectedIsListed ==
  ASSUME ListInv
  PROVE  /\ Range(entries) \subseteq EntryIds /\ EntryIds \subseteq 0 .. MaxEntry
         /\ 0 \notin EntryIds /\ 0 \in 0 .. MaxEntry
         /\ drawer => selected \in Range(entries) /\ selected # 0
<1>1. Range(entries) \subseteq EntryIds
  BY RangeIs DEF ListInv, ListShapes, IsDrawn
<1>2. EntryIds \subseteq 0 .. MaxEntry /\ 0 \notin EntryIds /\ 0 \in 0 .. MaxEntry
  BY EntryListAssumption DEF EntryIds
<1> QED BY <1>1, <1>2 DEF ListInv, DrawerInStep, NeighboursOffered

\* Opening an entry that is listed.
LEMMA OpenEntryKeeps ==
  ASSUME ListInv, NEW id \in Range(entries), OpenDetail(id)
  PROVE  ListInv'
<1>1. /\ selected' = id /\ back' = id /\ drawer' = TRUE /\ locked' = TRUE
      /\ detail' = RenderDetail(entries, id, settings)
      /\ focus' = 0 /\ row' = 0
      /\ UNCHANGED <<entries, expanded, settings, inline>>
  BY DEF OpenDetail
<1>2. /\ detail' \in Details /\ detail'.id = id /\ detail'.settings = settings
      /\ detail'.first <=> Index(entries, id) = 1
      /\ detail'.last <=> Index(entries, id) = Len(entries)
  BY <1>1, RenderDetailIs DEF ListInv, ListShapes, DrawerShapes
<1>3. id \in 0 .. MaxEntry /\ id # 0 /\ 0 \in 0 .. MaxEntry
  BY SelectedIsListed
<1>4. ListShapes'
  BY <1>1, <1>3 DEF ListInv, ListShapes, IsDrawn
<1>5. DrawerShapes'
  BY <1>1, <1>2, <1>3 DEF DrawerShapes
<1>6. DrawerInStep' /\ LockedWhileSelected'
  BY <1>1, <1>2, <1>3 DEF DrawerInStep, NeighboursOffered, LockedWhileSelected
<1> QED BY <1>4, <1>5, <1>6 DEF ListInv

\* Drawing the same entries again, with a drawer that is closed or drawn as well.
LEMMA RedrawListKeeps ==
  ASSUME ListInv, NEW x \in [all : BOOLEAN, ids : SUBSET EntryIds], NEW s \in BOOLEAN, Redraws(x, s),
         \/ ~drawer /\ drawer' = drawer /\ detail' \in Details
         \/ /\ detail' = RenderDetail(entries, selected, s)
            /\ drawer' = (drawer /\ detail'.id # 0)
  PROVE  ListInv'
<1>1. /\ entries' = entries /\ expanded' = x /\ settings' = s
      /\ inline' = RenderEntries(entries, x, s)
      /\ focus' = 0 /\ row' = 0 /\ UNCHANGED <<selected, locked, back>>
  BY DEF Redraws, Draw
<1>2. inline' \in [{id \in Range(entries) : IsExpanded(x, id)} -> BOOLEAN]
  BY <1>1, RenderEntriesIs DEF ListInv, ListShapes
<1>3. ListShapes'
  BY <1>1, <1>2, SelectedIsListed DEF ListInv, ListShapes, IsDrawn
<1>4. CASE ~drawer /\ drawer' = drawer /\ detail' \in Details
  BY <1>1, <1>3, <1>4 DEF ListInv, DrawerShapes, DrawerInStep, NeighboursOffered, LockedWhileSelected
<1>5. CASE detail' = RenderDetail(entries, selected, s) /\ drawer' = (drawer /\ detail'.id # 0)
  <2>1. /\ detail' \in Details
        /\ selected \in Range(entries) =>
             /\ detail'.id = selected /\ detail'.settings = s
             /\ detail'.first <=> Index(entries, selected) = 1
             /\ detail'.last <=> Index(entries, selected) = Len(entries)
    BY <1>5, RenderDetailIs DEF ListInv, ListShapes, DrawerShapes
  <2>2. drawer => selected \in Range(entries)
    BY SelectedIsListed
  <2>3. (drawer' => drawer) /\ drawer' \in BOOLEAN
    BY <1>5
  <2>4. DrawerShapes'
    BY <1>1, <2>1, <2>3 DEF ListInv, DrawerShapes
  <2>5. DrawerInStep'
    BY <1>1, <2>1, <2>2, <2>3 DEF DrawerInStep, NeighboursOffered
  <2>6. LockedWhileSelected'
    BY <1>1, <2>3 DEF ListInv, LockedWhileSelected
  <2> QED BY <1>3, <2>4, <2>5, <2>6 DEF ListInv
<1> QED BY <1>4, <1>5

LEMMA LiveKeeps ==
  ASSUME ListInv, NEW new \in EntryIds, LiveEntry(new)
  PROVE  /\ ListInv'
         /\ \A id \in DOMAIN inline \cap Range(entries') :
              id \in DOMAIN inline' /\ inline'[id] = inline[id]
         /\ drawer' => drawer /\ detail'.raw = detail.raw
<1>1. PICK kept :
        /\ kept = LET rows == Newest(Range(entries) \cup {new})
                  IN  SubSeq(rows, 1, IF Len(rows) <= Limit THEN Len(rows) ELSE Limit)
        /\ Draw(kept, expanded, settings)
        /\ detail' = RenderDetail(kept, selected, settings)
        /\ drawer' = (drawer /\ selected \in Range(kept))
        /\ focus' = 0 /\ row' = StillListed(row, kept)
        /\ UNCHANGED <<selected, locked, back>>
  BY DEF LiveEntry
<1>2. IsDrawn(kept)
  BY <1>1, LiveListIs DEF ListInv, ListShapes
<1>3. /\ entries' = kept /\ expanded' = expanded /\ settings' = settings
      /\ inline' = RenderEntries(kept, expanded, settings)
  BY <1>1 DEF Draw
<1>4. inline \in [{id \in Range(entries) : IsExpanded(expanded, id)} -> BOOLEAN]
  BY DEF ListInv, ListShapes
<1>5. /\ inline' \in [{id \in Range(kept) : IsExpanded(expanded, id)} -> BOOLEAN]
      /\ \A id \in Range(kept) : IsExpanded(expanded, id) /\ id \in DOMAIN inline =>
           id \in DOMAIN inline' /\ inline'[id] = inline[id]
  <2>1. RenderEntries(kept, expanded, settings)
          \in [{id \in Range(kept) : IsExpanded(expanded, id)} -> BOOLEAN]
    BY <1>4, RenderEntriesIs
  <2>2. \A id \in Range(kept) : IsExpanded(expanded, id) /\ id \in DOMAIN inline =>
           /\ id \in DOMAIN RenderEntries(kept, expanded, settings)
           /\ RenderEntries(kept, expanded, settings)[id] = inline[id]
    BY <1>4, RenderEntriesIs
  <2> QED BY ONLY <1>3, <2>1, <2>2
<1>6. row' \in 0 .. MaxEntry /\ 0 \in 0 .. MaxEntry
  BY <1>1, SelectedIsListed DEF StillListed, ListInv, ListShapes
<1>7. ListShapes'
  BY <1>1, <1>2, <1>3, <1>5, <1>6 DEF ListInv, ListShapes, IsDrawn
<1>8. /\ detail' \in Details
      /\ selected \in Range(kept) =>
           /\ detail'.id = selected /\ detail'.settings = settings
           /\ detail'.first <=> Index(kept, selected) = 1
           /\ detail'.last <=> Index(kept, selected) = Len(kept)
           /\ detail.id = selected /\ detail.settings = settings => detail'.raw = detail.raw
  <2>1. settings \in BOOLEAN /\ detail \in Details
    BY DEF ListInv, ListShapes, DrawerShapes
  <2> DEFINE d == RenderDetail(kept, selected, settings)
  <2>2. /\ d \in Details
        /\ selected \in Range(kept) =>
             /\ d.id = selected /\ d.settings = settings
             /\ d.first <=> Index(kept, selected) = 1
             /\ d.last <=> Index(kept, selected) = Len(kept)
             /\ detail.id = selected /\ detail.settings = settings => d.raw = detail.raw
    BY <1>2, <2>1, RenderDetailIs
  <2> HIDE DEF d
  <2>3. detail' = d
    BY <1>1 DEF d
  <2> QED BY <2>2, <2>3
<1>9. drawer' \in BOOLEAN /\ (drawer' => drawer /\ selected \in Range(kept))
  BY <1>1
<1>10. DrawerShapes'
  BY <1>1, <1>8, <1>9 DEF ListInv, DrawerShapes
<1>11. DrawerInStep'
  BY <1>1, <1>3, <1>8, <1>9 DEF DrawerInStep, NeighboursOffered
<1>12. LockedWhileSelected'
  BY <1>1, <1>9 DEF ListInv, LockedWhileSelected
<1>13. ASSUME NEW id \in DOMAIN inline \cap Range(entries')
       PROVE  id \in DOMAIN inline' /\ inline'[id] = inline[id]
  BY <1>3, <1>4, <1>5
<1>14. drawer' => drawer /\ detail'.raw = detail.raw
  BY <1>8, <1>9 DEF ListInv, DrawerInStep, NeighboursOffered
<1> QED BY <1>7, <1>10, <1>11, <1>12, <1>13, <1>14 DEF ListInv

LEMMA AnswerKeeps ==
  ASSUME ListInv, NEW rows \in Pages, AnswerArrives(rows)
  PROVE  ListInv'
<1> DEFINE there == selected \in Range(rows)
<1>1. IsDrawn(rows)
  BY PagesAreDrawn
<1>2. /\ entries' = rows /\ expanded' = expanded /\ settings' = settings
      /\ inline' = RenderEntries(rows, expanded, settings)
      /\ focus' = 0 /\ row' = StillListed(row, rows)
  BY DEF AnswerArrives, Draw
<1>3. inline' \in [{id \in Range(rows) : IsExpanded(expanded, id)} -> BOOLEAN]
  BY <1>2, RenderEntriesIs DEF ListInv, ListShapes
<1>4. row' \in 0 .. MaxEntry /\ 0 \in 0 .. MaxEntry
  BY <1>2, SelectedIsListed DEF StillListed, ListInv, ListShapes
<1>5. ListShapes'
  BY <1>1, <1>2, <1>3, <1>4 DEF ListInv, ListShapes, IsDrawn
<1>6. Range(rows) \subseteq EntryIds /\ 0 \notin EntryIds
  BY <1>1, RangeIs, SelectedIsListed DEF IsDrawn
<1>7. selected \in 0 .. MaxEntry /\ back \in 0 .. MaxEntry /\ drawer \in BOOLEAN
      /\ locked \in BOOLEAN /\ detail \in Details
  BY DEF ListInv, DrawerShapes
<1>8. CASE there
  <2>1. /\ selected' = selected /\ drawer' = TRUE /\ locked' = TRUE
        /\ detail' = RenderDetail(rows, selected, settings) /\ back' = selected
    BY <1>8 DEF AnswerArrives
  <2>2. /\ detail' \in Details /\ detail'.id = selected /\ detail'.settings = settings
        /\ detail'.first <=> Index(rows, selected) = 1
        /\ detail'.last <=> Index(rows, selected) = Len(rows)
    BY <1>1, <1>7, <1>8, <2>1, RenderDetailIs DEF ListInv, ListShapes
  <2>3. selected # 0
    BY <1>6, <1>8
  <2>4. DrawerShapes'
    BY <1>7, <2>1, <2>2 DEF DrawerShapes
  <2>5. DrawerInStep' /\ LockedWhileSelected'
    BY <1>2, <1>8, <2>1, <2>2, <2>3 DEF DrawerInStep, NeighboursOffered, LockedWhileSelected
  <2> QED BY <1>5, <2>4, <2>5 DEF ListInv
<1>9. CASE ~there
  <2>1. /\ selected' = 0 /\ drawer' = (drawer /\ selected = 0) /\ locked' = (locked /\ selected = 0)
        /\ detail' = detail /\ back' = IF selected # 0 THEN selected' ELSE back
    BY <1>9 DEF AnswerArrives
  <2>2. (drawer => selected # 0) /\ (locked => selected # 0)
    BY SelectedIsListed DEF ListInv, LockedWhileSelected
  <2>3. drawer' = FALSE /\ locked' = FALSE
    BY <2>1, <2>2
  <2>4. DrawerShapes'
    BY <1>4, <1>7, <2>1, <2>3 DEF DrawerShapes
  <2>5. DrawerInStep' /\ LockedWhileSelected'
    BY <2>3 DEF DrawerInStep, NeighboursOffered, LockedWhileSelected
  <2> QED BY <1>5, <2>4, <2>5 DEF ListInv
<1> QED BY <1>8, <1>9

LEMMA KeyboardKeeps ==
  ASSUME ListInv, MoveDown \/ MoveUp \/ MoveToEnd
  PROVE  ListInv'
<1>1. IsDrawn(entries) /\ focus \in {0} \cup Range(entries)
  BY DEF ListInv, ListShapes
<1>2. /\ entries \in Seq(EntryIds) /\ Len(entries) \in Nat
      /\ Range(entries) = {entries[i] : i \in 1 .. Len(entries)} /\ entries # <<>>
  <2>1. entries \in Seq(EntryIds) /\ entries # <<>>
    BY <1>1 DEF IsDrawn, MoveDown, MoveUp, MoveToEnd, Goes
  <2> QED BY <2>1, RangeIs
<1>3. Len(entries) >= 1
  BY <1>2
<1>4. ASSUME NEW delta \in {0, 1} PROVE Target(delta) \in Range(entries)
  <2> DEFINE at == IF focus # 0 THEN Index(entries, focus)
                   ELSE IF selected \in Range(entries) THEN Index(entries, selected) ELSE 1
             to == IF delta > 0 THEN at + 1 ELSE IF at = 1 THEN 1 ELSE at - 1
             n == IF to > Len(entries) THEN Len(entries) ELSE to
  <2>1. Target(delta) = entries[n]
    BY DEF Target
  <2>2. at \in 1 .. Len(entries)
    BY <1>1, <1>2, <1>3, IndexIs
  <2> HIDE DEF at
  <2>3. n \in 1 .. Len(entries)
    BY <1>2, <1>3, <2>2
  <2> HIDE DEF n
  <2> QED BY <1>2, <2>1, <2>3
<1>5. Head(entries) \in Range(entries) /\ Last(entries) \in Range(entries)
  BY <1>2, <1>3 DEF Last
<1>6. ASSUME NEW to \in Range(entries), Goes(to) PROVE ListInv'
  <2>1. /\ focus' = to /\ row' = to
        /\ UNCHANGED <<entries, expanded, settings, inline, selected, drawer, locked, detail, back>>
    BY <1>6 DEF Goes
  <2>2. row' \in 0 .. MaxEntry
    BY <2>1, SelectedIsListed
  <2> QED BY <2>1, <2>2 DEF ListInv, ListShapes, IsDrawn, DrawerShapes, DrawerInStep,
                           NeighboursOffered, LockedWhileSelected
<1> QED BY <1>4, <1>5, <1>6 DEF MoveDown, MoveUp, MoveToEnd

LEMMA DrawerKeeps ==
  ASSUME ListInv, Previous \/ NextEntry \/ CloseDetail \/ DetailRaw
  PROVE  ListInv'
<1>1. /\ drawer /\ detail.id = selected /\ selected \in Range(entries)
      /\ detail.first <=> Index(entries, selected) = 1
      /\ detail.last <=> Index(entries, selected) = Len(entries)
  BY DEF ListInv, DrawerInStep, NeighboursOffered, Previous, NextEntry, CloseDetail, DetailRaw
<1>2. /\ Index(entries, selected) \in 1 .. Len(entries) /\ IsDrawn(entries)
      /\ Len(entries) \in Nat /\ Range(entries) = {entries[i] : i \in 1 .. Len(entries)}
  BY <1>1, IndexIs, RangeIs DEF ListInv, ListShapes, IsDrawn
<1>3. CASE Previous
  <2>1. Index(entries, selected) - 1 \in 1 .. Len(entries)
    BY <1>1, <1>2, <1>3 DEF Previous
  <2> QED BY <1>1, <1>2, <1>3, <2>1, OpenEntryKeeps DEF Previous
<1>4. CASE NextEntry
  <2>1. Index(entries, selected) + 1 \in 1 .. Len(entries)
    BY <1>1, <1>2, <1>4 DEF NextEntry
  <2> QED BY <1>1, <1>2, <1>4, <2>1, OpenEntryKeeps DEF NextEntry
<1>5. CASE CloseDetail
  <2>1. /\ drawer' = FALSE /\ locked' = FALSE /\ selected' = 0 /\ detail' = NoDetail /\ back' = 0
        /\ focus' = IF back \in Range(entries) THEN back ELSE 0
        /\ row' = focus'
        /\ UNCHANGED <<entries, expanded, settings, inline>>
    BY <1>5 DEF CloseDetail
  <2>2. focus' \in {0} \cup Range(entries) /\ row' \in 0 .. MaxEntry /\ 0 \in 0 .. MaxEntry
    BY <2>1, SelectedIsListed
  <2>3. ListShapes'
    BY <2>1, <2>2 DEF ListInv, ListShapes, IsDrawn
  <2> QED BY <2>1, <2>2, <2>3, NoDetailIs DEF ListInv, DrawerShapes, DrawerInStep,
                                             NeighboursOffered, LockedWhileSelected
<1>6. CASE DetailRaw
  <2>1. /\ detail' = [detail EXCEPT !.raw = ~@] /\ focus' = 0 /\ row' = 0
        /\ UNCHANGED <<entries, expanded, settings, inline, selected, drawer, locked, back>>
    BY <1>6 DEF DetailRaw
  <2>2. detail \in Details
    BY DEF ListInv, DrawerShapes
  <2>3. /\ detail' \in Details /\ detail'.id = detail.id /\ detail'.settings = detail.settings
        /\ detail'.first = detail.first /\ detail'.last = detail.last
    BY <2>1, <2>2 DEF Details
  <2>4. ListShapes'
    BY <2>1, SelectedIsListed DEF ListInv, ListShapes, IsDrawn
  <2>5. DrawerInStep'
    BY <1>1, <2>1, <2>3 DEF ListInv, DrawerInStep, NeighboursOffered
  <2> QED BY <2>1, <2>3, <2>4, <2>5 DEF ListInv, DrawerShapes, LockedWhileSelected
<1> QED BY <1>3, <1>4, <1>5, <1>6

LEMMA MouseKeeps ==
  ASSUME ListInv, \/ \E id \in Range(entries) : ClickRow(id) \/ InlineRaw(id) \/ ToggleExpand(id)
                  \/ \E all \in BOOLEAN : ExpandAll(all)
                  \/ Highlight \/ ChooseSummary
  PROVE  ListInv'
<1>1. /\ expanded \in [all : BOOLEAN, ids : SUBSET EntryIds] /\ settings \in BOOLEAN
      /\ Range(entries) \subseteq EntryIds /\ IsDrawn(entries) /\ detail \in Details
  BY SelectedIsListed DEF ListInv, ListShapes, DrawerShapes
<1>2. expanded.all \in BOOLEAN /\ expanded.ids \subseteq EntryIds
  BY <1>1
<1>3. ASSUME NEW id \in Range(entries), ClickRow(id) PROVE ListInv'
  BY <1>3, OpenEntryKeeps DEF ClickRow
<1>4. ASSUME NEW id \in Range(entries), InlineRaw(id) PROVE ListInv'
  <2>1. /\ inline' = [inline EXCEPT ![id] = ~@] /\ focus' = 0 /\ row' = 0 /\ id \in DOMAIN inline
        /\ UNCHANGED <<entries, expanded, settings, selected, drawer, locked, detail, back>>
    BY <1>4 DEF InlineRaw
  <2>2. inline' \in [{i \in Range(entries) : IsExpanded(expanded, i)} -> BOOLEAN]
    <3>1. inline \in [{i \in Range(entries) : IsExpanded(expanded, i)} -> BOOLEAN]
      BY DEF ListInv, ListShapes
    <3> QED BY <2>1, <3>1
  <2>3. ListShapes'
    BY <2>1, <2>2, SelectedIsListed DEF ListInv, ListShapes, IsDrawn
  <2> QED BY <2>1, <2>3 DEF ListInv, DrawerShapes, DrawerInStep, NeighboursOffered,
                           LockedWhileSelected
<1>5. ASSUME NEW id \in Range(entries), ToggleExpand(id) PROVE ListInv'
  <2>1. Toggles(id) \in [all : BOOLEAN, ids : SUBSET EntryIds]
    BY <1>1, <1>2 DEF Toggles
  <2>2. ~drawer /\ Redraws(Toggles(id), settings) /\ drawer' = drawer /\ detail' = detail
    BY <1>5 DEF ToggleExpand
  <2> QED BY <1>1, <2>1, <2>2, RedrawListKeeps
<1>6. ASSUME NEW all \in BOOLEAN, ExpandAll(all) PROVE ListInv'
  <2>1. [all |-> all, ids |-> {}] \in [all : BOOLEAN, ids : SUBSET EntryIds]
    OBVIOUS
  <2>2. /\ ~drawer /\ Redraws([all |-> all, ids |-> {}], settings)
        /\ detail' = RenderDetail(entries, selected, settings) /\ drawer' = drawer
    BY <1>6 DEF ExpandAll
  <2>3. detail' \in Details
    BY <1>1, <2>2, RenderDetailIs
  <2> QED BY <1>1, <2>1, <2>2, <2>3, RedrawListKeeps
<1>7. CASE Highlight
  <2>1. ~drawer /\ Redraws(expanded, ~settings) /\ drawer' = drawer /\ detail' = detail
    BY <1>7 DEF Highlight
  <2>2. (~settings) \in BOOLEAN
    OBVIOUS
  <2> QED BY <1>1, <2>1, <2>2, RedrawListKeeps
<1>8. CASE ChooseSummary
  <2>1. /\ Redraws(expanded, ~settings) /\ detail' = RenderDetail(entries, selected, ~settings)
        /\ drawer' = (drawer /\ detail'.id # 0)
    BY <1>8 DEF ChooseSummary
  <2>2. (~settings) \in BOOLEAN
    OBVIOUS
  <2> QED BY <1>1, <2>1, <2>2, RedrawListKeeps
<1> QED BY <1>3, <1>4, <1>5, <1>6, <1>7, <1>8

LEMMA ListInitInv == ListInit => ListInv
<1> SUFFICES ASSUME ListInit PROVE ListInv
  OBVIOUS
<1> DEFINE none == <<>>
<1>1. none \in Seq(EntryIds) /\ Len(none) = 0 /\ DOMAIN none = {} /\ none \in [{} -> BOOLEAN]
  OBVIOUS
<1>2. entries = none /\ inline = none
  BY DEF ListInit
<1> HIDE DEF none
<1>3. 1 \in EntryIds /\ 1 \in 0 .. MaxEntry /\ 0 \in 0 .. MaxEntry /\ 0 <= Limit
  BY EntryListAssumption DEF EntryIds
<1>4. expanded \in [all : BOOLEAN, ids : SUBSET EntryIds]
  <2>1. \A a \in BOOLEAN : [all |-> a, ids |-> {}] \in [all : BOOLEAN, ids : SUBSET EntryIds]
    OBVIOUS
  <2>2. [all |-> FALSE, ids |-> {1}] \in [all : BOOLEAN, ids : SUBSET EntryIds]
    BY <1>3
  <2>3. \/ \E a \in BOOLEAN : expanded = [all |-> a, ids |-> {}]
        \/ expanded = [all |-> FALSE, ids |-> {1}]
    BY DEF ListInit
  <2> QED BY <2>1, <2>2, <2>3
<1>5. Range(entries) = {}
  BY <1>1, <1>2 DEF Range
<1>6. IsDrawn(entries)
  BY <1>1, <1>2, <1>3 DEF IsDrawn
<1>7. inline \in [{id \in Range(entries) : IsExpanded(expanded, id)} -> BOOLEAN]
  <2>1. {id \in Range(entries) : IsExpanded(expanded, id)} = {}
    BY <1>5
  <2> QED BY <1>1, <1>2, <2>1
<1>8. ListShapes
  BY <1>3, <1>4, <1>6, <1>7 DEF ListInit, ListShapes
<1>9. DrawerShapes
  BY <1>3, NoDetailIs DEF ListInit, DrawerShapes
<1> QED BY <1>8, <1>9 DEF ListInit, ListInv, DrawerInStep, NeighboursOffered, LockedWhileSelected

LEMMA ListNextKeeps == ListInv /\ [ListNext]_listVars => ListInv'
<1> SUFFICES ASSUME ListInv, [ListNext]_listVars PROVE ListInv'
  OBVIOUS
<1>1. CASE UNCHANGED listVars
  BY <1>1 DEF listVars, ListInv, ListShapes, IsDrawn, DrawerShapes, DrawerInStep,
              NeighboursOffered, LockedWhileSelected
<1>2. CASE ListNext
  BY <1>2, LiveKeeps, AnswerKeeps, KeyboardKeeps, DrawerKeeps, MouseKeeps DEF ListNext
<1> QED BY <1>1, <1>2

LEMMA ListInvIs == ListInv => ListTypeOK /\ NeighboursOffered /\ LockedWhileSelected
<1> SUFFICES ASSUME ListInv PROVE ListTypeOK /\ NeighboursOffered /\ LockedWhileSelected
  OBVIOUS
<1>1. detail.id \in 0 .. MaxEntry
  BY DEF ListInv, DrawerShapes, Details
<1>2. ListTypeOK
  BY <1>1 DEF ListInv, ListShapes, IsDrawn, DrawerShapes, ListTypeOK
<1> QED BY <1>2 DEF ListInv, DrawerInStep

\* Expanding one entry changes what is expanded for no other.
LEMMA ToggleIs ==
  ASSUME NEW id \in EntryIds, ToggleExpand(id), NEW other \in Range(entries)
  PROVE  IsExpanded(expanded', other) <=> (IsExpanded(expanded, other) # (other = id))
<1>1. expanded' = Toggles(id)
  BY DEF ToggleExpand, Redraws, Draw
<1>2. CASE expanded.all
  BY <1>1, <1>2 DEF Toggles, IsExpanded
<1>3. CASE ~expanded.all
  <2>1. IsExpanded(expanded, other) <=> other \in expanded.ids
    BY <1>3 DEF IsExpanded
  <2>2. expanded' = [all |-> FALSE, ids |-> IF id \in expanded.ids THEN expanded.ids \ {id}
                                           ELSE expanded.ids \cup {id}]
    BY <1>1, <1>3 DEF Toggles
  <2>3. IsExpanded(expanded', other) <=>
          other \in IF id \in expanded.ids THEN expanded.ids \ {id} ELSE expanded.ids \cup {id}
    BY <2>2 DEF IsExpanded
  <2>4. other = id => (IsExpanded(expanded', other) <=> ~IsExpanded(expanded, other))
    BY <2>1, <2>3
  <2>5. other # id => (IsExpanded(expanded', other) <=> IsExpanded(expanded, other))
    BY <2>1, <2>3
  <2>6. IsExpanded(expanded, other) \in BOOLEAN /\ (other = id) \in BOOLEAN
    BY DEF IsExpanded
  <2> HIDE DEF IsExpanded
  <2>7. CASE other = id
    BY <2>4, <2>6, <2>7, Zenon
  <2>8. CASE other # id
    BY <2>5, <2>6, <2>8, Zenon
  <2> QED BY <2>7, <2>8
<1> QED BY <1>2, <1>3

\* Beside an entry's detail, previous and next are offered exactly where there is
\* an entry, and the page behind is locked only while one is selected.
THEOREM EntryListHolds == ListSpec => [](ListTypeOK /\ NeighboursOffered /\ LockedWhileSelected)
<1>1. ListSpec => []ListInv
  BY ListInitInv, ListNextKeeps, PTL DEF ListSpec
<1> QED BY <1>1, ListInvIs, PTL

\* Live entries close nothing that was expanded, or shown raw, and expanding an
\* entry does so to no other.
THEOREM OpenedHolds == ListSpec => LiveKeepsOpened /\ ExpandsOne
<1> DEFINE Live == (\E new \in EntryIds : LiveEntry(new)) =>
                     /\ \A id \in DOMAIN inline \cap Range(entries') :
                          id \in DOMAIN inline' /\ inline'[id] = inline[id]
                     /\ drawer' => drawer /\ detail'.raw = detail.raw
           One == \A id \in EntryIds : ToggleExpand(id) =>
                    \A other \in Range(entries) :
                      IsExpanded(expanded', other) <=> (IsExpanded(expanded, other) # (other = id))
<1>1. ListSpec => []ListInv
  BY ListInitInv, ListNextKeeps, PTL DEF ListSpec
<1>2. ListInv => Live /\ One
  BY LiveKeeps, ToggleIs
<1> HIDE DEF Live, One
<1>3. ListSpec => [][Live]_listVars /\ [][One]_listVars
  BY <1>1, <1>2, PTL
<1> QED BY <1>3 DEF LiveKeepsOpened, ExpandsOne, Live, One
-----------------------------------------------------------------------------
(* The query library: its lists. *)

\* A list of a kind as it should be, when n items have been made.
Once(queries) == \A i, j \in DOMAIN queries : queries[i].query = queries[j].query => i = j

Sound(kind, queries, n) ==
  /\ queries \in List(kind)
  /\ \A i \in DOMAIN queries : queries[i].id <= n
  /\ kind = "recent" => Once(queries)

LEMMA ListIs ==
  ASSUME NEW kind, NEW queries
  PROVE  queries \in List(kind) <=>
           queries \in Seq(Item) /\ Len(queries) <= IF kind = "saved" THEN SavedLimit ELSE RecentLimit
BY DEF List

\* What deleting an item leaves of a list.
LEMMA WithoutIs ==
  ASSUME NEW kind, NEW n \in Nat, NEW queries, NEW id, Sound(kind, queries, n)
  PROVE  /\ Sound(kind, Without(queries, id), n)
         /\ ~Has(Without(queries, id), id)
         /\ \A x : Has(queries, x) /\ x # id => Has(Without(queries, id), x)
<1> DEFINE I == {i \in DOMAIN queries : queries[i].id # id}
           r == Kept(queries, I)
<1>1. /\ queries \in Seq(Item) /\ DOMAIN queries = 1 .. Len(queries) /\ Len(queries) \in Nat
      /\ Len(queries) <= IF kind = "saved" THEN SavedLimit ELSE RecentLimit
      /\ \A i \in 1 .. Len(queries) : queries[i].id <= n
      /\ kind = "recent" => \A i, j \in 1 .. Len(queries) : queries[i].query = queries[j].query => i = j
  BY ListIs DEF Sound, Once
<1>2. I \in SUBSET (1 .. Len(queries)) /\ \A i \in 1 .. Len(queries) : i \in I <=> queries[i].id # id
  BY <1>1
<1>3. r = Without(queries, id)
  BY DEF Without
<1> HIDE DEF I, r
<1>4. /\ r \in Seq(Item) /\ Len(r) \in Nat /\ Len(r) <= Len(queries)
      /\ \A k \in 1 .. Len(r) : Place(I, k) \in I /\ r[k] = queries[Place(I, k)]
      /\ \A k, l \in 1 .. Len(r) : k < l => Place(I, k) < Place(I, l)
      /\ \A i \in I : \E k \in 1 .. Len(r) : Place(I, k) = i
  <2> USE <1>1, <1>2 DEF r
  <2>1. r \in Seq(Item) /\ Len(r) \in Nat /\ Len(r) <= Len(queries)
    BY KeptIs
  <2>2. \A k \in 1 .. Len(r) : Place(I, k) \in I /\ r[k] = queries[Place(I, k)]
    BY KeptIs
  <2>3. \A k, l \in 1 .. Len(r) : k < l => Place(I, k) < Place(I, l)
    BY KeptIs
  <2>4. \A i \in I : \E k \in 1 .. Len(r) : Place(I, k) = i
    BY KeptIs
  <2> HIDE DEF r
  <2> QED BY <2>1, <2>2, <2>3, <2>4
<1>5. DOMAIN r = 1 .. Len(r)
  BY <1>4
<1>6. \A k \in 1 .. Len(r) : r[k].id <= n /\ r[k].id # id
  BY <1>1, <1>2, <1>4
<1>7. ASSUME kind = "recent" PROVE Once(r)
  <2> SUFFICES ASSUME NEW k \in 1 .. Len(r), NEW l \in 1 .. Len(r), r[k].query = r[l].query, k # l
               PROVE  FALSE
    BY <1>5 DEF Once
  <2>1. Place(I, k) \in 1 .. Len(queries) /\ Place(I, l) \in 1 .. Len(queries)
    BY <1>2, <1>4
  <2>2. r[k] = queries[Place(I, k)] /\ r[l] = queries[Place(I, l)]
    BY <1>4
  <2>3. Place(I, k) = Place(I, l)
    BY <1>1, <1>7, <2>1, <2>2
  <2>4. k < l \/ l < k
    BY <1>4
  <2>5. Place(I, k) < Place(I, l) \/ Place(I, l) < Place(I, k)
    BY <1>4, <2>4
  <2> QED BY <2>1, <2>3, <2>5
<1>8. Len(r) <= IF kind = "saved" THEN SavedLimit ELSE RecentLimit
  BY <1>1, <1>4, QueryLibraryAssumption
<1>9. Sound(kind, r, n)
  BY <1>4, <1>5, <1>6, <1>7, <1>8, ListIs DEF Sound
<1>10. ~Has(r, id)
  BY <1>5, <1>6 DEF Has
<1>11. ASSUME NEW x, Has(queries, x), x # id PROVE Has(r, x)
  <2>1. PICK i \in 1 .. Len(queries) : queries[i].id = x
    BY <1>1, <1>11 DEF Has
  <2>2. PICK k \in 1 .. Len(r) : Place(I, k) = i
    BY <1>2, <1>4, <1>11, <2>1
  <2> QED BY <1>4, <1>5, <2>1, <2>2 DEF Has
<1> QED BY <1>3, <1>9, <1>10, <1>11

\* What a new item does to a list that has room for so many.
LEMMA FirstIs ==
  ASSUME NEW limit \in Nat \ {0}, NEW item \in Item, NEW queries \in Seq(Item), Len(queries) <= limit
  PROVE  /\ First(limit, <<item>> \o queries) \in Seq(Item)
         /\ Len(First(limit, <<item>> \o queries)) = IF Len(queries) = limit THEN limit ELSE Len(queries) + 1
         /\ First(limit, <<item>> \o queries)[1] = item
         /\ \A i \in 2 .. Len(First(limit, <<item>> \o queries)) :
              First(limit, <<item>> \o queries)[i] = queries[i - 1]
<1> DEFINE one == <<item>>
           all == one \o queries
           n == IF Len(all) <= limit THEN Len(all) ELSE limit
           r == SubSeq(all, 1, n)
<1>1. one \in Seq(Item) /\ Len(one) = 1 /\ one[1] = item
  OBVIOUS
<1>2. First(limit, <<item>> \o queries) = r
  BY DEF First
<1> HIDE DEF one
<1>3. Len(queries) \in Nat
  OBVIOUS
<1>4. /\ all \in Seq(Item) /\ Len(all) = 1 + Len(queries)
      /\ \A i \in 1 .. Len(one) + Len(queries) :
           all[i] = IF i <= Len(one) THEN one[i] ELSE queries[i - Len(one)]
  BY <1>1, ConcatProperties
<1>5. /\ all[1] = item
      /\ \A i \in 2 .. 1 + Len(queries) : all[i] = queries[i - 1]
  BY <1>1, <1>3, <1>4
<1> HIDE DEF all
<1>6. n \in 1 .. Len(all) /\ n = IF Len(queries) = limit THEN limit ELSE Len(queries) + 1
  BY <1>3, <1>4
<1> HIDE DEF n
<1>7. /\ r \in Seq(Item) /\ Len(r) = n
      /\ \A i \in 1 .. n : r[i] = all[i]
  BY <1>4, <1>6
<1>8. \A i \in 2 .. Len(r) : r[i] = queries[i - 1]
  BY <1>3, <1>4, <1>5, <1>6, <1>7
<1>9. r[1] = item
  BY <1>3, <1>5, <1>6, <1>7
<1> QED BY <1>2, <1>6, <1>7, <1>8, <1>9

\* Saving puts the new item in front, and only the end of a full list goes.
LEMMA SavedIs ==
  ASSUME NEW n \in Nat, NEW item \in Item, item.id = n + 1, NEW queries, Sound("saved", queries, n)
  PROVE  /\ Sound("saved", First(SavedLimit, <<item>> \o queries), n + 1)
         /\ Has(First(SavedLimit, <<item>> \o queries), n + 1) /\ ~Has(queries, n + 1)
         /\ \A x : Has(queries, x) /\ ~Has(First(SavedLimit, <<item>> \o queries), x) =>
                     Last(queries).id = x /\ Len(queries) = SavedLimit
<1> DEFINE r == First(SavedLimit, <<item>> \o queries)
<1>1. /\ queries \in Seq(Item) /\ DOMAIN queries = 1 .. Len(queries) /\ Len(queries) \in Nat
      /\ Len(queries) <= SavedLimit /\ \A i \in 1 .. Len(queries) : queries[i].id <= n
  BY ListIs DEF Sound
<1>2. /\ r \in Seq(Item) /\ Len(r) = IF Len(queries) = SavedLimit THEN SavedLimit ELSE Len(queries) + 1
      /\ r[1] = item /\ \A i \in 2 .. Len(r) : r[i] = queries[i - 1]
  <2>1. SavedLimit \in Nat \ {0} /\ queries \in Seq(Item) /\ Len(queries) <= SavedLimit
    BY <1>1, QueryLibraryAssumption
  <2> QED BY ONLY <2>1, item \in Item, FirstIs
<1> HIDE DEF r
<1>3. DOMAIN r = 1 .. Len(r) /\ Len(r) \in Nat /\ 1 <= Len(r) /\ Len(r) <= SavedLimit
  <2>1. SavedLimit \in Nat \ {0} /\ Len(queries) \in Nat /\ Len(queries) <= SavedLimit
    BY <1>1, QueryLibraryAssumption
  <2>2. Len(r) = IF Len(queries) = SavedLimit THEN SavedLimit ELSE Len(queries) + 1
    BY <1>2
  <2>3. r \in Seq(Item)
    BY <1>2
  <2> QED BY ONLY <2>1, <2>2, <2>3
<1>4. \A i \in 1 .. Len(r) : r[i].id <= n + 1
  <2> SUFFICES ASSUME NEW i \in 1 .. Len(r) PROVE r[i].id <= n + 1
    OBVIOUS
  <2>1. CASE i = 1
    BY <1>2, <2>1
  <2>2. CASE i # 1
    <3>1. i \in 2 .. Len(r) /\ i - 1 \in 1 .. Len(queries)
      BY <1>1, <1>2, <1>3, <2>2
    <3>2. queries[i - 1] \in Item /\ queries[i - 1].id <= n /\ r[i] = queries[i - 1]
      BY <1>1, <1>2, <3>1
    <3>3. queries[i - 1].id \in Nat
      BY ONLY <3>2 DEF Item
    <3> QED BY ONLY <3>2, <3>3, n \in Nat
  <2> QED BY <2>1, <2>2
<1>5. Sound("saved", r, n + 1)
  BY <1>2, <1>3, <1>4, ListIs DEF Sound
<1>6. Has(r, n + 1)
  BY <1>2, <1>3 DEF Has
<1>7. ~Has(queries, n + 1)
  BY <1>1 DEF Has
<1>8. ASSUME NEW x, Has(queries, x), ~Has(r, x) PROVE Last(queries).id = x /\ Len(queries) = SavedLimit
  <2>1. PICK i \in 1 .. Len(queries) : queries[i].id = x
    BY <1>1, <1>8 DEF Has
  <2>2. ~(i + 1 \in 2 .. Len(r))
    <3> SUFFICES ASSUME i + 1 \in 2 .. Len(r) PROVE FALSE
      OBVIOUS
    <3>1. r[i + 1] = queries[i + 1 - 1] /\ i + 1 - 1 = i /\ i + 1 \in 1 .. Len(r)
      BY <1>2, <1>3
    <3> QED BY <1>3, <1>8, <2>1, <3>1 DEF Has
  <2>3. i = Len(queries) /\ Len(queries) = SavedLimit
    <3>1. Len(queries) \in Nat /\ Len(queries) <= SavedLimit /\ SavedLimit \in Nat
      BY <1>1, QueryLibraryAssumption
    <3>2. Len(r) = IF Len(queries) = SavedLimit THEN SavedLimit ELSE Len(queries) + 1
      BY <1>2
    <3>3. ~(i + 1 <= Len(r))
      BY <1>3, <2>2
    <3> QED BY ONLY <3>1, <3>2, <3>3, i \in 1 .. Len(queries)
  <2> QED BY <2>1, <2>3 DEF Last
<1> QED BY <1>5, <1>6, <1>7, <1>8 DEF r

\* A query that is asked again is in the history once, in front.
LEMMA RecentIs ==
  ASSUME NEW n \in Nat, NEW item \in Item, item.id = n + 1, NEW queries, Sound("recent", queries, n)
  PROVE  Sound("recent", Recent(queries, item), n + 1)
<1> DEFINE I == {i \in DOMAIN queries : queries[i].query # item.query}
           k == Kept(queries, I)
           r == First(RecentLimit, <<item>> \o k)
<1>1. /\ queries \in Seq(Item) /\ DOMAIN queries = 1 .. Len(queries) /\ Len(queries) \in Nat
      /\ Len(queries) <= RecentLimit /\ \A i \in 1 .. Len(queries) : queries[i].id <= n
      /\ \A i, j \in 1 .. Len(queries) : queries[i].query = queries[j].query => i = j
  BY ListIs DEF Sound, Once
<1>2. I \in SUBSET (1 .. Len(queries)) /\ \A i \in I : queries[i].query # item.query
  BY <1>1
<1>3. Recent(queries, item) = r
  BY DEF Recent
<1> HIDE DEF I
<1>4. /\ k \in Seq(Item) /\ Len(k) \in Nat /\ Len(k) <= Len(queries)
      /\ \A i \in 1 .. Len(k) : Place(I, i) \in I /\ k[i] = queries[Place(I, i)]
      /\ \A i, j \in 1 .. Len(k) : i < j => Place(I, i) < Place(I, j)
  <2> HIDE DEF k
  <2>1. k \in Seq(Item) /\ Len(k) \in Nat /\ Len(k) <= Len(queries)
    BY <1>1, <1>2, KeptIs DEF k
  <2>2. \A i \in 1 .. Len(k) : Place(I, i) \in I /\ k[i] = queries[Place(I, i)]
    BY <1>1, <1>2, KeptIs DEF k
  <2>3. \A i, j \in 1 .. Len(k) : i < j => Place(I, i) < Place(I, j)
    BY <1>1, <1>2, KeptIs DEF k
  <2> QED BY <2>1, <2>2, <2>3
<1> HIDE DEF k
<1>5. \A i \in 1 .. Len(k) : k[i].query # item.query /\ k[i].id <= n /\ k[i].id \in Nat
  <2>1. \A i \in 1 .. Len(k) : k[i] \in Item
    BY <1>4
  <2>2. \A i \in 1 .. Len(k) : k[i].query # item.query /\ k[i].id <= n
    BY <1>1, <1>2, <1>4
  <2>3. \A x \in Item : x.id \in Nat
    BY DEF Item
  <2> QED BY <2>1, <2>2, <2>3
<1>6. \A i, j \in 1 .. Len(k) : k[i].query = k[j].query => i = j
  <2> SUFFICES ASSUME NEW i \in 1 .. Len(k), NEW j \in 1 .. Len(k), k[i].query = k[j].query, i # j
               PROVE  FALSE
    OBVIOUS
  <2>1. Place(I, i) \in 1 .. Len(queries) /\ Place(I, j) \in 1 .. Len(queries)
    BY <1>2, <1>4
  <2>2. k[i] = queries[Place(I, i)] /\ k[j] = queries[Place(I, j)]
    BY <1>4
  <2>3. Place(I, i) = Place(I, j)
    BY <1>1, <2>1, <2>2
  <2>4. i < j \/ j < i
    BY <1>4
  <2>5. Place(I, i) < Place(I, j) \/ Place(I, j) < Place(I, i)
    BY <1>4, <2>4
  <2> QED BY <2>1, <2>3, <2>5
<1>7. Len(k) <= RecentLimit
  BY <1>1, <1>4, QueryLibraryAssumption
<1>8. /\ r \in Seq(Item) /\ Len(r) = IF Len(k) = RecentLimit THEN RecentLimit ELSE Len(k) + 1
      /\ r[1] = item /\ \A i \in 2 .. Len(r) : r[i] = k[i - 1]
  BY <1>4, <1>7, FirstIs, QueryLibraryAssumption
<1> HIDE DEF r
<1>9. DOMAIN r = 1 .. Len(r) /\ Len(r) \in Nat /\ 1 <= Len(r) /\ Len(r) <= RecentLimit
  BY <1>4, <1>7, <1>8, QueryLibraryAssumption
<1>10. \A i \in 2 .. Len(r) : i - 1 \in 1 .. Len(k) /\ r[i] = k[i - 1]
  BY <1>4, <1>8, <1>9
<1>11. \A i \in 1 .. Len(r) : r[i].id <= n + 1
  <2> SUFFICES ASSUME NEW i \in 1 .. Len(r) PROVE r[i].id <= n + 1
    OBVIOUS
  <2>1. CASE i = 1
    BY <1>8, <2>1
  <2>2. CASE i # 1
    <3>1. i \in 2 .. Len(r)
      BY <1>9, <2>2
    <3>2. r[i].id <= n /\ r[i].id \in Nat
      BY <1>5, <1>10, <3>1
    <3> QED BY <3>2
  <2> QED BY <2>1, <2>2
<1>12. ASSUME NEW i \in 1 .. Len(r), NEW j \in 1 .. Len(r), r[i].query = r[j].query PROVE i = j
  <2>1. i \in Int /\ j \in Int
    OBVIOUS
  <2>2. CASE i = 1 /\ j # 1
    <3>1. j \in 2 .. Len(r)
      BY <1>9, <2>2
    <3> QED BY <1>5, <1>8, <1>10, <1>12, <2>2, <3>1
  <2>3. CASE i # 1 /\ j = 1
    <3>1. i \in 2 .. Len(r)
      BY <1>9, <2>3
    <3> QED BY <1>5, <1>8, <1>10, <1>12, <2>3, <3>1
  <2>4. CASE i # 1 /\ j # 1
    <3>1. i \in 2 .. Len(r) /\ j \in 2 .. Len(r)
      BY <1>9, <2>4
    <3>2. i - 1 = j - 1
      BY <1>6, <1>10, <1>12, <3>1
    <3> QED BY <2>1, <3>2
  <2> QED BY <2>2, <2>3, <2>4
<1>13. Once(r)
  BY <1>9, <1>12 DEF Once
<1>14. Sound("recent", r, n + 1)
  BY <1>8, <1>9, <1>11, <1>13, ListIs DEF Sound
<1> QED BY <1>3, <1>14

Shapes ==
  /\ store \in [Kinds -> Seq(Item)] /\ lists \in [Tabs -> [Kinds -> Seq(Item)]]
  /\ items \in [Tabs -> Seq(Item)]
  /\ notified \subseteq Tabs /\ form \in [Tabs -> Snapshots] /\ loading \in [Tabs -> BOOLEAN]
  /\ open \in [Tabs -> {"none", "library", "save"}] /\ tab \in [Tabs -> Kinds \cup {"suggested"}]
  /\ asking \in [Tabs -> 0 .. MaxId] /\ ids \in 0 .. MaxId

\* Every list is sound: the stored ones, the copies, and what is drawn.
StoreSound == \A kind \in Kinds : Sound(kind, store[kind], ids)

CopiesSound == \A t \in Tabs, kind \in Kinds : Sound(kind, lists[t][kind], ids)

DrawingsSound ==
  \A t \in Tabs : open[t] = "library" /\ tab[t] \in Kinds => Sound(tab[t], items[t], ids)

\* Only what is drawn can be deleted.
AsksForDrawn ==
  \A t \in Tabs : asking[t] # 0 =>
    open[t] = "library" /\ tab[t] \in Kinds /\ Has(items[t], asking[t])

\* What makes the promises of the library inductive: the lists of the tabs and of
\* the storage are sound, and a deletion asked for is of an item drawn.
LibraryInv ==
  /\ Shapes /\ StoreSound /\ CopiesSound /\ DrawingsSound /\ AsksForDrawn
  /\ SavedIsStored /\ LibraryShowsSaved

LEMMA LibraryInitInv == LibraryInit => LibraryInv
<1> SUFFICES ASSUME LibraryInit PROVE LibraryInv
  OBVIOUS
<1> DEFINE none == <<>>
<1>1. none \in Seq(Item) /\ Len(none) = 0 /\ DOMAIN none = {}
  OBVIOUS
<1>2. /\ store = [kind \in Kinds |-> none] /\ lists = [t \in Tabs |-> [kind \in Kinds |-> none]]
      /\ items = [t \in Tabs |-> none]
  BY DEF LibraryInit, Empty
<1> HIDE DEF none
<1>3. Shapes
  <2>1. /\ store \in [Kinds -> Seq(Item)] /\ lists \in [Tabs -> [Kinds -> Seq(Item)]]
        /\ items \in [Tabs -> Seq(Item)]
    BY <1>1, <1>2
  <2>2. "recent" \in Kinds
    BY DEF Kinds
  <2>3. /\ asking \in [Tabs -> 0 .. MaxId] /\ ids \in 0 .. MaxId
    BY QueryLibraryAssumption DEF LibraryInit
  <2>4. /\ notified \subseteq Tabs /\ form \in [Tabs -> Snapshots] /\ loading \in [Tabs -> BOOLEAN]
        /\ open \in [Tabs -> {"none", "library", "save"}] /\ tab \in [Tabs -> Kinds \cup {"suggested"}]
    BY <2>2 DEF LibraryInit
  <2> QED BY <2>1, <2>3, <2>4 DEF Shapes
<1>4. \A kind \in Kinds : Sound(kind, none, ids)
  <2>1. 0 <= SavedLimit /\ 0 <= RecentLimit
    BY QueryLibraryAssumption
  <2> QED BY <1>1, <2>1, ListIs DEF Sound, Once
<1>5. StoreSound /\ CopiesSound
  BY <1>2, <1>4 DEF StoreSound, CopiesSound
<1>6. DrawingsSound /\ AsksForDrawn /\ LibraryShowsSaved
  BY DEF LibraryInit, DrawingsSound, AsksForDrawn, LibraryShowsSaved
<1>7. SavedIsStored
  BY <1>2 DEF SavedIsStored, Kinds
<1> QED BY <1>3, <1>5, <1>6, <1>7 DEF LibraryInv

\* What touches no list and opens no library.
LEMMA QuietLibrary ==
  ASSUME LibraryInv, UNCHANGED <<store, lists, notified, items, tab, ids>>,
         form' \in [Tabs -> Snapshots], loading' \in [Tabs -> BOOLEAN],
         open' \in [Tabs -> {"none", "library", "save"}], asking' \in [Tabs -> 0 .. MaxId],
         \A t \in Tabs : open'[t] = "library" => open[t] = "library",
         \A t \in Tabs : asking'[t] # 0 =>
           open'[t] = "library" /\ tab[t] \in Kinds /\ Has(items[t], asking'[t])
  PROVE  LibraryInv' /\ KeepsSaved
<1>1. Shapes'
  BY DEF LibraryInv, Shapes
<1>2. StoreSound' /\ CopiesSound'
  BY DEF LibraryInv, StoreSound, CopiesSound
<1>3. DrawingsSound' /\ AsksForDrawn'
  BY DEF LibraryInv, DrawingsSound, AsksForDrawn
<1>4. SavedIsStored' /\ LibraryShowsSaved'
  BY DEF LibraryInv, SavedIsStored, LibraryShowsSaved
<1>5. KeepsSaved
  BY DEF KeepsSaved, Leaves
<1> QED BY <1>1, <1>2, <1>3, <1>4, <1>5 DEF LibraryInv

LEMMA QuietStepsKeep ==
  ASSUME LibraryInv, NEW t \in Tabs,
         \/ \E q \in Snapshots : Search(t, q)
         \/ LoadFails(t) \/ DismissDelete(t) \/ OpenSave(t) \/ CloseLibraryDialog(t)
         \/ \E id \in 1 .. MaxId : AskDelete(t, id) \/ \E run \in BOOLEAN : UseItem(t, id, run)
  PROVE  LibraryInv' /\ KeepsSaved
<1>1. /\ form \in [Tabs -> Snapshots] /\ loading \in [Tabs -> BOOLEAN]
      /\ open \in [Tabs -> {"none", "library", "save"}] /\ tab \in [Tabs -> Kinds \cup {"suggested"}]
      /\ asking \in [Tabs -> 0 .. MaxId] /\ items \in [Tabs -> Seq(Item)] /\ MaxId \in Nat
  BY QueryLibraryAssumption DEF LibraryInv, Shapes
<1>2. \A s \in Tabs : asking[s] # 0 =>
        open[s] = "library" /\ tab[s] \in Kinds /\ Has(items[s], asking[s])
  BY DEF LibraryInv, AsksForDrawn
<1>3. ASSUME NEW q \in Snapshots, Search(t, q) PROVE LibraryInv' /\ KeepsSaved
  BY <1>1, <1>2, <1>3, QuietLibrary DEF Search
<1>4. ASSUME LoadFails(t) PROVE LibraryInv' /\ KeepsSaved
  BY <1>1, <1>2, <1>4, QuietLibrary DEF LoadFails
<1>5. ASSUME DismissDelete(t) PROVE LibraryInv' /\ KeepsSaved
  <2>1. asking' \in [Tabs -> 0 .. MaxId] /\ \A s \in Tabs : asking'[s] # 0 => asking'[s] = asking[s]
    BY <1>1, <1>5 DEF DismissDelete
  <2> QED BY <1>1, <1>2, <1>5, <2>1, QuietLibrary DEF DismissDelete
<1>6. ASSUME OpenSave(t) \/ CloseLibraryDialog(t) PROVE LibraryInv' /\ KeepsSaved
  <2>1. /\ open' \in [Tabs -> {"none", "library", "save"}] /\ asking[t] = 0
        /\ \A s \in Tabs : s # t => open'[s] = open[s]
        /\ open'[t] # "library"
    BY <1>1, <1>6 DEF OpenSave, CloseLibraryDialog, Runs
  <2> QED BY <1>1, <1>2, <1>6, <2>1, QuietLibrary DEF OpenSave, CloseLibraryDialog
<1>7. ASSUME NEW id \in 1 .. MaxId, AskDelete(t, id) PROVE LibraryInv' /\ KeepsSaved
  <2>1. /\ asking' \in [Tabs -> 0 .. MaxId] /\ asking'[t] = id
        /\ \A s \in Tabs : s # t => asking'[s] = asking[s]
    BY <1>1, <1>7 DEF AskDelete
  <2>2. open[t] = "library" /\ tab[t] \in Kinds /\ Has(items[t], id)
    BY <1>1, <1>7 DEF AskDelete
  <2>3. UNCHANGED <<store, lists, notified, form, loading, open, tab, items, ids>>
    BY <1>7 DEF AskDelete
  <2> QED BY <1>1, <1>2, <2>1, <2>2, <2>3, QuietLibrary
<1>8. ASSUME NEW id \in 1 .. MaxId, NEW run \in BOOLEAN, UseItem(t, id, run)
      PROVE  LibraryInv' /\ KeepsSaved
  <2>1. form' \in [Tabs -> Snapshots]
    <3>1. CASE tab[t] = "suggested" /\ form' \in {[form EXCEPT ![t] = q] : q \in Snapshots}
      BY <1>1, <3>1
    <3>2. CASE \E item \in Range(items[t]) : item.id = id /\ form' = [form EXCEPT ![t] = item.query]
      <4>1. PICK item \in Range(items[t]) : form' = [form EXCEPT ![t] = item.query]
        BY <3>2
      <4>2. item \in Item
        BY <1>1, <4>1 DEF Range
      <4> QED BY <1>1, <4>1, <4>2 DEF Item
    <3> QED BY <1>8, <3>1, <3>2 DEF UseItem
  <2>2. /\ open' \in [Tabs -> {"none", "library", "save"}] /\ asking[t] = 0
        /\ \A s \in Tabs : s # t => open'[s] = open[s]
        /\ open'[t] # "library"
    BY <1>1, <1>8 DEF UseItem, Runs
  <2>3. loading' \in [Tabs -> BOOLEAN]
    BY <1>1, <1>8 DEF UseItem
  <2>4. UNCHANGED <<store, lists, notified, tab, items, asking, ids>>
    BY <1>8 DEF UseItem
  <2> QED BY <1>1, <1>2, <2>1, <2>2, <2>3, <2>4, QuietLibrary
<1> QED BY <1>3, <1>4, <1>5, <1>6, <1>7, <1>8

LEMMA ShowKeeps ==
  ASSUME LibraryInv, NEW t \in Tabs, NEW which \in Kinds \cup {"suggested"}, ShowLibrary(t, which)
  PROVE  LibraryInv' /\ KeepsSaved
<1> DEFINE drawn == Drawn(lists[t], which)
<1>1. /\ store \in [Kinds -> Seq(Item)] /\ lists \in [Tabs -> [Kinds -> Seq(Item)]]
      /\ items \in [Tabs -> Seq(Item)]
      /\ open \in [Tabs -> {"none", "library", "save"}] /\ tab \in [Tabs -> Kinds \cup {"suggested"}]
  BY DEF LibraryInv, Shapes
<1>2. drawn \in Seq(Item) /\ (which \in Kinds => drawn = lists[t][which])
  BY <1>1 DEF Drawn
<1>3. /\ items' = [items EXCEPT ![t] = drawn] /\ tab' = [tab EXCEPT ![t] = which]
      /\ open' = [open EXCEPT ![t] = "library"] /\ asking[t] = 0
      /\ UNCHANGED <<store, lists, notified, form, loading, asking, ids>>
  BY DEF ShowLibrary, Runs
<1> HIDE DEF drawn
<1>4. /\ items'[t] = drawn /\ tab'[t] = which /\ open'[t] = "library"
      /\ \A s \in Tabs : s # t => items'[s] = items[s] /\ tab'[s] = tab[s] /\ open'[s] = open[s]
  BY <1>1, <1>3
<1>5. Shapes'
  <2>1. items' \in [Tabs -> Seq(Item)]
    BY <1>1, <1>2, <1>3
  <2>2. tab' \in [Tabs -> Kinds \cup {"suggested"}]
    BY <1>1, <1>3
  <2>3. open' \in [Tabs -> {"none", "library", "save"}]
    BY <1>1, <1>3
  <2> QED BY <1>3, <2>1, <2>2, <2>3 DEF LibraryInv, Shapes
<1>6. StoreSound' /\ CopiesSound'
  BY <1>3 DEF LibraryInv, StoreSound, CopiesSound
<1>7. DrawingsSound'
  BY <1>2, <1>3, <1>4 DEF LibraryInv, CopiesSound, DrawingsSound
<1>8. AsksForDrawn'
  BY <1>3, <1>4 DEF LibraryInv, AsksForDrawn
<1>9. SavedIsStored' /\ LibraryShowsSaved'
  <2>1. "saved" \in Kinds
    BY DEF Kinds
  <2> QED BY <1>2, <1>3, <1>4, <2>1 DEF LibraryInv, SavedIsStored, LibraryShowsSaved
<1>10. KeepsSaved
  BY <1>3 DEF KeepsSaved, Leaves
<1> QED BY <1>5, <1>6, <1>7, <1>8, <1>9, <1>10 DEF LibraryInv

\* What persist does.
LEMMA PersistIs ==
  ASSUME LibraryInv, NEW t \in Tabs, NEW kind \in Kinds, NEW queries \in Seq(Item), NEW fails,
         Persist(t, kind, queries, fails)
  PROVE  /\ store' \in [Kinds -> Seq(Item)] /\ notified' \subseteq Tabs
         /\ \A k \in Kinds : store'[k] = IF k = kind /\ ~fails THEN queries ELSE store[k]
         /\ notified \subseteq notified'
         /\ store'.saved # store.saved => Tabs \ {t} \subseteq notified'
<1>1. store \in [Kinds -> Seq(Item)] /\ notified \subseteq Tabs /\ "saved" \in Kinds
  BY DEF LibraryInv, Shapes, Kinds
<1>2. store' = IF fails THEN store ELSE [store EXCEPT ![kind] = queries]
  BY DEF Persist
<1>3. store' \in [Kinds -> Seq(Item)] /\ \A k \in Kinds : store'[k] = IF k = kind /\ ~fails THEN queries ELSE store[k]
  BY <1>1, <1>2
<1>4. /\ notified' = IF ~fails /\ kind = "saved" /\ queries # store.saved
                     THEN notified \cup (Tabs \ {t}) ELSE notified
  BY DEF Persist
<1>5. notified \subseteq notified' /\ notified' \subseteq Tabs
  BY <1>1, <1>4
<1>6. ASSUME store'.saved # store.saved PROVE Tabs \ {t} \subseteq notified'
  <2>1. ~fails /\ kind = "saved" /\ queries # store.saved
    BY <1>1, <1>3, <1>6
  <2> QED BY <1>4, <2>1
<1> QED BY <1>3, <1>5, <1>6

LEMMA SoundLater ==
  ASSUME NEW kind, NEW queries, NEW n \in Nat, Sound(kind, queries, n)
  PROVE  Sound(kind, queries, n + 1)
<1>1. queries \in Seq(Item)
  BY ListIs DEF Sound
<1>2. \A i \in DOMAIN queries : queries[i] \in Item
  BY <1>1
<1>3. \A i \in DOMAIN queries : queries[i].id \in Nat /\ queries[i].id <= n
  BY <1>2 DEF Item, Sound
<1>4. \A i \in DOMAIN queries : queries[i].id <= n + 1
  BY <1>3
<1> QED BY <1>4 DEF Sound

LEMMA RecordKeeps ==
  ASSUME LibraryInv, NEW t \in Tabs, NEW fails, RecordQuery(t, fails)
  PROVE  LibraryInv' /\ KeepsSaved
<1> DEFINE item == NewItem(form[t])
           queries == Recent(lists[t].recent, item)
<1>1. /\ store \in [Kinds -> Seq(Item)] /\ lists \in [Tabs -> [Kinds -> Seq(Item)]]
      /\ form \in [Tabs -> Snapshots] /\ loading \in [Tabs -> BOOLEAN]
      /\ ids \in 0 .. MaxId /\ MaxId \in Nat
  BY QueryLibraryAssumption DEF LibraryInv, Shapes
<1>2. "saved" \in Kinds /\ "recent" \in Kinds /\ Kinds = {"saved", "recent"}
  BY DEF Kinds
<1>3. item \in Item /\ item.id = ids + 1
  BY <1>1 DEF NewItem, Item, RecordQuery
<1>4. ids' = ids + 1 /\ ids' \in 0 .. MaxId /\ ids \in Nat
  BY <1>1 DEF RecordQuery
<1>5. lists' = [lists EXCEPT ![t].recent = queries]
  BY DEF RecordQuery
<1>6. Sound("recent", lists[t].recent, ids)
  BY <1>2 DEF LibraryInv, CopiesSound
<1> HIDE DEF item
<1>7. Sound("recent", queries, ids + 1)
  BY <1>3, <1>4, <1>6, RecentIs
<1> HIDE DEF queries
<1>8. queries \in Seq(Item)
  BY <1>7, ListIs DEF Sound
<1>9. /\ lists' \in [Tabs -> [Kinds -> Seq(Item)]]
      /\ lists'[t].recent = queries /\ lists'[t].saved = lists[t].saved
      /\ \A s \in Tabs : s # t => lists'[s] = lists[s]
  BY <1>1, <1>2, <1>5, <1>8
<1>10. Persist(t, "recent", queries, fails)
  BY <1>9 DEF RecordQuery
<1>11. /\ store' \in [Kinds -> Seq(Item)] /\ notified' \subseteq Tabs
       /\ \A k \in Kinds : store'[k] = IF k = "recent" /\ ~fails THEN queries ELSE store[k]
       /\ notified \subseteq notified'
  BY <1>2, <1>8, <1>10, PersistIs
<1>12. UNCHANGED <<form, open, tab, items, asking>> /\ loading' \in [Tabs -> BOOLEAN]
  BY <1>1 DEF RecordQuery
<1>13. Shapes'
  BY <1>4, <1>9, <1>11, <1>12 DEF LibraryInv, Shapes
<1>14. StoreSound'
  <2> SUFFICES ASSUME NEW k \in Kinds PROVE Sound(k, store'[k], ids + 1)
    BY <1>4 DEF StoreSound
  <2>1. Sound(k, store[k], ids + 1)
    BY <1>4, SoundLater DEF LibraryInv, StoreSound
  <2> QED BY <1>7, <1>11, <2>1
<1>15. CopiesSound'
  <2> SUFFICES ASSUME NEW s \in Tabs, NEW k \in Kinds PROVE Sound(k, lists'[s][k], ids + 1)
    BY <1>4 DEF CopiesSound
  <2>1. Sound(k, lists[s][k], ids + 1)
    BY <1>4, SoundLater DEF LibraryInv, CopiesSound
  <2> QED BY <1>2, <1>7, <1>9, <2>1
<1>16. DrawingsSound'
  <2> SUFFICES ASSUME NEW s \in Tabs, open[s] = "library", tab[s] \in Kinds
               PROVE  Sound(tab[s], items[s], ids + 1)
    BY <1>4, <1>12 DEF DrawingsSound
  <2> QED BY <1>4, SoundLater DEF LibraryInv, DrawingsSound
<1>17. AsksForDrawn' /\ LibraryShowsSaved'
  BY <1>9, <1>12 DEF LibraryInv, AsksForDrawn, LibraryShowsSaved
<1>18. store'.saved = store.saved
  BY <1>2, <1>11
<1>19. SavedIsStored'
  BY <1>9, <1>11, <1>18 DEF LibraryInv, SavedIsStored
<1>20. KeepsSaved
  BY <1>18 DEF KeepsSaved, Leaves
<1> QED BY <1>13, <1>14, <1>15, <1>16, <1>17, <1>19, <1>20 DEF LibraryInv

LEMMA ConfirmKeeps ==
  ASSUME LibraryInv, NEW t \in Tabs, NEW fails, ConfirmDelete(t, fails)
  PROVE  LibraryInv' /\ KeepsSaved
<1> DEFINE id == asking[t]
           kind == tab[t]
           next == Without(items[t], id)
<1>1. /\ store \in [Kinds -> Seq(Item)] /\ lists \in [Tabs -> [Kinds -> Seq(Item)]]
      /\ items \in [Tabs -> Seq(Item)] /\ asking \in [Tabs -> 0 .. MaxId]
      /\ ids \in Nat /\ MaxId \in Nat
  BY QueryLibraryAssumption DEF LibraryInv, Shapes
<1>2. "saved" \in Kinds /\ "recent" \in Kinds /\ Kinds = {"saved", "recent"}
  BY DEF Kinds
<1>3. open[t] = "library" /\ kind \in Kinds /\ Has(items[t], id)
  BY DEF LibraryInv, AsksForDrawn, ConfirmDelete
<1>4. Sound(kind, items[t], ids)
  BY <1>3 DEF LibraryInv, DrawingsSound
<1>5. kind = "saved" => items[t] = lists[t].saved
  BY <1>3 DEF LibraryInv, LibraryShowsSaved
<1>6. /\ Persist(t, kind, next, fails)
      /\ lists' = IF fails THEN lists ELSE [lists EXCEPT ![t][kind] = next]
      /\ items' = IF fails THEN items ELSE [items EXCEPT ![t] = next]
      /\ asking' = [asking EXCEPT ![t] = 0]
      /\ UNCHANGED <<form, loading, open, tab, ids>>
  BY DEF ConfirmDelete, Write
<1>7. /\ Sound(kind, next, ids) /\ ~Has(next, id)
      /\ \A x : Has(items[t], x) /\ x # id => Has(next, x)
  BY <1>1, <1>4, WithoutIs
<1> HIDE DEF next
<1>8. next \in Seq(Item)
  BY <1>7, ListIs DEF Sound
<1>9. /\ store' \in [Kinds -> Seq(Item)] /\ notified' \subseteq Tabs
      /\ \A k \in Kinds : store'[k] = IF k = kind /\ ~fails THEN next ELSE store[k]
      /\ notified \subseteq notified'
      /\ store'.saved # store.saved => Tabs \ {t} \subseteq notified'
  BY <1>3, <1>6, <1>8, PersistIs
<1>10. /\ lists' \in [Tabs -> [Kinds -> Seq(Item)]]
       /\ \A k \in Kinds : lists'[t][k] = IF k = kind /\ ~fails THEN next ELSE lists[t][k]
       /\ \A s \in Tabs : s # t => lists'[s] = lists[s]
  <2> HIDE DEF kind
  <2> QED BY <1>1, <1>3, <1>6, <1>8
<1>11. /\ items' \in [Tabs -> Seq(Item)]
       /\ items'[t] = IF fails THEN items[t] ELSE next
       /\ \A s \in Tabs : s # t => items'[s] = items[s]
  BY <1>1, <1>6, <1>8
<1>12. /\ asking' \in [Tabs -> 0 .. MaxId] /\ asking'[t] = 0
       /\ \A s \in Tabs : s # t => asking'[s] = asking[s]
  BY <1>1, <1>6
<1>13. Shapes'
  BY <1>6, <1>9, <1>10, <1>11, <1>12 DEF LibraryInv, Shapes
<1>14. StoreSound'
  <2> SUFFICES ASSUME NEW k \in Kinds PROVE Sound(k, store'[k], ids)
    BY <1>6 DEF StoreSound
  <2> HIDE DEF kind
  <2>1. Sound(k, store[k], ids)
    BY DEF LibraryInv, StoreSound
  <2> QED BY <1>7, <1>9, <2>1
<1>15. CopiesSound'
  <2> SUFFICES ASSUME NEW s \in Tabs, NEW k \in Kinds PROVE Sound(k, lists'[s][k], ids)
    BY <1>6 DEF CopiesSound
  <2> HIDE DEF kind
  <2>1. Sound(k, lists[s][k], ids)
    BY DEF LibraryInv, CopiesSound
  <2> QED BY <1>7, <1>10, <2>1
<1>16. DrawingsSound'
  <2> SUFFICES ASSUME NEW s \in Tabs, open[s] = "library", tab[s] \in Kinds
               PROVE  Sound(tab[s], items'[s], ids)
    BY <1>6 DEF DrawingsSound
  <2>1. Sound(tab[s], items[s], ids)
    BY DEF LibraryInv, DrawingsSound
  <2> QED BY <1>7, <1>11, <2>1
<1>17. AsksForDrawn'
  BY <1>6, <1>11, <1>12 DEF LibraryInv, AsksForDrawn
<1>18. LibraryShowsSaved'
  <2> SUFFICES ASSUME NEW s \in Tabs, open[s] = "library", tab[s] = "saved"
               PROVE  items'[s] = lists'[s].saved
    BY <1>6 DEF LibraryShowsSaved
  <2>1. items[s] = lists[s].saved
    BY DEF LibraryInv, LibraryShowsSaved
  <2> QED BY <1>2, <1>10, <1>11, <2>1
<1>19. SavedIsStored'
  <2> SUFFICES ASSUME NEW s \in Tabs \ notified' PROVE lists'[s].saved = store'.saved
    BY DEF SavedIsStored
  <2>1. lists[s].saved = store.saved
    BY <1>9 DEF LibraryInv, SavedIsStored
  <2> HIDE DEF kind
  <2>2. CASE s = t
    BY <1>2, <1>9, <1>10, <2>1, <2>2
  <2>3. CASE s # t
    BY <1>9, <1>10, <2>1, <2>3
  <2> QED BY <2>2, <2>3
<1>20. KeepsSaved
  <2> SUFFICES ASSUME NEW x \in 1 .. MaxId, Has(store.saved, x), ~Has(store'.saved, x)
               PROVE  lists'[t] # lists[t] /\ (t \in notified \/ id = x)
    BY DEF KeepsSaved, Leaves
  <2>1. kind = "saved" /\ store'.saved = next /\ lists'[t].saved = next
    BY <1>2, <1>9, <1>10
  <2>2. items[t] = lists[t].saved
    BY <1>5, <2>1
  <2>3. lists'[t] # lists[t]
    BY <1>3, <1>7, <2>1, <2>2
  <2>4. t \notin notified => lists[t].saved = store.saved
    BY DEF LibraryInv, SavedIsStored
  <2>5. t \notin notified => x = id
    BY <1>7, <2>1, <2>2, <2>4
  <2> QED BY <2>3, <2>5
<1> QED BY <1>13, <1>14, <1>15, <1>16, <1>17, <1>18, <1>19, <1>20 DEF LibraryInv

LEMMA SaveKeeps ==
  ASSUME LibraryInv, NEW t \in Tabs, NEW fails, SaveQuery(t, fails)
  PROVE  LibraryInv' /\ KeepsSaved
<1> DEFINE item == NewItem(form[t])
           next == First(SavedLimit, <<item>> \o lists[t].saved)
<1>1. /\ store \in [Kinds -> Seq(Item)] /\ lists \in [Tabs -> [Kinds -> Seq(Item)]]
      /\ form \in [Tabs -> Snapshots] /\ open \in [Tabs -> {"none", "library", "save"}]
      /\ asking \in [Tabs -> 0 .. MaxId] /\ ids \in 0 .. MaxId /\ MaxId \in Nat
  BY QueryLibraryAssumption DEF LibraryInv, Shapes
<1>2. "saved" \in Kinds /\ "recent" \in Kinds /\ Kinds = {"saved", "recent"}
  BY DEF Kinds
<1>3. item \in Item /\ item.id = ids + 1
  BY <1>1 DEF NewItem, Item, SaveQuery
<1>4. ids' = ids + 1 /\ ids' \in 0 .. MaxId /\ ids \in Nat
  BY <1>1 DEF SaveQuery
<1>5. /\ Persist(t, "saved", next, fails)
      /\ lists' = IF fails THEN lists ELSE [lists EXCEPT ![t].saved = next]
      /\ open' = [open EXCEPT ![t] = IF fails THEN "save" ELSE "none"]
      /\ UNCHANGED <<form, loading, tab, items, asking>> /\ asking[t] = 0
  BY DEF SaveQuery, Write, Runs
<1>6. Sound("saved", lists[t].saved, ids)
  BY <1>2 DEF LibraryInv, CopiesSound
<1> HIDE DEF item
<1>7. /\ Sound("saved", next, ids + 1)
      /\ Has(next, ids + 1) /\ ~Has(lists[t].saved, ids + 1)
      /\ \A x : Has(lists[t].saved, x) /\ ~Has(next, x) =>
                  Last(lists[t].saved).id = x /\ Len(lists[t].saved) = SavedLimit
  BY <1>3, <1>4, <1>6, SavedIs
<1> HIDE DEF next
<1>8. next \in Seq(Item)
  BY <1>7, ListIs DEF Sound
<1>9. /\ store' \in [Kinds -> Seq(Item)] /\ notified' \subseteq Tabs
      /\ \A k \in Kinds : store'[k] = IF k = "saved" /\ ~fails THEN next ELSE store[k]
      /\ notified \subseteq notified'
      /\ store'.saved # store.saved => Tabs \ {t} \subseteq notified'
  BY <1>2, <1>5, <1>8, PersistIs
<1>10. /\ lists' \in [Tabs -> [Kinds -> Seq(Item)]]
       /\ \A k \in Kinds : lists'[t][k] = IF k = "saved" /\ ~fails THEN next ELSE lists[t][k]
       /\ \A s \in Tabs : s # t => lists'[s] = lists[s]
  BY <1>1, <1>2, <1>5, <1>8
<1>11. /\ open' \in [Tabs -> {"none", "library", "save"}] /\ open'[t] # "library"
       /\ \A s \in Tabs : s # t => open'[s] = open[s]
  BY <1>1, <1>5
<1>12. Shapes'
  BY <1>4, <1>5, <1>9, <1>10, <1>11 DEF LibraryInv, Shapes
<1>13. StoreSound'
  <2> SUFFICES ASSUME NEW k \in Kinds PROVE Sound(k, store'[k], ids + 1)
    BY <1>4 DEF StoreSound
  <2>1. Sound(k, store[k], ids + 1)
    BY <1>4, SoundLater DEF LibraryInv, StoreSound
  <2> QED BY <1>7, <1>9, <2>1
<1>14. CopiesSound'
  <2> SUFFICES ASSUME NEW s \in Tabs, NEW k \in Kinds PROVE Sound(k, lists'[s][k], ids + 1)
    BY <1>4 DEF CopiesSound
  <2>1. Sound(k, lists[s][k], ids + 1)
    BY <1>4, SoundLater DEF LibraryInv, CopiesSound
  <2> QED BY <1>7, <1>10, <2>1
<1>15. DrawingsSound'
  <2> SUFFICES ASSUME NEW s \in Tabs, open'[s] = "library", tab[s] \in Kinds
               PROVE  Sound(tab[s], items[s], ids + 1)
    BY <1>4, <1>5 DEF DrawingsSound
  <2>1. open[s] = "library"
    BY <1>11
  <2> QED BY <1>4, <2>1, SoundLater DEF LibraryInv, DrawingsSound
<1>16. AsksForDrawn'
  BY <1>5, <1>11 DEF LibraryInv, AsksForDrawn
<1>17. LibraryShowsSaved'
  BY <1>5, <1>10, <1>11 DEF LibraryInv, LibraryShowsSaved
<1>18. SavedIsStored'
  <2> SUFFICES ASSUME NEW s \in Tabs \ notified' PROVE lists'[s].saved = store'.saved
    BY DEF SavedIsStored
  <2>1. lists[s].saved = store.saved
    BY <1>9 DEF LibraryInv, SavedIsStored
  <2>2. CASE s = t
    BY <1>2, <1>9, <1>10, <2>1, <2>2
  <2>3. CASE s # t
    BY <1>9, <1>10, <2>1, <2>3
  <2> QED BY <2>2, <2>3
<1>19. KeepsSaved
  <2> SUFFICES ASSUME NEW x \in 1 .. MaxId, Has(store.saved, x), ~Has(store'.saved, x)
               PROVE  \/ Last(store.saved).id = x /\ Len(store.saved) = SavedLimit
                      \/ lists'[t] # lists[t] /\ t \in notified
    BY DEF KeepsSaved, Leaves
  <2>1. store'.saved = next /\ lists'[t].saved = next
    BY <1>2, <1>9, <1>10
  <2>2. lists'[t] # lists[t]
    BY <1>7, <2>1
  <2>3. t \notin notified => lists[t].saved = store.saved
    BY DEF LibraryInv, SavedIsStored
  <2> QED BY <1>7, <2>1, <2>2, <2>3
<1> QED BY <1>12, <1>13, <1>14, <1>15, <1>16, <1>17, <1>18, <1>19 DEF LibraryInv

LEMMA ReadBackKeeps ==
  ASSUME LibraryInv, NEW t \in Tabs, StorageEvent(t) \/ Reload(t)
  PROVE  LibraryInv' /\ KeepsSaved
<1>1. /\ store \in [Kinds -> Seq(Item)] /\ lists \in [Tabs -> [Kinds -> Seq(Item)]]
      /\ items \in [Tabs -> Seq(Item)] /\ loading \in [Tabs -> BOOLEAN]
      /\ open \in [Tabs -> {"none", "library", "save"}] /\ tab \in [Tabs -> Kinds \cup {"suggested"}]
      /\ asking \in [Tabs -> 0 .. MaxId] /\ MaxId \in Nat /\ notified \subseteq Tabs
  BY QueryLibraryAssumption DEF LibraryInv, Shapes
<1>2. "saved" \in Kinds /\ "recent" \in Kinds /\ Kinds = {"saved", "recent"}
  BY DEF Kinds
<1>3. UNCHANGED <<store, form, ids>> /\ notified' = notified \ {t}
  BY DEF StorageEvent, Reload
<1>4. /\ lists' \in [Tabs -> [Kinds -> Seq(Item)]] /\ lists'[t].saved = store.saved
      /\ \A k \in Kinds : lists'[t][k] = store[k] \/ lists'[t][k] = lists[t][k]
      /\ \A s \in Tabs : s # t => lists'[s] = lists[s]
  <2>1. CASE StorageEvent(t)
    BY <1>1, <1>2, <2>1 DEF StorageEvent
  <2>2. CASE Reload(t)
    BY <1>1, <1>2, <2>2 DEF Reload
  <2> QED BY <2>1, <2>2
<1>5. /\ items' \in [Tabs -> Seq(Item)] /\ loading' \in [Tabs -> BOOLEAN]
      /\ open' \in [Tabs -> {"none", "library", "save"}] /\ tab' \in [Tabs -> Kinds \cup {"suggested"}]
      /\ asking' \in [Tabs -> 0 .. MaxId] /\ asking'[t] = 0
      /\ \A s \in Tabs : s # t => /\ items'[s] = items[s] /\ open'[s] = open[s]
                                  /\ tab'[s] = tab[s] /\ asking'[s] = asking[s]
      /\ open'[t] = "library" => /\ open[t] = "library" /\ tab'[t] = tab[t]
                                 /\ tab[t] \in Kinds => items'[t] = lists'[t][tab[t]]
  <2>1. CASE StorageEvent(t)
    <3> DEFINE drawn == Drawn(lists'[t], tab[t])
    <3>1. drawn \in Seq(Item) /\ (tab[t] \in Kinds => drawn = lists'[t][tab[t]])
      BY <1>4 DEF Drawn
    <3>2. items' = IF open[t] = "library" THEN [items EXCEPT ![t] = drawn] ELSE items
      BY <2>1 DEF StorageEvent
    <3> HIDE DEF drawn
    <3>3. asking[t] = 0 /\ UNCHANGED <<loading, open, tab, asking>>
      BY <2>1 DEF StorageEvent, Runs
    <3>4. items' \in [Tabs -> Seq(Item)] /\ \A s \in Tabs : s # t => items'[s] = items[s]
      BY <1>1, <3>1, <3>2
    <3>5. open[t] = "library" => items'[t] = drawn
      BY <1>1, <3>2
    <3> QED BY <1>1, <3>1, <3>3, <3>4, <3>5
  <2>2. CASE Reload(t)
    <3> DEFINE none == <<>>
    <3>1. none \in Seq(Item)
      OBVIOUS
    <3>2. /\ loading' = [loading EXCEPT ![t] = TRUE] /\ open' = [open EXCEPT ![t] = "none"]
          /\ tab' = [tab EXCEPT ![t] = "recent"] /\ items' = [items EXCEPT ![t] = none]
          /\ asking' = [asking EXCEPT ![t] = 0]
      BY <2>2 DEF Reload
    <3> HIDE DEF none
    <3> QED BY <1>1, <1>2, <3>1, <3>2
  <2> QED BY <2>1, <2>2
<1>6. Shapes'
  BY <1>1, <1>3, <1>4, <1>5 DEF LibraryInv, Shapes
<1>7. StoreSound'
  BY <1>3 DEF LibraryInv, StoreSound
<1>8. CopiesSound'
  <2> SUFFICES ASSUME NEW s \in Tabs, NEW k \in Kinds PROVE Sound(k, lists'[s][k], ids)
    BY <1>3 DEF CopiesSound
  <2>1. Sound(k, lists[s][k], ids) /\ Sound(k, store[k], ids)
    BY DEF LibraryInv, CopiesSound, StoreSound
  <2> QED BY <1>4, <2>1
<1>9. DrawingsSound'
  <2> SUFFICES ASSUME NEW s \in Tabs, open'[s] = "library", tab'[s] \in Kinds
               PROVE  Sound(tab'[s], items'[s], ids)
    BY <1>3 DEF DrawingsSound
  <2>1. CASE s = t
    <3>1. Sound(tab[t], lists'[t][tab[t]], ids)
      BY <1>3, <1>5, <1>8, <2>1 DEF CopiesSound
    <3> QED BY <1>5, <2>1, <3>1
  <2>2. CASE s # t
    BY <1>5, <2>2 DEF LibraryInv, DrawingsSound
  <2> QED BY <2>1, <2>2
<1>10. AsksForDrawn'
  BY <1>5 DEF LibraryInv, AsksForDrawn
<1>11. LibraryShowsSaved'
  <2> SUFFICES ASSUME NEW s \in Tabs, open'[s] = "library", tab'[s] = "saved"
               PROVE  items'[s] = lists'[s].saved
    BY DEF LibraryShowsSaved
  <2>1. CASE s = t
    BY <1>2, <1>5, <2>1
  <2>2. CASE s # t
    BY <1>4, <1>5, <2>2 DEF LibraryInv, LibraryShowsSaved
  <2> QED BY <2>1, <2>2
<1>12. SavedIsStored'
  BY <1>3, <1>4 DEF LibraryInv, SavedIsStored
<1>13. KeepsSaved
  BY <1>3 DEF KeepsSaved, Leaves
<1> QED BY <1>6, <1>7, <1>8, <1>9, <1>10, <1>11, <1>12, <1>13 DEF LibraryInv

LEMMA LibraryNextKeeps == LibraryInv /\ [LibraryNext]_libraryVars => LibraryInv' /\ KeepsSaved
<1> SUFFICES ASSUME LibraryInv, [LibraryNext]_libraryVars PROVE LibraryInv' /\ KeepsSaved
  OBVIOUS
<1>1. CASE UNCHANGED libraryVars
  <2>1. LibraryInv'
    BY <1>1 DEF libraryVars, LibraryInv, Shapes, StoreSound, CopiesSound, DrawingsSound,
                AsksForDrawn, SavedIsStored, LibraryShowsSaved
  <2> QED BY <1>1, <2>1 DEF libraryVars, KeepsSaved, Leaves
<1>2. ASSUME NEW t \in Tabs, TabNext(t) PROVE LibraryInv' /\ KeepsSaved
  BY <1>2, QuietStepsKeep, ShowKeeps, RecordKeeps, ConfirmKeeps, SaveKeeps, ReadBackKeeps DEF TabNext
<1> QED BY <1>1, <1>2 DEF LibraryNext

LEMMA LibraryInvIs == LibraryInv => LibraryTypeOK /\ SavedIsStored /\ LibraryShowsSaved /\ RecentOnce
<1> SUFFICES ASSUME LibraryInv
             PROVE  LibraryTypeOK /\ SavedIsStored /\ LibraryShowsSaved /\ RecentOnce
  OBVIOUS
<1>1. /\ \A kind \in Kinds : store[kind] \in List(kind)
      /\ \A kind \in Kinds : \A t \in Tabs : lists[t][kind] \in List(kind)
  BY DEF LibraryInv, StoreSound, CopiesSound, Sound
<1>2. LibraryTypeOK
  BY <1>1 DEF LibraryInv, Shapes, LibraryTypeOK
<1>3. RecentOnce
  <2>1. "recent" \in Kinds
    BY DEF Kinds
  <2>2. \A t \in Tabs : Once(lists[t].recent)
    BY <2>1 DEF LibraryInv, CopiesSound, Sound
  <2> QED BY <2>2 DEF RecentOnce, Once
<1> QED BY <1>2, <1>3 DEF LibraryInv

\* Tabs and open libraries agree with the storage about what is saved, up to the
\* events that are due, and no query is in the history twice.
THEOREM LibraryHolds ==
  LibrarySpec => [](LibraryTypeOK /\ SavedIsStored /\ LibraryShowsSaved /\ RecentOnce)
<1>1. LibraryInit => LibraryInv
  BY LibraryInitInv
<1>2. LibraryInv /\ [LibraryNext]_libraryVars => LibraryInv'
  BY LibraryNextKeeps
<1>3. LibrarySpec => []LibraryInv
  BY <1>1, <1>2, PTL DEF LibrarySpec
<1> QED BY <1>3, LibraryInvIs, PTL

\* A saved query is lost only by its deletion, or at the end of a full list.
THEOREM SavedHolds == LibrarySpec => SavedUntilDeleted
<1>1. LibraryInit => LibraryInv
  BY LibraryInitInv
<1>2. LibraryInv /\ [LibraryNext]_libraryVars => LibraryInv' /\ [KeepsSaved]_libraryVars
  BY LibraryNextKeeps
<1> QED BY <1>1, <1>2, PTL DEF LibrarySpec, SavedUntilDeleted
=============================================================================
