----------------------------- MODULE AlertsPage -----------------------------
(***************************************************************************)
(* The alert policies page and dialog of the web application               *)
(* (src/web/src/app/bootstrap.ts, features/alerts).                        *)
(*                                                                         *)
(* Every button sends a request and goes on: the user may close the        *)
(* dialog, refresh or click elsewhere, and the answers arrive in any       *)
(* order.  A rule is its name, whether it is enabled and whether it has a  *)
(* webhook; the Hub never returns the webhook itself.                      *)
(***************************************************************************)
EXTENDS Places, Sequences, SequencesExt

CONSTANTS
  Ids,       \* ids the Hub may give to rules
  Names,     \* what the user types
  MaxCalls,  \* bound: requests made
  None

Rule == [name : Names, enabled : BOOLEAN, hook : BOOLEAN]

ASSUME AlertsAssumption ==
  MaxCalls \in Nat \ {0} /\ None \notin Ids \cup Rule /\ Names # {} /\ IsFiniteSet(Ids)

VARIABLES
  hub,       \* external: the rules by id, None where there is none
  used,      \* external: ids given so far
  rules,     \* state.alerts.rules
  list,      \* what the list element shows
  busy,      \* calls whose button, in the present rendering, is disabled
  dialog,
  saving,    \* is the save button disabled?
  calls,     \* requests on their way, there or back
  made,      \* how many were made
  astray     \* history: calls overlapped or failed since the last clean load

alertsPage == <<rules, list, busy>>
vars == <<hub, used, alertsPage, dialog, saving, calls, made, astray>>

Shown(id, rule) == [id |-> id, rule |-> rule]

ShownRules == [id : Ids, rule : Rule]

ClosedDialog == [open |-> FALSE, editing |-> None, name |-> CHOOSE n \in Names : TRUE,
                 hook |-> FALSE, remove |-> FALSE]

Form == [open : BOOLEAN, editing : Ids \cup {None}, name : Names, hook : BOOLEAN,
         remove : BOOLEAN]

Call == [n : 1 .. MaxCalls, kind : {"list", "create", "save", "toggle", "delete"},
         id : Ids \cup {None}, form : Form, enabled : BOOLEAN,
         state : {"sent", "ok", "failed"}, answer : Seq(ShownRules)]

Hubs == [Ids -> Rule \cup {None}]

Listed(h) == SetToSeq({Shown(id, h[id]) : id \in {i \in Ids : h[i] # None}})

Init ==
  /\ hub \in Hubs /\ used = {i \in Ids : hub[i] # None}
  /\ rules = <<>> /\ list = "loading" /\ busy = {}
  /\ dialog = ClosedDialog /\ saving = FALSE
  /\ calls = {[n |-> 1, kind |-> "list", id |-> None, form |-> ClosedDialog, enabled |-> TRUE,
               state |-> "sent", answer |-> <<>>]}
  /\ made = 1 /\ astray = FALSE

\* A request is sent.  (What else is under way is history: an answer may then
\* overtake another.)
Sends(kind, id, enabled) ==
  /\ made < MaxCalls /\ made' = made + 1
  /\ calls' = calls \cup {[n |-> made + 1, kind |-> kind, id |-> id, form |-> dialog,
                           enabled |-> enabled, state |-> "sent", answer |-> <<>>]}
  /\ astray' = IF calls # {} THEN TRUE ELSE IF kind = "list" THEN FALSE ELSE astray

\* renderAlerts: new cards with enabled buttons.
Render(newRules) == rules' = newRules /\ list' = "rules" /\ busy' = {}

\* The dialog is modal: while it is open the page cannot be clicked.
OnPage == ~dialog.open

CanClick(kind, id) ==
  OnPage /\ list = "rules" /\ ~ \E c \in busy : c.kind = kind /\ c.id = id
-----------------------------------------------------------------------------
(* The user. *)

LoadAlerts ==
  /\ OnPage
  /\ Sends("list", None, TRUE)
  /\ list' = "loading" /\ busy' = {}
  /\ UNCHANGED <<hub, used, rules, dialog, saving>>

\* Typing into the search field or choosing a status renders again.
FilterAlerts ==
  /\ OnPage
  /\ Render(rules)
  /\ UNCHANGED <<hub, used, dialog, saving, calls, made, astray>>

OpenCreate ==
  /\ OnPage
  /\ dialog' = [ClosedDialog EXCEPT !.open = TRUE]
  /\ UNCHANGED <<hub, used, alertsPage, saving, calls, made, astray>>

\* The dialog is filled from the rule in the list; the webhook stays blank.
OpenEdit(item) ==
  /\ CanClick("edit", item.id)
  /\ dialog' = [ClosedDialog EXCEPT !.open = TRUE, !.editing = item.id, !.name = item.rule.name]
  /\ UNCHANGED <<hub, used, alertsPage, saving, calls, made, astray>>

\* The removal checkbox is shown for an existing rule only.
FillIn(name, hook, remove) ==
  /\ dialog.open /\ (remove => dialog.editing # None)
  /\ dialog' = [dialog EXCEPT !.name = name, !.hook = hook, !.remove = remove]
  /\ UNCHANGED <<hub, used, alertsPage, saving, calls, made, astray>>

CloseDialog ==
  /\ dialog.open
  /\ dialog' = ClosedDialog
  /\ UNCHANGED <<hub, used, alertsPage, saving, calls, made, astray>>

SubmitAlert ==
  /\ dialog.open /\ ~saving
  /\ saving' = TRUE
  /\ Sends(IF dialog.editing = None THEN "create" ELSE "save", dialog.editing, TRUE)
  /\ UNCHANGED <<hub, used, alertsPage, dialog>>

\* A card's button is disabled until its request ends or the list is rendered.
Click(kind, item, enabled) ==
  /\ CanClick(kind, item.id)
  /\ Sends(kind, item.id, enabled)
  /\ busy' = busy \cup (calls' \ calls)
  /\ UNCHANGED <<hub, used, rules, list, dialog, saving>>

Toggle(item) == Click("toggle", item, ~item.rule.enabled)

Delete(item) == Click("delete", item, TRUE)
-----------------------------------------------------------------------------
(* External: the Hub's /api/alerts. *)

\* Slip: a blank webhook field is sent and taken for a removal.
PatchedBlank(rule, form) ==
  [rule EXCEPT !.name = form.name, !.hook = form.hook]

\* The patch of submitAlert: a blank field keeps the webhook, the checkbox
\* removes it; `enabled' is not sent.
Patched(rule, form) ==
  [rule EXCEPT !.name = form.name, !.hook = ~form.remove /\ (form.hook \/ rule.hook)]

\* What the call does to the rules.
Effect(c) ==
  CASE c.kind = "list" -> hub
    [] c.kind = "create" ->
         [hub EXCEPT ![CHOOSE i \in Ids \ used : TRUE] =
            [name |-> c.form.name, enabled |-> TRUE, hook |-> c.form.hook]]
    [] c.kind = "save" -> [hub EXCEPT ![c.id] = Patched(hub[c.id], c.form)]
    [] c.kind = "toggle" -> [hub EXCEPT ![c.id].enabled = c.enabled]
    [] c.kind = "delete" -> [hub EXCEPT ![c.id] = None]

Possible(c) ==
  CASE c.kind = "list" -> TRUE
    [] c.kind = "create" -> Ids \ used # {}
    [] OTHER -> hub[c.id] # None

\* What the Hub answers: the list, or the rule that changed.
AnswerOf(c) ==
  IF c.kind = "list" THEN Listed(hub)
  ELSE SetToSeq({Shown(i, hub'[i]) :
                   i \in {j \in Ids : hub'[j] # None /\ (j = c.id \/ j \notin used)}})

\* The Hub serves the call; the answer may still get lost.
HubServes(c) ==
  /\ c \in calls /\ c.state = "sent" /\ Possible(c)
  /\ hub' = Effect(c)
  /\ used' = used \cup {i \in Ids : hub'[i] # None}
  /\ \E ok \in BOOLEAN :
       calls' = (calls \ {c}) \cup {[c EXCEPT !.state = IF ok THEN "ok" ELSE "failed",
                                              !.answer = IF ok THEN AnswerOf(c) ELSE <<>>]}
  /\ busy' = {IF b.n = c.n THEN CHOOSE d \in calls' : d.n = c.n ELSE b : b \in busy}
  /\ UNCHANGED <<rules, list, dialog, saving, made, astray>>

\* The request does not reach the Hub, or the Hub refuses it.
HubRefuses(c) ==
  /\ c \in calls /\ c.state = "sent"
  /\ calls' = (calls \ {c}) \cup {[c EXCEPT !.state = "failed"]}
  /\ busy' = {IF b.n = c.n THEN [c EXCEPT !.state = "failed"] ELSE b : b \in busy}
  /\ UNCHANGED <<hub, used, rules, list, dialog, saving, made, astray>>
-----------------------------------------------------------------------------
(* The answers, in any order. *)

Arrives(c, state) == c \in calls /\ c.state = state /\ calls' = calls \ {c}

\* Slip: the rule is replaced everywhere but where it is.
ReplacedOthers(answer) ==
  [i \in DOMAIN rules |-> IF rules[i].id = answer[1].id THEN rules[i] ELSE answer[1]]

\* state.alerts.rules with the changed rule in place.
Replaced(answer) ==
  [i \in DOMAIN rules |-> IF rules[i].id = answer[1].id THEN answer[1] ELSE rules[i]]

ListArrives(c) ==
  /\ c.kind = "list" /\ Arrives(c, "ok")
  /\ Render(c.answer)
  /\ UNCHANGED <<hub, used, dialog, saving, made, astray>>

\* The rule takes its place in the list, and the dialog, whichever it is by
\* now, is closed.
SaveArrives(c) ==
  /\ c.kind \in {"create", "save"} /\ Arrives(c, "ok")
  /\ Render(IF c.kind = "create" THEN c.answer \o rules ELSE Replaced(c.answer))
  /\ dialog' = ClosedDialog /\ saving' = FALSE
  /\ UNCHANGED <<hub, used, made, astray>>

ToggleArrives(c) ==
  /\ c.kind = "toggle" /\ Arrives(c, "ok")
  /\ Render(Replaced(c.answer))
  /\ UNCHANGED <<hub, used, dialog, saving, made, astray>>

DeleteArrives(c) ==
  /\ c.kind = "delete" /\ Arrives(c, "ok")
  /\ Render(Kept(rules, {i \in DOMAIN rules : rules[i].id # c.id}))
  /\ UNCHANGED <<hub, used, dialog, saving, made, astray>>

\* Slip: a failed save leaves its button disabled.
FailureArrivesWithoutFinally(c) ==
  /\ Arrives(c, "failed") /\ astray' = TRUE
  /\ busy' = IF c.kind = "list" THEN {} ELSE busy \ {c}
  /\ list' = IF c.kind = "list" THEN "error" ELSE list
  /\ UNCHANGED <<hub, used, rules, dialog, saving, made>>

\* A failure enables the button again; the list's shows the error instead of
\* the rules.
FailureArrives(c) ==
  /\ Arrives(c, "failed") /\ astray' = TRUE
  /\ busy' = IF c.kind = "list" THEN {} ELSE busy \ {c}
  /\ list' = IF c.kind = "list" THEN "error" ELSE list
  /\ saving' = IF c.kind \in {"create", "save"} THEN FALSE ELSE saving
  /\ UNCHANGED <<hub, used, rules, dialog, made>>

User ==
  \/ LoadAlerts
  \/ FilterAlerts
  \/ OpenCreate
  \/ CloseDialog
  \/ SubmitAlert
  \/ \E name \in Names, hook, remove \in BOOLEAN : FillIn(name, hook, remove)
  \/ \E i \in DOMAIN rules : OpenEdit(rules[i]) \/ Toggle(rules[i]) \/ Delete(rules[i])

Serve(c) == HubServes(c) \/ HubRefuses(c)

Arrival(c) ==
  \/ ListArrives(c)
  \/ SaveArrives(c)
  \/ ToggleArrives(c)
  \/ DeleteArrives(c)
  \/ FailureArrives(c)

Next == User \/ \E c \in calls : Serve(c) \/ Arrival(c)

Spec == Init /\ [][Next]_vars

\* Requests end, with an answer or a failure.
FairSpec ==
  Spec /\ WF_vars(\E c \in calls : Serve(c)) /\ WF_vars(\E c \in calls : Arrival(c))
-----------------------------------------------------------------------------
(* Type invariant; rules on the page are rules the Hub has had. *)
TypeOK ==
  /\ hub \in Hubs /\ used \subseteq Ids
  /\ rules \in Seq(ShownRules) /\ list \in {"loading", "error", "rules"}
  /\ calls \subseteq Call /\ busy \subseteq calls
  /\ dialog \in Form /\ saving \in BOOLEAN /\ made \in 0 .. MaxCalls /\ astray \in BOOLEAN

\* Used one request at a time, however many, the page stays in step with the
\* Hub: each handler puts its answer where a full load would.
InStep ==
  calls = {} /\ ~astray => /\ Range(rules) = Range(Listed(hub))
                           /\ Len(rules) = Cardinality(Range(rules))

\* README: "partial edits retain an existing webhook unless it is explicitly
\* removed" - whatever dialogs were opened, filled in and closed meanwhile.
KeepsWebhook ==
  \A id \in Ids :
    hub[id] # None /\ hub'[id] # None /\ hub[id].hook /\ ~hub'[id].hook =>
      \E c \in calls : c.form.editing = id /\ c.form.remove
WebhookKept == [][KeepsWebhook]_vars

\* README: the view "provides policy, firing, enabled, and notification
\* summaries": it counts every rule once.
CountedOnce == list = "rules" => \A i, j \in DOMAIN rules : rules[i].id = rules[j].id => i = j

\* The save button and the list come back, whatever becomes of the requests.
ControlsComeBack == (saving ~> ~saving) /\ (list = "loading" ~> list # "loading")
=============================================================================
