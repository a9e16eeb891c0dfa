---------------------------- MODULE AlertEngine ----------------------------
(***************************************************************************)
(* The Hub's alert engine (src/internal/alert/engine.go, rule.go).         *)
(*                                                                         *)
(* One goroutine counts entries, resolves every second and sends what it   *)
(* decided after it has let the lock go; the API's handlers write rules    *)
(* under the same lock; every change is saved to one file, which is all    *)
(* that a Hub that dies leaves behind.  A time is kept as its age, which   *)
(* stops growing when no window and no cooldown can tell it from "never".  *)
(***************************************************************************)
EXTENDS Integers, Sequences, FiniteSets

CONSTANTS
  Rules,   \* rule ids
  Specs,   \* what a rule can ask for
  NoRule,  \* the entry of an id no rule has
  MaxAge,  \* an age beyond every window and cooldown
  Bounds   \* bound: how many entries, creates, changes, failures and crashes

SpecShape ==
  [threshold : Nat \ {0}, window : Nat \ {0}, cooldown : Nat, enabled : BOOLEAN]

Kinds == {"entries", "creates", "changes", "failures", "crashes"}

ASSUME AlertEngineAssumption ==
  /\ Specs \subseteq SpecShape /\ NoRule \notin SpecShape
  /\ MaxAge \in Nat
  /\ \A spec \in Specs : spec.window < MaxAge /\ spec.cooldown <= MaxAge
  /\ Bounds \in [Kinds -> Nat]

VARIABLES
  rules,   \* e.rules
  states,  \* e.states
  file,    \* the alert store
  phase,   \* Run: "down", "waiting" for its subscription or "consuming"
  outbox,  \* the notifications decided on and not sent yet
  left,    \* what is left of the bounds
  since,   \* the age of a rule's last firing notification since it was written
  owed,    \* was a firing notification decided on, and none of its end?
  stale,   \* has the file missed a change the engine made?
  lost     \* has the engine been loaded from a file that had?

engine == <<rules, states, file, phase, outbox>>
vars == <<engine, left, since, owed, stale, lost>>

Older(age) == IF age < MaxAge THEN age + 1 ELSE age

\* RuleState, as Create makes it.  A LastFiredAt that is nil is one of MaxAge.
Fresh == [status |-> "OK", matches |-> <<>>, lastFired |-> MaxAge, peak |-> 0, sent |-> FALSE]

\* Slip: the matches that left the window still count.
RecentAll(matches, window) == matches

\* trimMatches.  The oldest are the first.
Recent(matches, window) ==
  SubSeq(matches, 1 + Cardinality({k \in DOMAIN matches : matches[k] > window}), Len(matches))

Init ==
  /\ rules = [i \in Rules |-> NoRule] /\ states = [i \in Rules |-> Fresh]
  /\ file = [rules |-> rules, states |-> states]
  /\ phase = "waiting" /\ outbox = {}
  /\ left = Bounds
  /\ since = [i \in Rules |-> MaxAge] /\ owed = [i \in Rules |-> FALSE]
  /\ stale = FALSE /\ lost = FALSE
-----------------------------------------------------------------------------
Pay(kind, ok) ==
  /\ left[kind] > 0 /\ (ok \/ left.failures > 0)
  /\ left' = [left EXCEPT ![kind] = @ - 1,
                          !.failures = IF ok THEN left.failures ELSE left.failures - 1]

\* Slip: the engine keeps a rule whose save failed.
WriteWithoutRollback(i, spec, ok) ==
  /\ rules' = [rules EXCEPT ![i] = spec]
  /\ states' = [states EXCEPT ![i] = Fresh]
  /\ file' = IF ok THEN [rules |-> rules', states |-> states'] ELSE file
  /\ since' = [since EXCEPT ![i] = MaxAge] /\ stale' = (stale /\ ~ok)
  /\ UNCHANGED <<phase, outbox, owed, lost>>

\* A change of a rule is saved with it or taken back.
Write(i, spec, ok) ==
  /\ IF ok
     THEN /\ rules' = [rules EXCEPT ![i] = spec]
          /\ states' = [states EXCEPT ![i] = Fresh]
          /\ file' = [rules |-> rules', states |-> states']
          /\ since' = [since EXCEPT ![i] = MaxAge] /\ stale' = FALSE
     ELSE UNCHANGED <<rules, states, file, since, stale>>
  /\ UNCHANGED <<phase, outbox, owed, lost>>

Create(i, spec, ok) ==
  /\ phase # "down" /\ rules[i] = NoRule
  /\ Pay("creates", ok) /\ Write(i, spec, ok)

\* Update, and Patch, whose new rule keeps some of the old one's fields.
Update(i, spec, ok) ==
  /\ phase # "down" /\ rules[i] # NoRule
  /\ Pay("changes", ok) /\ Write(i, spec, ok)

Delete(i, ok) ==
  /\ phase # "down" /\ rules[i] # NoRule
  /\ Pay("changes", ok) /\ Write(i, NoRule, ok)

\* List drops old matches as it goes, and saves nothing.
List ==
  /\ phase # "down"
  /\ states' = [i \in Rules |->
       IF rules[i] = NoRule THEN states[i]
       ELSE [states[i] EXCEPT !.matches = Recent(@, rules[i].window)]]
  /\ UNCHANGED <<rules, file, phase, outbox, left, since, owed, stale, lost>>
-----------------------------------------------------------------------------
\* The goroutine is at its select: what it last decided on has been sent.
Idle == phase = "consuming" /\ outbox = {}

\* saveLocked after a step of the goroutine, which keeps its change anyway.
Save(ok) ==
  /\ file' = IF ok THEN [rules |-> rules, states |-> states'] ELSE file
  /\ stale' = ~ok

\* Slip: the rule fires anew with every match.
StartsAlways(rule, state, matches) == Len(matches) >= rule.threshold

Starts(rule, state, matches) == state.status # "FIRING" /\ Len(matches) >= rule.threshold

Announces(rule, state, matches) ==
  Starts(rule, state, matches) /\ state.lastFired >= rule.cooldown

\* Slip: the peak is taken when the rule starts to fire, and kept.
CountedWithoutPeak(rule, state) ==
  LET matches == Append(Recent(state.matches, rule.window), 0)
      told    == Announces(rule, state, matches)
  IN IF Starts(rule, state, matches)
     THEN [status |-> "FIRING", matches |-> matches, peak |-> Len(matches), sent |-> told,
           lastFired |-> IF told THEN 0 ELSE state.lastFired]
     ELSE [state EXCEPT !.matches = matches]

\* The state of a rule after one more match.
Counted(rule, state) ==
  LET matches == Append(Recent(state.matches, rule.window), 0)
      told    == Announces(rule, state, matches)
  IN IF Starts(rule, state, matches)
     THEN [status |-> "FIRING", matches |-> matches, peak |-> Len(matches), sent |-> told,
           lastFired |-> IF told THEN 0 ELSE state.lastFired]
     ELSE [state EXCEPT !.matches = matches,
             !.peak = IF state.status = "FIRING" /\ Len(matches) > @ THEN Len(matches) ELSE @]

\* Slip: a paused rule counts as well.
HitPaused(matching) == {i \in matching : rules[i] # NoRule}

\* The rules that count an entry which matches these queries.
Hit(matching) == {i \in matching : rules[i] # NoRule /\ rules[i].enabled}

Told(matching) ==
  {i \in Hit(matching) :
     Announces(rules[i], states[i], Append(Recent(states[i].matches, rules[i].window), 0))}

ProcessEntry(matching, ok) ==
  /\ Idle /\ Hit(matching) # {}
  /\ Pay("entries", ok)
  /\ states' = [i \in Rules |->
       IF i \in Hit(matching) THEN Counted(rules[i], states[i]) ELSE states[i]]
  /\ Save(ok)
  /\ outbox' = {[rule |-> i, event |-> "firing"] : i \in Told(matching)}
  /\ since' = [i \in Rules |-> IF i \in Told(matching) THEN 0 ELSE since[i]]
  /\ owed' = [i \in Rules |-> owed[i] \/ i \in Told(matching)]
  /\ UNCHANGED <<rules, phase, lost>>

\* Slip: the status of an incident that is over is left blank.
SettledBlank(rule, state) ==
  LET matches == Recent(state.matches, rule.window)
  IN IF state.status = "FIRING" /\ Len(matches) < rule.threshold
     THEN [Fresh EXCEPT !.status = "", !.matches = matches, !.lastFired = state.lastFired]
     ELSE [state EXCEPT !.matches = matches]

\* Slip: the cooldown ends with the incident.
SettledCold(rule, state) ==
  LET matches == Recent(state.matches, rule.window)
  IN IF state.status = "FIRING" /\ Len(matches) < rule.threshold
     THEN [Fresh EXCEPT !.matches = matches]
     ELSE [state EXCEPT !.matches = matches]

\* The state of a rule once its window has moved on.
Settled(rule, state) ==
  LET matches == Recent(state.matches, rule.window)
  IN IF state.status = "FIRING" /\ Len(matches) < rule.threshold
     THEN [Fresh EXCEPT !.matches = matches, !.lastFired = state.lastFired]
     ELSE [state EXCEPT !.matches = matches]

AllSettled(all, of) ==
  [i \in Rules |-> IF all[i] = NoRule THEN of[i] ELSE Settled(all[i], of[i])]

\* Slip: the end of a suppressed incident is told as well.
EndedUnheard ==
  {i \in Rules : rules[i] # NoRule /\ states[i].status = "FIRING"
                 /\ Settled(rules[i], states[i]).status = "OK"}

\* The rules whose incident is over and was announced.
Ended ==
  {i \in Rules : rules[i] # NoRule /\ states[i].status = "FIRING" /\ states[i].sent
                 /\ Settled(rules[i], states[i]).status = "OK"}

Resolve(ok) ==
  /\ Idle
  /\ states' = AllSettled(rules, states)
  /\ IF states' = states
     THEN ok /\ UNCHANGED <<file, stale, left>>
     ELSE /\ Save(ok)
          /\ ok \/ left.failures > 0
          /\ left' = [left EXCEPT !.failures = IF ok THEN @ ELSE @ - 1]
  /\ outbox' = {[rule |-> i, event |-> "resolved"] : i \in Ended}
  /\ owed' = [i \in Rules |-> owed[i] /\ i \notin Ended]
  /\ UNCHANGED <<rules, phase, since, lost>>

\* Notify: a delivery that fails is logged, and not tried again.
Send(notification) ==
  /\ notification \in outbox
  /\ outbox' = outbox \ {notification}
  /\ UNCHANGED <<rules, states, file, phase, left, since, owed, stale, lost>>

\* The log subscription comes and goes; there is no resolve in between.
Subscribe ==
  /\ phase = "waiting" /\ phase' = "consuming"
  /\ UNCHANGED <<rules, states, file, outbox, left, since, owed, stale, lost>>

SubscriptionClosed ==
  /\ Idle /\ left.crashes > 0 /\ left' = [left EXCEPT !.crashes = @ - 1]
  /\ phase' = "waiting"
  /\ UNCHANGED <<rules, states, file, outbox, since, owed, stale, lost>>
-----------------------------------------------------------------------------
Aged(all) ==
  [i \in Rules |-> [all[i] EXCEPT !.matches = [k \in DOMAIN @ |-> Older(@[k])],
                                  !.lastFired = Older(@)]]

Tick ==
  /\ states' = Aged(states) /\ file' = [file EXCEPT !.states = Aged(@)]
  /\ since' = [i \in Rules |-> Older(since[i])]
  /\ UNCHANGED <<rules, phase, outbox, left, owed, stale, lost>>

Crash ==
  /\ phase # "down" /\ left.crashes > 0 /\ left' = [left EXCEPT !.crashes = @ - 1]
  /\ phase' = "down" /\ outbox' = {}
  /\ rules' = [i \in Rules |-> NoRule] /\ states' = [i \in Rules |-> Fresh]
  /\ UNCHANGED <<file, since, owed, stale, lost>>

\* load ends the incidents whose window has passed, and tells nobody.
Load ==
  /\ phase = "down" /\ phase' = "waiting"
  /\ rules' = file.rules /\ states' = AllSettled(file.rules, file.states)
  /\ lost' = (lost \/ stale)
  /\ UNCHANGED <<file, outbox, left, since, owed, stale>>

Next ==
  \/ \E i \in Rules, spec \in Specs, ok \in BOOLEAN : Create(i, spec, ok) \/ Update(i, spec, ok)
  \/ \E i \in Rules, ok \in BOOLEAN : Delete(i, ok)
  \/ List
  \/ \E matching \in SUBSET Rules, ok \in BOOLEAN : ProcessEntry(matching, ok)
  \/ \E ok \in BOOLEAN : Resolve(ok)
  \/ \E notification \in outbox : Send(notification)
  \/ Subscribe \/ SubscriptionClosed \/ Tick \/ Crash \/ Load

Spec == Init /\ [][Next]_vars

\* The ticker, the goroutine and the clock go on; a webhook has ten seconds;
\* a Hub that died is started again.
Fairness ==
  /\ WF_vars(\E ok \in BOOLEAN : Resolve(ok)) /\ WF_vars(\E n \in outbox : Send(n))
  /\ WF_vars(Subscribe) /\ WF_vars(Load) /\ WF_vars(Tick)

FairSpec == Spec /\ Fairness
-----------------------------------------------------------------------------
StateShape ==
  [status : {"OK", "FIRING"}, matches : Seq(0..MaxAge), lastFired : 0..MaxAge,
   peak : Nat, sent : BOOLEAN]

\* The variables have their types.
TypeOK ==
  /\ rules \in [Rules -> Specs \cup {NoRule}] /\ states \in [Rules -> StateShape]
  /\ file \in [rules : [Rules -> Specs \cup {NoRule}], states : [Rules -> StateShape]]
  /\ phase \in {"down", "waiting", "consuming"}
  /\ outbox \subseteq [rule : Rules, event : {"firing", "resolved"}]
  /\ left \in [Kinds -> Nat]
  /\ since \in [Rules -> 0..MaxAge] /\ owed \in [Rules -> BOOLEAN]
  /\ stale \in BOOLEAN /\ lost \in BOOLEAN

\* The rules an engine works with are the ones it would be started again with,
\* whatever saves failed: what the API refused is gone, what it took stays
\* (Create, Update, Patch and Delete take back what they could not save).
RulesAreStored == phase # "down" => rules = file.rules

\* While a rule fires, its peak is at least its threshold and the matches it
\* counts, through trimming, failed saves and restarts (processEntry, load).
PeakCoversMatches ==
  \A i \in Rules : rules[i] # NoRule /\ states[i].status = "FIRING" =>
    states[i].peak >= rules[i].threshold /\ states[i].peak >= Len(states[i].matches)

\* A rule that is paused is not firing and counts nothing, also after a
\* restart, whichever of the two is saved last (Patch, processEntry).
PausedIsQuiet ==
  \A i \in Rules : rules[i] # NoRule /\ ~rules[i].enabled =>
    states[i].status = "OK" /\ states[i].matches = <<>>

\* What the engine keeps of its rules fits together, in memory and over
\* restarts: rules and file, peaks and matches, pauses and states.
RulesSound == TypeOK /\ RulesAreStored /\ PeakCoversMatches /\ PausedIsQuiet

Decided(event) == {i \in Rules : [rule |-> i, event |-> event] \in outbox' \ outbox}

\* Between two firing notifications of a rule its cooldown passes, over
\* restarts too, unless the rule was written anew, or a save had failed before
\* the Hub died (processEntry, load).
CooldownKept ==
  [][~lost => \A i \in Decided("firing") : since[i] >= rules[i].cooldown]_vars

\* The end of an incident is told when its start was, and once: not for an
\* incident the cooldown suppressed, and not again after a restart, unless a
\* save had failed before the Hub died (resolve, load).
ResolvedAnswersFiring ==
  [][~lost => \A i \in Decided("resolved") : owed[i]]_vars

\* Firing and resolved notifications match each other and the cooldowns.
NotificationsMatch == CooldownKept /\ ResolvedAnswersFiring

\* A firing rule is OK again, or gone, when entries stop to match (resolve,
\* load), though saves fail, webhooks are slow and the Hub restarts.
FiringClears ==
  \A i \in Rules : states[i].status = "FIRING" ~> states[i].status = "OK"

\* Who was told that a rule fires is told of its end.
AnnouncedIsResolved == \A i \in Rules : owed[i] ~> ~owed[i]
=============================================================================
