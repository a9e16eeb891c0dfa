----------------------------- MODULE HubProofs -----------------------------
(***************************************************************************)
(* Theorems about the parts of the Hub that keep their state in memory or  *)
(* answer the pages from it, each for every value of its constants: the    *)
(* engine of the alerts (AlertEngine), the live tail (LiveTail) and the    *)
(* pages of a search (Pagination).  The parts share nothing.               *)
(***************************************************************************)
EXTENDS AlertEngine, LiveTail, Pagination, FiniteSetTheorems, SequenceTheorems, TLAPS
-----------------------------------------------------------------------------
(***************************************************************************)
(* The safety properties of the alert engine, for every set of rules, any  *)
(* thresholds, windows and cooldowns, and any number of entries, failed    *)
(* saves and restarts.                                                     *)
(*                                                                         *)
(* What holds of the memory has to hold of the file, which becomes the     *)
(* memory when the Hub is started again: GoodAll is said of both.          *)
(***************************************************************************)

Entry == Specs \cup {NoRule}

\* What holds of a rule and its state, in memory and in the file.
Good(rule, state) ==
  /\ state \in StateShape
  /\ rule # NoRule /\ state.status = "FIRING" =>
       state.peak >= rule.threshold /\ state.peak >= Len(state.matches)
  /\ rule # NoRule /\ ~rule.enabled => state.status = "OK" /\ state.matches = <<>>

GoodAll(all, of) ==
  all \in [Rules -> Entry] /\ of \in [Rules -> StateShape] /\ \A i \in Rules : Good(all[i], of[i])

\* The states remember what was told since the rules were written.
Remembers(of) ==
  \A i \in Rules : of[i].lastFired = since[i] /\ (of[i].sent => owed[i])

MemoryGood == GoodAll(rules, states)

FileGood ==
  /\ file = [rules |-> file.rules, states |-> file.states]
  /\ GoodAll(file.rules, file.states)

OthersTyped ==
  /\ phase \in {"down", "waiting", "consuming"}
  /\ outbox \subseteq [rule : Rules, event : {"firing", "resolved"}]
  /\ left \in [Kinds -> Nat]
  /\ since \in [Rules -> 0..MaxAge] /\ owed \in [Rules -> BOOLEAN]
  /\ stale \in BOOLEAN /\ lost \in BOOLEAN

Heard ==
  ~lost => (phase # "down" => Remembers(states)) /\ (~stale => Remembers(file.states))

\* The inductive invariant.
Inv == MemoryGood /\ FileGood /\ OthersTyped /\ RulesAreStored /\ Heard

-----------------------------------------------------------------------------
LEMMA MatchAge ==
  ASSUME NEW matches \in Seq(0..MaxAge) PROVE \A k \in 1..Len(matches) : matches[k] \in 0..MaxAge
BY ElementOfSeq

\* Trimming keeps the type and never adds a match (trimMatches).
LEMMA RecentType ==
  ASSUME NEW matches \in Seq(0..MaxAge), NEW window \in Nat
  PROVE  Recent(matches, window) \in Seq(0..MaxAge) /\ Len(Recent(matches, window)) <= Len(matches)
<1> DEFINE old == {k \in DOMAIN matches : matches[k] > window}
<1>1. IsFiniteSet(1..Len(matches)) /\ DOMAIN matches = 1..Len(matches) /\ Len(matches) \in Nat
  BY FS_Interval
<1>2. IsFiniteSet(old)
  BY <1>1, FS_Subset
<1>3. Cardinality(old) \in Nat
  BY <1>2, FS_CardinalityType
<1>4. SubSeq(matches, 1 + Cardinality(old), Len(matches)) \in Seq(0..MaxAge)
  <2> HIDE DEF old
  <2>1. \A k \in (1 + Cardinality(old))..Len(matches) : matches[k] \in 0..MaxAge
    <3> SUFFICES ASSUME NEW k \in (1 + Cardinality(old))..Len(matches)
                 PROVE  matches[k] \in 0..MaxAge
      OBVIOUS
    <3>1. k \in 1..Len(matches)
      BY <1>1, <1>3
    <3>2. QED
      BY <3>1, MatchAge
  <2>2. 1 + Cardinality(old) \in Int /\ Len(matches) \in Int
    BY <1>1, <1>3
  <2>3. QED
    BY <2>1, <2>2, SubSeqProperties
<1>5. Len(SubSeq(matches, 1 + Cardinality(old), Len(matches))) <= Len(matches)
  <2> HIDE DEF old
  <2>1. CASE 1 + Cardinality(old) <= Len(matches)
    BY <1>1, <1>3, <2>1, SubSeqProperties
  <2>2. CASE ~(1 + Cardinality(old) <= Len(matches))
    BY <1>1, <1>3, <2>2, SubSeqProperties
  <2>3. QED
    BY <2>1, <2>2
<1>6. QED
  BY <1>4, <1>5 DEF Recent

LEMMA SpecFields ==
  ASSUME NEW rule \in Entry, rule # NoRule
  PROVE  /\ rule.threshold \in Nat \ {0} /\ rule.window \in Nat /\ rule.cooldown \in Nat
         /\ rule.enabled \in BOOLEAN
BY AlertEngineAssumption DEF Entry, SpecShape

LEMMA FreshGood == ASSUME NEW rule PROVE Good(rule, Fresh)
BY AlertEngineAssumption DEF Good, Fresh, StateShape

LEMMA TrimmedGood ==
  ASSUME NEW rule \in Entry, rule # NoRule, NEW state, Good(rule, state)
  PROVE  Good(rule, [state EXCEPT !.matches = Recent(@, rule.window)])
<1>1. state.matches \in Seq(0..MaxAge)
  BY DEF Good, StateShape
<1>2. Recent(state.matches, rule.window) \in Seq(0..MaxAge)
      /\ Len(Recent(state.matches, rule.window)) <= Len(state.matches)
  BY <1>1, SpecFields, RecentType
<1>3. Len(state.matches) \in Nat /\ Len(Recent(state.matches, rule.window)) \in Nat
  BY <1>1, <1>2
<1>4. ~rule.enabled => Recent(state.matches, rule.window) = <<>>
  BY <1>2, <1>3 DEF Good
<1>5. rule.threshold \in Nat /\ state.peak \in Nat
  BY SpecFields DEF Good, StateShape
<1>6. QED
  BY <1>2, <1>3, <1>4, <1>5 DEF Good, StateShape

LEMMA SettledGood ==
  ASSUME NEW rule \in Entry, rule # NoRule, NEW state, Good(rule, state)
  PROVE  /\ Good(rule, Settled(rule, state))
         /\ Settled(rule, state).lastFired = state.lastFired
         /\ Settled(rule, state).sent => state.sent
<1> DEFINE matches == Recent(state.matches, rule.window)
<1>1. state.matches \in Seq(0..MaxAge)
  BY DEF Good, StateShape
<1>2. matches \in Seq(0..MaxAge) /\ Len(matches) <= Len(state.matches)
  BY <1>1, SpecFields, RecentType
<1>3. CASE state.status = "FIRING" /\ Len(matches) < rule.threshold
  <2>1. rule.enabled
    BY <1>3, SpecFields DEF Good
  <2>2. QED
    BY <1>2, <1>3, <2>1 DEF Settled, Good, StateShape, Fresh
<1>4. CASE ~(state.status = "FIRING" /\ Len(matches) < rule.threshold)
  <2>1. Settled(rule, state) = [state EXCEPT !.matches = Recent(@, rule.window)]
    BY <1>4 DEF Settled
  <2>2. QED
    BY <2>1, TrimmedGood DEF Good, StateShape
<1>5. QED
  BY <1>3, <1>4

LEMMA CountedGood ==
  ASSUME NEW rule \in Entry, rule # NoRule, rule.enabled, NEW state, Good(rule, state)
  PROVE  Good(rule, Counted(rule, state))
<1> DEFINE matches == Append(Recent(state.matches, rule.window), 0)
           told == Announces(rule, state, matches)
<1>1. state.matches \in Seq(0..MaxAge) /\ state \in StateShape
  BY DEF Good, StateShape
<1>2. Recent(state.matches, rule.window) \in Seq(0..MaxAge)
      /\ Len(Recent(state.matches, rule.window)) <= Len(state.matches)
  BY <1>1, SpecFields, RecentType
<1>3. matches \in Seq(0..MaxAge) /\ Len(matches) \in Nat
  BY <1>2, AlertEngineAssumption
<1>4. rule.threshold \in Nat /\ told \in BOOLEAN /\ MaxAge \in Nat
  BY SpecFields, AlertEngineAssumption DEF Announces, Starts
<1> HIDE DEF matches, told
<1>5. CASE Starts(rule, state, matches)
  <2>1. Counted(rule, state) = [status |-> "FIRING", matches |-> matches, peak |-> Len(matches),
                                sent |-> told, lastFired |-> IF told THEN 0 ELSE state.lastFired]
    BY <1>5 DEF Counted, matches, told
  <2>2. Len(matches) >= rule.threshold
    BY <1>5 DEF Starts
  <2>3. QED
    BY <1>1, <1>3, <1>4, <2>1, <2>2 DEF Good, StateShape
<1>6. CASE ~Starts(rule, state, matches)
  <2>1. Counted(rule, state) =
          [state EXCEPT !.matches = matches,
             !.peak = IF state.status = "FIRING" /\ Len(matches) > @ THEN Len(matches) ELSE @]
    BY <1>6 DEF Counted, matches
  <2>2. CASE state.status = "FIRING"
    <3> DEFINE peak == IF Len(matches) > state.peak THEN Len(matches) ELSE state.peak
    <3>1. peak \in Nat /\ peak >= Len(matches) /\ peak >= state.peak /\ state.peak \in Nat
      BY <1>1, <1>3 DEF StateShape
    <3>2. state.peak >= rule.threshold
      BY <2>2 DEF Good
    <3>3. peak >= rule.threshold
      BY <1>4, <3>1, <3>2
    <3>4. Counted(rule, state) = [state EXCEPT !.matches = matches, !.peak = peak]
      BY <2>1, <2>2
    <3> HIDE DEF peak
    <3>5. QED
      BY <1>1, <1>3, <3>1, <3>3, <3>4 DEF Good, StateShape
  <2>3. CASE state.status # "FIRING"
    BY <1>1, <1>3, <2>1, <2>3 DEF Good, StateShape
  <2>4. QED
    BY <2>2, <2>3
<1>7. QED
  BY <1>5, <1>6

LEMMA OlderType == ASSUME NEW age \in 0..MaxAge PROVE Older(age) \in 0..MaxAge
BY AlertEngineAssumption DEF Older

LEMMA AgedGood ==
  ASSUME NEW all, NEW of, GoodAll(all, of)
  PROVE  /\ GoodAll(all, Aged(of))
         /\ \A i \in Rules : /\ Aged(of)[i].lastFired = Older(of[i].lastFired)
                             /\ Aged(of)[i].sent = of[i].sent
<1> SUFFICES ASSUME NEW i \in Rules
             PROVE  /\ Good(all[i], Aged(of)[i])
                    /\ Aged(of)[i].lastFired = Older(of[i].lastFired)
                    /\ Aged(of)[i].sent = of[i].sent
  BY DEF GoodAll, Good, Aged
<1> DEFINE old == of[i].matches
           new == [k \in DOMAIN old |-> Older(old[k])]
<1>1. of[i] \in StateShape /\ Good(all[i], of[i]) /\ all[i] \in Entry
  BY DEF GoodAll
<1>2. old \in Seq(0..MaxAge) /\ DOMAIN old = 1..Len(old) /\ Len(old) \in Nat
  BY <1>1 DEF StateShape
<1>3. new \in Seq(0..MaxAge) /\ Len(new) = Len(old) /\ (old = <<>> => new = <<>>)
  <2>1. \A k \in 1..Len(old) : old[k] \in 0..MaxAge
    BY <1>2, MatchAge
  <2>2. new \in [1..Len(old) -> 0..MaxAge]
    <3>1. \A k \in DOMAIN old : Older(old[k]) \in 0..MaxAge
      BY <1>2, <2>1, OlderType
    <3>2. QED
      BY <1>2, <3>1
  <2>3. new \in Seq(0..MaxAge) /\ Len(new) = Len(old)
    BY <1>2, <2>2, SeqDef, LenProperties
  <2>4. QED
    BY <2>3, EmptySeq
<1>4. Aged(of)[i] = [of[i] EXCEPT !.matches = new, !.lastFired = Older(@)]
  BY DEF Aged
<1>5. Older(of[i].lastFired) \in 0..MaxAge
  BY <1>1, OlderType DEF StateShape
<1> HIDE DEF new
<1>6. QED
  BY <1>1, <1>2, <1>3, <1>4, <1>5 DEF Good, StateShape

-----------------------------------------------------------------------------
\* A change of the rules, which Create, Update and Delete share.
LEMMA WriteStep ==
  ASSUME Inv, NEW i \in Rules, NEW spec \in Entry, NEW ok \in BOOLEAN, Write(i, spec, ok),
         phase # "down", left' \in [Kinds -> Nat]
  PROVE  Inv'
<1>1. CASE ok
  <2>1. /\ rules' = [rules EXCEPT ![i] = spec] /\ states' = [states EXCEPT ![i] = Fresh]
        /\ file' = [rules |-> rules', states |-> states']
        /\ since' = [since EXCEPT ![i] = MaxAge] /\ stale' = FALSE
        /\ UNCHANGED <<phase, outbox, owed, lost>>
    BY <1>1 DEF Write
  <2>2. Good(spec, Fresh) /\ Fresh \in StateShape
    BY FreshGood DEF Good
  <2>3. GoodAll(rules', states')
    BY <2>1, <2>2 DEF Inv, MemoryGood, GoodAll
  <2>4. MemoryGood' /\ FileGood' /\ RulesAreStored'
    BY <2>1, <2>3 DEF MemoryGood, FileGood, GoodAll, RulesAreStored
  <2>5. OthersTyped'
    <3>1. MaxAge \in 0..MaxAge
      BY AlertEngineAssumption
    <3>2. since' \in [Rules -> 0..MaxAge]
      BY <2>1, <3>1 DEF Inv, OthersTyped
    <3>3. QED
      BY <2>1, <3>2 DEF Inv, OthersTyped
  <2>6. ASSUME ~lost PROVE Remembers(states)'
    <3>1. Remembers(states)
      BY <2>6 DEF Inv, Heard
    <3>2. QED
      BY <2>1, <3>1 DEF Remembers, Fresh, Inv, OthersTyped, MemoryGood, GoodAll
  <2>7. Heard'
    BY <2>1, <2>6 DEF Heard
  <2>8. QED
    BY <2>4, <2>5, <2>7 DEF Inv
<1>2. CASE ~ok
  <2>1. UNCHANGED <<rules, states, file, since, stale, phase, outbox, owed, lost>>
    BY <1>2 DEF Write
  <2>2. QED
    BY <2>1 DEF Inv, MemoryGood, FileGood, GoodAll, OthersTyped, RulesAreStored, Heard, Remembers
<1>3. QED
  BY <1>1, <1>2

LEMMA PayType ==
  ASSUME Inv, NEW kind \in Kinds \ {"failures"}, NEW ok \in BOOLEAN, Pay(kind, ok)
  PROVE  left' \in [Kinds -> Nat]
<1>1. left \in [Kinds -> Nat] /\ "failures" \in Kinds
  BY DEF Inv, OthersTyped, Kinds
<1>2. left[kind] - 1 \in Nat
  <2>1. left[kind] \in Nat /\ left[kind] > 0
    BY <1>1 DEF Pay
  <2>2. QED
    BY <2>1
<1>3. (IF ok THEN left.failures ELSE left.failures - 1) \in Nat
  <2>1. left.failures \in Nat /\ (ok \/ left.failures > 0)
    BY <1>1 DEF Pay
  <2>2. QED
    BY <2>1
<1>4. left' = [left EXCEPT ![kind] = left[kind] - 1,
                           !.failures = IF ok THEN left.failures ELSE left.failures - 1]
  BY DEF Pay
<1>5. QED
  BY <1>1, <1>2, <1>3, <1>4

\* The parts of the invariant a step of the goroutine has to restore, from what
\* it makes of the states; the rest it leaves alone.
LEMMA SaveStep ==
  ASSUME Inv, NEW ok \in BOOLEAN, Save(ok), GoodAll(rules, states'), phase # "down",
         ~lost => Remembers(states)', OthersTyped', UNCHANGED <<rules, phase, lost>>
  PROVE  Inv'
<1>1. file' = (IF ok THEN [rules |-> rules, states |-> states'] ELSE file) /\ stale' = ~ok
  BY DEF Save
<1>2. MemoryGood'
  BY DEF MemoryGood, GoodAll
<1>3. FileGood' /\ RulesAreStored'
  BY <1>1 DEF FileGood, GoodAll, RulesAreStored, Inv
<1>4. Heard'
  BY <1>1 DEF Heard
<1>5. QED
  BY <1>2, <1>3, <1>4 DEF Inv

LEMMA ProcessEntryStep ==
  ASSUME Inv, NEW matching \in SUBSET Rules, NEW ok \in BOOLEAN, ProcessEntry(matching, ok)
  PROVE  Inv'
<1>1. rules \in [Rules -> Entry] /\ states \in [Rules -> StateShape]
      /\ \A i \in Rules : Good(rules[i], states[i])
  BY DEF Inv, MemoryGood, GoodAll
<1>2. \A i \in Hit(matching) : i \in Rules /\ rules[i] # NoRule /\ rules[i].enabled
  BY DEF Hit
<1>3. \A i \in Hit(matching) : Good(rules[i], Counted(rules[i], states[i]))
  BY <1>1, <1>2, CountedGood
<1>4. states' = [i \in Rules |->
        IF i \in Hit(matching) THEN Counted(rules[i], states[i]) ELSE states[i]]
  BY DEF ProcessEntry
<1>5. GoodAll(rules, states')
  BY <1>1, <1>3, <1>4 DEF GoodAll, Good
<1>6. OthersTyped'
  <2>1. left' \in [Kinds -> Nat]
    BY PayType DEF ProcessEntry, Kinds
  <2>2. outbox' \subseteq [rule : Rules, event : {"firing", "resolved"}]
    BY <1>2 DEF ProcessEntry, Told
  <2>3. stale' \in BOOLEAN /\ UNCHANGED <<phase, lost>>
    BY DEF ProcessEntry, Save
  <2>4. since' = [i \in Rules |-> IF i \in Told(matching) THEN 0 ELSE since[i]]
        /\ owed' = [i \in Rules |-> owed[i] \/ i \in Told(matching)]
    BY DEF ProcessEntry
  <2>5. since' \in [Rules -> 0..MaxAge] /\ owed' \in [Rules -> BOOLEAN]
    BY <2>4, AlertEngineAssumption DEF Inv, OthersTyped
  <2>6. QED
    BY <2>1, <2>2, <2>3, <2>5 DEF OthersTyped, Inv
<1>7. ASSUME ~lost PROVE Remembers(states)'
  <2> SUFFICES ASSUME NEW i \in Rules
               PROVE  states'[i].lastFired = since'[i] /\ (states'[i].sent => owed'[i])
    BY <1>4 DEF Remembers
  <2>1. states[i].lastFired = since[i] /\ (states[i].sent => owed[i]) /\ states[i] \in StateShape
    BY <1>1, <1>7 DEF Inv, Heard, Remembers, ProcessEntry, Idle
  <2>2. since'[i] = (IF i \in Told(matching) THEN 0 ELSE since[i])
        /\ (owed'[i] <=> (owed[i] \/ i \in Told(matching)))
    BY DEF ProcessEntry
  <2>3. CASE i \in Hit(matching)
    <3> DEFINE matches == Append(Recent(states[i].matches, rules[i].window), 0)
    <3>1. states'[i] = Counted(rules[i], states[i])
      BY <1>4, <2>3
    <3>2. i \in Told(matching) <=> Announces(rules[i], states[i], matches)
      BY <2>3 DEF Told
    <3>3. CASE Starts(rules[i], states[i], matches)
      <4>1. /\ states'[i].sent = Announces(rules[i], states[i], matches)
            /\ states'[i].lastFired =
                 IF Announces(rules[i], states[i], matches) THEN 0 ELSE states[i].lastFired
        BY <3>1, <3>3 DEF Counted
      <4>2. QED
        BY <2>1, <2>2, <3>2, <4>1
    <3>4. CASE ~Starts(rules[i], states[i], matches)
      <4>1. ~Announces(rules[i], states[i], matches)
        BY <3>4 DEF Announces
      <4>2. states'[i].sent = states[i].sent /\ states'[i].lastFired = states[i].lastFired
        BY <2>1, <3>1, <3>4 DEF Counted, StateShape
      <4>3. QED
        BY <2>1, <2>2, <3>2, <4>1, <4>2
    <3>5. QED
      BY <3>3, <3>4
  <2>4. CASE i \notin Hit(matching)
    <3>1. i \notin Told(matching) /\ states'[i] = states[i]
      BY <1>4, <2>4 DEF Told
    <3>2. QED
      BY <2>1, <2>2, <3>1
  <2>5. QED
    BY <2>3, <2>4
<1>8. Save(ok) /\ phase # "down" /\ UNCHANGED <<rules, phase, lost>>
  BY DEF ProcessEntry, Idle
<1>9. QED
  BY <1>5, <1>6, <1>7, <1>8, SaveStep

LEMMA AllSettledGood ==
  ASSUME NEW all, NEW of, GoodAll(all, of)
  PROVE  /\ GoodAll(all, AllSettled(all, of))
         /\ \A i \in Rules : /\ AllSettled(all, of)[i].lastFired = of[i].lastFired
                             /\ AllSettled(all, of)[i].sent => of[i].sent
<1> SUFFICES ASSUME NEW i \in Rules
             PROVE  /\ Good(all[i], AllSettled(all, of)[i])
                    /\ AllSettled(all, of)[i].lastFired = of[i].lastFired
                    /\ AllSettled(all, of)[i].sent => of[i].sent
  BY DEF GoodAll, Good, AllSettled
<1>1. all[i] \in Entry /\ Good(all[i], of[i])
  BY DEF GoodAll
<1>2. CASE all[i] = NoRule
  BY <1>1, <1>2 DEF AllSettled
<1>3. CASE all[i] # NoRule
  <2>1. AllSettled(all, of)[i] = Settled(all[i], of[i])
    BY <1>3 DEF AllSettled
  <2>2. QED
    BY <1>1, <1>3, <2>1, SettledGood
<1>4. QED
  BY <1>2, <1>3

\* A settled rule that is OK and was firing has forgotten that it was announced.
LEMMA EndedForgets ==
  ASSUME Inv, NEW i \in Ended
  PROVE  i \in Rules /\ ~AllSettled(rules, states)[i].sent /\ AllSettled(rules, states)[i] # states[i]
<1>1. i \in Rules /\ rules[i] # NoRule /\ states[i].status = "FIRING" /\ states[i].sent
      /\ Settled(rules[i], states[i]).status = "OK"
  BY DEF Ended
<1>2. states[i] \in StateShape
  BY <1>1 DEF Inv, MemoryGood, GoodAll
<1>3. AllSettled(rules, states)[i] = Settled(rules[i], states[i])
  BY <1>1 DEF AllSettled
<1>4. ~Settled(rules[i], states[i]).sent
  BY <1>1, <1>2 DEF Settled, Fresh, StateShape
<1>5. QED
  BY <1>1, <1>3, <1>4

LEMMA ResolveStep ==
  ASSUME Inv, NEW ok \in BOOLEAN, Resolve(ok)
  PROVE  Inv'
<1>1. states' = AllSettled(rules, states) /\ phase # "down" /\ UNCHANGED <<rules, phase, since, lost>>
      /\ owed' = [i \in Rules |-> owed[i] /\ i \notin Ended]
  BY DEF Resolve, Idle
<1>2. GoodAll(rules, states')
      /\ \A i \in Rules : /\ states'[i].lastFired = states[i].lastFired
                          /\ states'[i].sent => states[i].sent
  BY <1>1, AllSettledGood DEF Inv, MemoryGood
<1>3. ASSUME ~lost PROVE Remembers(states)'
  <2> SUFFICES ASSUME NEW i \in Rules
               PROVE  states'[i].lastFired = since'[i] /\ (states'[i].sent => owed'[i])
    BY DEF Remembers
  <2>1. states[i].lastFired = since[i] /\ (states[i].sent => owed[i])
    BY <1>1, <1>3 DEF Inv, Heard, Remembers
  <2>2. i \in Ended => ~states'[i].sent
    BY <1>1, EndedForgets
  <2>3. QED
    BY <1>1, <1>2, <2>1, <2>2
<1>4. outbox' \subseteq [rule : Rules, event : {"firing", "resolved"}]
  BY DEF Resolve, Ended
<1>5. owed' \in [Rules -> BOOLEAN]
  BY <1>1 DEF Inv, OthersTyped
<1>6. CASE states' = states
  <2>1. Ended = {}
    BY <1>1, <1>6, EndedForgets
  <2>2. owed' = owed
    BY <1>1, <2>1 DEF Inv, OthersTyped
  <2>3. UNCHANGED <<file, stale, left>>
    BY <1>6 DEF Resolve
  <2>4. QED
    BY <1>1, <1>4, <1>6, <2>2, <2>3
    DEF Inv, MemoryGood, FileGood, GoodAll, OthersTyped, RulesAreStored, Heard, Remembers
<1>7. CASE states' # states
  <2>1. Save(ok) /\ (ok \/ left.failures > 0)
        /\ left' = [left EXCEPT !.failures = IF ok THEN @ ELSE @ - 1]
    BY <1>7 DEF Resolve
  <2>2. left' \in [Kinds -> Nat]
    BY <2>1 DEF Inv, OthersTyped, Kinds
  <2>3. OthersTyped'
    BY <1>1, <1>4, <1>5, <2>1, <2>2 DEF Inv, OthersTyped, Save
  <2>4. QED
    BY <1>1, <1>2, <1>3, <2>1, <2>3, SaveStep
<1>8. QED
  BY <1>6, <1>7

LEMMA ListStep == ASSUME Inv, List PROVE Inv'
<1>1. /\ states' = [i \in Rules |->
           IF rules[i] = NoRule THEN states[i]
           ELSE [states[i] EXCEPT !.matches = Recent(@, rules[i].window)]]
      /\ UNCHANGED <<rules, file, phase, outbox, left, since, owed, stale, lost>>
  BY DEF List
<1>2. ASSUME NEW i \in Rules
      PROVE  /\ Good(rules[i], states'[i]) /\ states'[i].lastFired = states[i].lastFired
             /\ states'[i].sent = states[i].sent
  <2>1. rules[i] \in Entry /\ Good(rules[i], states[i]) /\ states[i] \in StateShape
    BY DEF Inv, MemoryGood, GoodAll
  <2>2. CASE rules[i] = NoRule
    BY <1>1, <2>1, <2>2
  <2>3. CASE rules[i] # NoRule
    <3>1. states'[i] = [states[i] EXCEPT !.matches = Recent(@, rules[i].window)]
      BY <1>1, <2>3
    <3>2. Good(rules[i], states'[i])
      BY <2>1, <2>3, <3>1, TrimmedGood
    <3>3. QED
      BY <2>1, <3>1, <3>2 DEF StateShape
  <2>4. QED
    BY <2>2, <2>3
<1>3. GoodAll(rules', states')
  <2>1. \A i \in Rules : states'[i] \in StateShape
    BY <1>2 DEF Good
  <2>2. states' \in [Rules -> StateShape]
    BY <1>1, <2>1
  <2>3. QED
    BY <1>1, <1>2, <2>2 DEF GoodAll, Inv, MemoryGood
<1>4. Heard'
  BY <1>1, <1>2 DEF Inv, Heard, Remembers
<1>5. QED
  BY <1>1, <1>3, <1>4
  DEF Inv, MemoryGood, FileGood, GoodAll, OthersTyped, RulesAreStored

LEMMA TickStep == ASSUME Inv, Tick PROVE Inv'
<1>1. /\ states' = Aged(states) /\ file' = [file EXCEPT !.states = Aged(@)]
      /\ since' = [i \in Rules |-> Older(since[i])]
      /\ UNCHANGED <<rules, phase, outbox, left, owed, stale, lost>>
  BY DEF Tick
<1>2. file' = [rules |-> file.rules, states |-> Aged(file.states)]
  BY <1>1 DEF Inv, FileGood
<1>3. MemoryGood'
  BY <1>1, AgedGood DEF Inv, MemoryGood, GoodAll
<1>4. FileGood'
  BY <1>2, AgedGood DEF Inv, FileGood, GoodAll
<1>5. since' \in [Rules -> 0..MaxAge]
  BY <1>1, OlderType DEF Inv, OthersTyped
<1>6. ASSUME NEW of, NEW all, GoodAll(all, of), Remembers(of)
      PROVE  \A i \in Rules : Aged(of)[i].lastFired = since'[i] /\ (Aged(of)[i].sent => owed'[i])
  <2>1. \A i \in Rules : /\ Aged(of)[i].lastFired = Older(of[i].lastFired)
                          /\ Aged(of)[i].sent = of[i].sent
    BY <1>6, AgedGood
  <2>2. \A i \in Rules : of[i].lastFired = since[i] /\ (of[i].sent => owed[i])
    BY <1>6 DEF Remembers
  <2>3. QED
    BY <1>1, <2>1, <2>2
<1>7. ASSUME Remembers(states) PROVE Remembers(states)'
  BY <1>1, <1>6, <1>7 DEF Inv, MemoryGood, Remembers
<1>8. ASSUME Remembers(file.states) PROVE Remembers(file.states)'
  BY <1>2, <1>6, <1>8 DEF Inv, FileGood, Remembers
<1>9. Heard'
  BY <1>1, <1>7, <1>8 DEF Inv, Heard
<1>10. OthersTyped' /\ RulesAreStored'
  BY <1>1, <1>2, <1>5 DEF Inv, OthersTyped, RulesAreStored
<1>11. QED
  BY <1>3, <1>4, <1>9, <1>10 DEF Inv

LEMMA LoadStep == ASSUME Inv, Load PROVE Inv'
<1>1. /\ phase' = "waiting" /\ rules' = file.rules
      /\ states' = AllSettled(file.rules, file.states) /\ lost' = (lost \/ stale)
      /\ UNCHANGED <<file, outbox, left, since, owed, stale>>
  BY DEF Load
<1>2. /\ GoodAll(rules', states')
      /\ \A i \in Rules : /\ states'[i].lastFired = file.states[i].lastFired
                          /\ states'[i].sent => file.states[i].sent
  BY <1>1, AllSettledGood DEF Inv, FileGood
<1>3. Heard'
  BY <1>1, <1>2 DEF Inv, Heard, Remembers
<1>4. OthersTyped' /\ RulesAreStored' /\ FileGood'
  BY <1>1 DEF Inv, OthersTyped, RulesAreStored, FileGood, GoodAll
<1>5. QED
  BY <1>2, <1>3, <1>4 DEF Inv, MemoryGood, GoodAll

LEMMA CrashStep == ASSUME Inv, Crash PROVE Inv'
<1>1. /\ phase' = "down" /\ outbox' = {} /\ left' = [left EXCEPT !.crashes = @ - 1]
      /\ left.crashes > 0
      /\ rules' = [i \in Rules |-> NoRule] /\ states' = [i \in Rules |-> Fresh]
      /\ UNCHANGED <<file, since, owed, stale, lost>>
  BY DEF Crash
<1>2. GoodAll(rules', states')
  BY <1>1, FreshGood DEF GoodAll, Good, Entry
<1>3. left' \in [Kinds -> Nat]
  BY <1>1 DEF Inv, OthersTyped, Kinds
<1>4. QED
  BY <1>1, <1>2, <1>3
  DEF Inv, MemoryGood, FileGood, GoodAll, OthersTyped, RulesAreStored, Heard, Remembers

LEMMA OtherStep ==
  ASSUME Inv, Subscribe \/ SubscriptionClosed \/ (\E n \in outbox : Send(n)) \/ UNCHANGED vars
  PROVE  Inv'
<1>1. UNCHANGED <<rules, states, file, since, owed, stale, lost>>
  BY DEF Subscribe, SubscriptionClosed, Send, vars, engine
<1>2. phase' \in {"down", "waiting", "consuming"} /\ (phase = "down" <=> phase' = "down")
  BY DEF Subscribe, SubscriptionClosed, Send, vars, engine, Idle, Inv, OthersTyped
<1>3. outbox' \subseteq outbox
  BY DEF Subscribe, SubscriptionClosed, Send, vars, engine
<1>4. left' \in [Kinds -> Nat]
  BY DEF Subscribe, SubscriptionClosed, Send, vars, engine, Inv, OthersTyped, Kinds
<1>5. QED
  BY <1>1, <1>2, <1>3, <1>4
  DEF Inv, MemoryGood, FileGood, GoodAll, OthersTyped, RulesAreStored, Heard, Remembers

LEMMA Initially == Init => Inv
<1> SUFFICES ASSUME Init PROVE Inv
  OBVIOUS
<1>1. MaxAge \in 0..MaxAge
  BY AlertEngineAssumption
<1>2. GoodAll(rules, states)
  BY FreshGood DEF Init, GoodAll, Good, Entry
<1>3. Heard
  BY DEF Init, Heard, Remembers, Fresh
<1>4. QED
  BY <1>1, <1>2, <1>3, AlertEngineAssumption
  DEF Inv, Init, MemoryGood, FileGood, OthersTyped, RulesAreStored

LEMMA Inductive == ASSUME Inv, [Next]_vars PROVE Inv'
<1>1. ASSUME NEW i \in Rules, NEW spec \in Specs, NEW ok \in BOOLEAN,
             Create(i, spec, ok) \/ Update(i, spec, ok)
      PROVE  Inv'
  BY <1>1, WriteStep, PayType DEF Create, Update, Entry, Kinds
<1>2. ASSUME NEW i \in Rules, NEW ok \in BOOLEAN, Delete(i, ok)
      PROVE  Inv'
  BY <1>2, WriteStep, PayType DEF Delete, Entry, Kinds
<1>3. QED
  BY <1>1, <1>2, ListStep, ProcessEntryStep, ResolveStep, OtherStep, TickStep, CrashStep, LoadStep
  DEF Next

LEMMA Invariant == Spec => []Inv
BY Initially, Inductive, PTL DEF Spec
-----------------------------------------------------------------------------
\* The types, for every value of the constants.
THEOREM TypesAreKept == Spec => []TypeOK
<1>1. Inv => TypeOK
  BY DEF Inv, TypeOK, MemoryGood, FileGood, GoodAll, OthersTyped, Entry
<1>2. QED
  BY <1>1, Invariant, PTL

\* What Create, Update, Patch and Delete could not save is taken back, so the
\* engine and its file have the same rules.
THEOREM MemoryRulesAreStored == Spec => []RulesAreStored
<1>1. Inv => RulesAreStored
  BY DEF Inv
<1>2. QED
  BY <1>1, Invariant, PTL

\* The peak of an incident covers its threshold and its matches, however they
\* are trimmed, saved and loaded.
THEOREM PeakCovers == Spec => []PeakCoversMatches
<1>1. Inv => PeakCoversMatches
  BY DEF Inv, MemoryGood, GoodAll, Good, PeakCoversMatches
<1>2. QED
  BY <1>1, Invariant, PTL

\* A paused rule is OK and counts nothing, in memory and after a restart.
THEOREM PausedStaysQuiet == Spec => []PausedIsQuiet
<1>1. Inv => PausedIsQuiet
  BY DEF Inv, MemoryGood, GoodAll, Good, PausedIsQuiet
<1>2. QED
  BY <1>1, Invariant, PTL

\* Only ProcessEntry decides on a firing notification, for rules that have
\* cooled down, and LastFiredAt, in memory or loaded, is when the last was.
THEOREM CooldownIsKept == Spec => CooldownKept
<1>1. ASSUME Inv, [Next]_vars, ~lost, NEW i \in Decided("firing")
      PROVE  since[i] >= rules[i].cooldown
  <2>1. i \in Rules /\ [rule |-> i, event |-> "firing"] \in outbox'
        /\ [rule |-> i, event |-> "firing"] \notin outbox
    BY <1>1 DEF Decided
  <2>2. ASSUME NEW matching \in SUBSET Rules, NEW ok \in BOOLEAN, ProcessEntry(matching, ok)
        PROVE  since[i] >= rules[i].cooldown
    <3>1. i \in Told(matching)
      BY <2>1, <2>2 DEF ProcessEntry
    <3>2. states[i].lastFired >= rules[i].cooldown
      BY <3>1 DEF Told, Announces
    <3>3. states[i].lastFired = since[i]
      BY <1>1, <2>1, <2>2 DEF Inv, Heard, Remembers, ProcessEntry, Idle
    <3>4. QED
      BY <3>2, <3>3
  <2>3. ASSUME NEW ok \in BOOLEAN, Resolve(ok) PROVE FALSE
    BY <2>1, <2>3 DEF Resolve
  <2>4. CASE outbox' \subseteq outbox
    BY <2>1, <2>4
  <2>5. QED
    BY <1>1, <2>2, <2>3, <2>4
    DEF Next, Create, Update, Delete, Write, List, Send, Subscribe, SubscriptionClosed, Tick,
        Crash, Load, vars, engine
<1>2. ASSUME Inv, [Next]_vars
      PROVE  [~lost => \A i \in Decided("firing") : since[i] >= rules[i].cooldown]_vars
  BY <1>1, <1>2
<1>3. QED
  BY <1>2, Invariant, PTL DEF Spec, CooldownKept

\* Only Resolve decides on a resolved notification, for rules whose firing was
\* announced and whose end was not.
THEOREM ResolvedFollowsFiring == Spec => ResolvedAnswersFiring
<1>1. ASSUME Inv, [Next]_vars, ~lost, NEW i \in Decided("resolved")
      PROVE  owed[i]
  <2>1. i \in Rules /\ [rule |-> i, event |-> "resolved"] \in outbox'
        /\ [rule |-> i, event |-> "resolved"] \notin outbox
    BY <1>1 DEF Decided
  <2>2. ASSUME NEW matching \in SUBSET Rules, NEW ok \in BOOLEAN, ProcessEntry(matching, ok)
        PROVE  FALSE
    BY <2>1, <2>2 DEF ProcessEntry
  <2>3. ASSUME NEW ok \in BOOLEAN, Resolve(ok) PROVE owed[i]
    <3>1. i \in Ended
      BY <2>1, <2>3 DEF Resolve
    <3>2. states[i].sent
      BY <3>1 DEF Ended
    <3>3. QED
      BY <1>1, <2>1, <2>3, <3>2 DEF Inv, Heard, Remembers, Resolve, Idle
  <2>4. CASE outbox' \subseteq outbox
    BY <2>1, <2>4
  <2>5. QED
    BY <1>1, <2>2, <2>3, <2>4
    DEF Next, Create, Update, Delete, Write, List, Send, Subscribe, SubscriptionClosed, Tick,
        Crash, Load, vars, engine
<1>2. ASSUME Inv, [Next]_vars
      PROVE  [~lost => \A i \in Decided("resolved") : owed[i]]_vars
  BY <1>1, <1>2
<1>3. QED
  BY <1>2, Invariant, PTL DEF Spec, ResolvedAnswersFiring

\* The engine's rules, states and file fit together.
THEOREM EngineIsSound == Spec => []RulesSound
BY TypesAreKept, MemoryRulesAreStored, PeakCovers, PausedStaysQuiet, PTL DEF RulesSound

\* Its notifications match each other and the cooldowns.
THEOREM NotificationsAreMatched == Spec => NotificationsMatch
BY CooldownIsKept, ResolvedFollowsFiring DEF NotificationsMatch

-----------------------------------------------------------------------------
(***************************************************************************)
(* Theorems about LiveTail for every set of entries, Agents, pages and     *)
(* connections.                                                            *)
(***************************************************************************)

(***************************************************************************)
(* Types.                                                                  *)
(***************************************************************************)
Time == 0 .. MaxTime
Stamps == Time \cup {Nil}

Channel == [viewer : Viewers \cup {Nil}, since : Time, buf : Seq(Entries),
            had : SUBSET Entries, closed : BOOLEAN, gone : BOOLEAN,
            handler : {"none", "loop", "ended"}]

Page == [phase : {"searching", "read", "answered", "connected", "dropped"},
         conn : Conns \cup {Nil}, since : Time, shown : SUBSET Entries,
         new : SUBSET Entries, came : SUBSET Entries, overflow : SUBSET Entries]

\* What the Hub and the browsers write is a batch's order of some entries.
LEMMA BatchesAreSequences ==
  ASSUME LiveTailAssumption, NEW batch \in Batches
  PROVE  batch \in Seq(Entries) /\ batch # <<>>
<1>1. PICK s \in SUBSET Entries : batch \in SetToSeqs(s)
  BY DEF Batches, SetToAllKPermutations
<1>2. Cardinality(s) \in Nat
  BY FS_Subset, FS_CardinalityType DEF LiveTailAssumption
<1>3. batch \in [1 .. Cardinality(s) -> s]
  BY <1>1 DEF SetToSeqs
<1>4. batch \in Seq(s)
  BY <1>2, <1>3
<1>5. batch \in Seq(Entries)
  BY <1>4
<1>. QED  BY <1>5 DEF Batches

LEMMA FreeType == ASSUME LiveTailAssumption PROVE FreeConn \in Channel
<1>1. <<>> \in Seq(Entries)
  OBVIOUS
<1>. QED  BY <1>1 DEF FreeConn, Channel, Time, LiveTailAssumption

LEMMA NewPageType == ASSUME LiveTailAssumption PROVE NewPage \in Page
BY DEF NewPage, Page, Time, LiveTailAssumption

\* TailTypeOK, in the names above.
ConnsTyped ==
  /\ conn \in [Conns -> Channel]
  /\ \A c \in Conns : Len(conn[c].buf) <= Buffer /\ (c \in subs => conn[c].viewer # Nil)

RestTyped ==
  /\ clock \in Time /\ stamp \in [Entries -> Stamps]
  /\ committed \subseteq Entries /\ ingest \in [Hosts -> Seq(Entries)] /\ seen \in Seq(Entries)
  /\ Len(seen) <= MaxSeen /\ subs \subseteq Conns
  /\ viewer \in [Viewers -> Page] /\ panicked \in BOOLEAN /\ breaks \in 0 .. MaxBreaks

LEMMA TypeIsParts == TailTypeOK <=> ConnsTyped /\ RestTyped
BY DEF TailTypeOK, ConnsTyped, RestTyped, Channel, Page, Time, Stamps

LEMMA TypeFromParts == ASSUME ConnsTyped', RestTyped' PROVE TailTypeOK'
BY DEF TailTypeOK, ConnsTyped, RestTyped, Channel, Page, Time, Stamps

LEMMA LostType ==
  ASSUME NEW p \in Page
  PROVE  [p EXCEPT !.phase = "dropped", !.conn = Nil, !.came = {}] \in Page
BY DEF Page

LEMMA TypeOKInit == ASSUME LiveTailAssumption, TailInit PROVE TailTypeOK
<1>1. <<>> \in Seq(Entries) /\ Len(<<>>) = 0
  OBVIOUS
<1>2. ConnsTyped
  BY <1>1, FreeType DEF TailInit, ConnsTyped, FreeConn, LiveTailAssumption
<1>3. /\ clock \in Time /\ breaks \in 0 .. MaxBreaks /\ stamp \in [Entries -> Stamps]
  BY DEF TailInit, Time, Stamps, LiveTailAssumption
<1>4. /\ ingest \in [Hosts -> Seq(Entries)] /\ seen \in Seq(Entries) /\ Len(seen) <= MaxSeen
  BY <1>1 DEF TailInit, LiveTailAssumption
<1>5. viewer \in [Viewers -> Page]
  BY NewPageType DEF TailInit
<1>6. RestTyped
  BY <1>3, <1>4, <1>5 DEF TailInit, RestTyped
<1>. QED  BY <1>2, <1>6, TypeIsParts

\* Publishing remembers an entry in a place of its own or in the oldest's.
LEMMA RememberType ==
  ASSUME LiveTailAssumption, RestTyped, NEW e \in Entries
  PROVE  Remember(e) \in Seq(Entries) /\ Len(Remember(e)) <= MaxSeen
<1>1. seen \in Seq(Entries) /\ Len(seen) \in Nat /\ Len(seen) <= MaxSeen /\ MaxSeen \in Nat \ {0}
  BY DEF RestTyped, LiveTailAssumption
<1>2. CASE Len(seen) >= MaxSeen
  <2>1. seen # <<>> /\ Tail(seen) \in Seq(Entries) /\ Len(Tail(seen)) = Len(seen) - 1
    BY <1>1, <1>2
  <2>. QED  BY <1>1, <1>2, <2>1 DEF Remember
<1>3. CASE ~ (Len(seen) >= MaxSeen)
  BY <1>1, <1>3 DEF Remember
<1>. QED  BY <1>2, <1>3

LEMMA PublishTyped ==
  ASSUME LiveTailAssumption, TailTypeOK, NEW a \in Hosts, Publish(a)
  PROVE  TailTypeOK'
<1> DEFINE e == Head(ingest[a])
<1>0. ConnsTyped /\ RestTyped
  BY TypeIsParts
<1>1. /\ ingest[a] \in Seq(Entries) /\ ingest[a] # <<>> /\ e \in Entries
      /\ Tail(ingest[a]) \in Seq(Entries)
  <2>1. ingest[a] \in Seq(Entries) /\ ingest[a] # <<>>
    BY <1>0 DEF Publish, RestTyped
  <2>. QED  BY <2>1
<1>. HIDE DEF e
<1>2. ingest' \in [Hosts -> Seq(Entries)]
  BY <1>0, <1>1 DEF Publish, RestTyped
<1>3. seen' \in Seq(Entries) /\ Len(seen') <= MaxSeen
  BY <1>0, <1>1, RememberType DEF Publish, RestTyped, e
<1>4. \A c \in Conns :
        \/ conn'[c] = conn[c]
        \/ /\ ~ Full(c)
           /\ conn'[c] = [conn[c] EXCEPT !.buf = Append(@, e), !.had = @ \cup {e}]
  BY DEF Publish, e
<1>5. conn' = [c \in Conns |-> conn'[c]]
  BY DEF Publish
<1>6. ASSUME NEW c \in Conns, ~ Full(c),
             conn'[c] = [conn[c] EXCEPT !.buf = Append(@, e), !.had = @ \cup {e}]
      PROVE  /\ conn'[c] \in Channel /\ Len(conn'[c].buf) <= Buffer
             /\ conn'[c].viewer = conn[c].viewer
  <2>1. conn[c] \in Channel /\ conn[c].buf \in Seq(Entries) /\ Len(conn[c].buf) <= Buffer
    BY <1>0 DEF ConnsTyped, Channel
  <2>2. Append(conn[c].buf, e) \in Seq(Entries) /\ Len(Append(conn[c].buf, e)) <= Buffer
    BY <1>1, <1>6, <2>1 DEF Full, LiveTailAssumption
  <2>3. conn[c].had \cup {e} \in SUBSET Entries
    BY <1>1, <2>1 DEF Channel
  <2>4. /\ conn'[c] = [conn[c] EXCEPT !.buf = Append(conn[c].buf, e), !.had = conn[c].had \cup {e}]
        /\ conn'[c].buf = Append(conn[c].buf, e)
    BY <1>6, <2>1 DEF Channel
  <2>. QED  BY <2>1, <2>2, <2>3, <2>4 DEF Channel
<1>7. ConnsTyped'
  <2>1. subs' = subs
    BY DEF Publish
  <2>2. \A c \in Conns : conn'[c] \in Channel /\ Len(conn'[c].buf) <= Buffer
                         /\ conn'[c].viewer = conn[c].viewer
    BY <1>0, <1>4, <1>6 DEF ConnsTyped
  <2>. QED  BY <1>0, <1>5, <2>1, <2>2 DEF ConnsTyped
<1>8. viewer' \in [Viewers -> Page]
  <2>1. \A v \in Viewers : viewer[v] \in Page /\ viewer[v].overflow \cup {e} \in SUBSET Entries
    BY <1>0, <1>1 DEF RestTyped, Page
  <2>2. \A v \in Viewers : [viewer[v] EXCEPT !.overflow = @ \cup {e}] \in Page
    BY <2>1 DEF Page
  <2>. QED  BY <2>1, <2>2 DEF Publish, e
<1>9. panicked' \in BOOLEAN
  BY <1>0 DEF Publish, RestTyped
<1>10. RestTyped'
  BY <1>0, <1>2, <1>3, <1>8, <1>9 DEF Publish, RestTyped
<1>. QED  BY <1>7, <1>10, TypeFromParts

LEMMA CommitTyped ==
  ASSUME LiveTailAssumption, TailTypeOK, NEW a \in Hosts, NEW batch \in Batches, Commit(a, batch)
  PROVE  TailTypeOK'
<1>0. ConnsTyped /\ RestTyped
  BY TypeIsParts
<1>1. batch \in Seq(Entries) /\ ToSet(batch) \subseteq Entries
  BY BatchesAreSequences DEF ToSet
<1>2. committed' \subseteq Entries /\ ingest' \in [Hosts -> Seq(Entries)]
  BY <1>0, <1>1 DEF Commit, RestTyped
<1> DEFINE fresh == ToSet(batch) \ committed
<1>4. viewer' \in [Viewers -> Page]
  <2>1. ASSUME NEW v \in Viewers PROVE viewer'[v] \in Page
    <3>1. /\ viewer[v].new \in SUBSET Entries /\ viewer[v].came \in SUBSET Entries
          /\ viewer[v].new \cup fresh \in SUBSET Entries
          /\ viewer[v].came \cup fresh \in SUBSET Entries
      BY <1>0, <1>1 DEF RestTyped, Page
    <3>2. viewer'[v] = [viewer[v] EXCEPT
                          !.new = IF viewer[v].phase = "searching" THEN viewer[v].new
                                  ELSE viewer[v].new \cup fresh,
                          !.came = IF Connected(v) THEN viewer[v].came \cup fresh
                                   ELSE viewer[v].came]
      BY <1>0 DEF Commit, RestTyped, Page
    <3> DEFINE new  == IF viewer[v].phase = "searching" THEN viewer[v].new
                       ELSE viewer[v].new \cup fresh
               came == IF Connected(v) THEN viewer[v].came \cup fresh ELSE viewer[v].came
    <3>3. new \in SUBSET Entries /\ came \in SUBSET Entries
      BY <3>1
    <3>4. viewer'[v] = [viewer[v] EXCEPT !.new = new, !.came = came]
      BY <3>2
    <3>. HIDE DEF new, came
    <3>. QED  BY <1>0, <3>3, <3>4 DEF RestTyped, Page
  <2>. QED  BY <2>1 DEF Commit
<1>5. RestTyped'
  BY <1>0, <1>2, <1>4 DEF Commit, RestTyped
<1>6. ConnsTyped'
  BY <1>0 DEF Commit, ConnsTyped
<1>. QED  BY <1>5, <1>6, TypeFromParts

\* The steps of one connection.
LEMMA ConnTyped ==
  ASSUME LiveTailAssumption, TailTypeOK, NEW c \in Conns,
         Handler(c) \/ Unsubscribe(c) \/ CloseChannel(c) \/ Release(c)
  PROVE  TailTypeOK'
<1>0. ConnsTyped /\ RestTyped /\ conn[c] \in Channel
  BY TypeIsParts DEF ConnsTyped
<1>1. ASSUME NEW r \in Channel, conn' = [conn EXCEPT ![c] = r], Len(r.buf) <= Buffer,
             c \in subs' => r.viewer # Nil, subs' \subseteq subs
      PROVE  ConnsTyped'
  BY <1>0, <1>1 DEF ConnsTyped, RestTyped
<1>2. CASE Take(c)
  <2>1. /\ conn[c].buf \in Seq(Entries) /\ conn[c].buf # <<>>
        /\ Tail(conn[c].buf) \in Seq(Entries) /\ Len(Tail(conn[c].buf)) = Len(conn[c].buf) - 1
        /\ Head(conn[c].buf) \in Entries /\ Len(conn[c].buf) \in Nat /\ Len(conn[c].buf) <= Buffer
    BY <1>0, <1>2 DEF Take, Channel, ConnsTyped
  <2>2. /\ Received(c) \in Channel /\ Received(c).buf = Tail(conn[c].buf)
        /\ Received(c).viewer = conn[c].viewer
        /\ \A how \in {"loop", "ended"} :
             LET r == [Received(c) EXCEPT !.handler = how]
             IN  r \in Channel /\ r.buf = Tail(conn[c].buf) /\ r.viewer = conn[c].viewer
    BY <1>0, <2>1 DEF Received, Channel
  <2>3. Len(Tail(conn[c].buf)) <= Buffer
    BY <2>1 DEF LiveTailAssumption
  <2>4. subs' = subs /\ (c \in subs => conn[c].viewer # Nil)
    BY <1>0, <1>2 DEF Take, ConnsTyped
  <2>5. ConnsTyped'
    <3>1. CASE conn' = [conn EXCEPT ![c] = Received(c)]
      BY <1>1, <2>2, <2>3, <2>4, <3>1
    <3>2. CASE \E how \in {"loop", "ended"} :
                 conn' = [conn EXCEPT ![c] = [Received(c) EXCEPT !.handler = how]]
      <4>1. PICK how \in {"loop", "ended"} :
              conn' = [conn EXCEPT ![c] = [Received(c) EXCEPT !.handler = how]]
        BY <3>2
      <4>. QED  BY <1>1, <2>2, <2>3, <2>4, <4>1
    <3>. QED  BY <1>2, <3>1, <3>2 DEF Take
  <2>6. viewer' \in [Viewers -> Page]
    <3>1. \/ viewer' = viewer
          \/ viewer' = [viewer EXCEPT ![conn[c].viewer].shown = @ \cup {Head(conn[c].buf)}]
      BY <1>2 DEF Take
    <3>2. [viewer EXCEPT ![conn[c].viewer].shown = @ \cup {Head(conn[c].buf)}] \in [Viewers -> Page]
      <4>1. viewer \in [Viewers -> Page]
        BY <1>0 DEF RestTyped
      <4>2. \A w \in Viewers : viewer[w].shown \cup {Head(conn[c].buf)} \in SUBSET Entries
        BY <2>1, <4>1 DEF Page
      <4>3. \A w \in Viewers : [viewer[w] EXCEPT !.shown = @ \cup {Head(conn[c].buf)}] \in Page
        BY <4>1, <4>2 DEF Page
      <4>. QED  BY <4>1, <4>3
    <3>. QED  BY <1>0, <3>1, <3>2 DEF RestTyped
  <2>7. RestTyped'
    BY <1>0, <1>2, <2>6 DEF Take, RestTyped
  <2>. QED  BY <2>5, <2>7, TypeFromParts
<1>3. CASE Quit(c) \/ CloseChannel(c)
  <2>1. [conn[c] EXCEPT !.handler = "ended"] \in Channel /\ [conn[c] EXCEPT !.closed = TRUE] \in Channel
    BY <1>0 DEF Channel
  <2>2. PICK r \in Channel : /\ conn' = [conn EXCEPT ![c] = r]
                            /\ r.buf = conn[c].buf /\ r.viewer = conn[c].viewer
    BY <1>0, <1>3, <2>1 DEF Quit, CloseChannel, Channel
  <2>3. subs' = subs
    BY <1>3 DEF Quit, CloseChannel
  <2>4. ConnsTyped'
    BY <1>0, <1>1, <2>2, <2>3 DEF ConnsTyped
  <2>5. RestTyped'
    BY <1>0, <1>3 DEF Quit, CloseChannel, RestTyped
  <2>. QED  BY <2>4, <2>5, TypeFromParts
<1>4. CASE Unsubscribe(c)
  <2>1. ConnsTyped' /\ RestTyped'
    BY <1>0, <1>4 DEF Unsubscribe, ConnsTyped, RestTyped
  <2>. QED  BY <2>1, TypeFromParts
<1>5. CASE Release(c)
  <2>1. Len(FreeConn.buf) <= Buffer
    BY DEF FreeConn, LiveTailAssumption
  <2>2. ConnsTyped'
    BY <1>1, <1>5, <2>1, FreeType DEF Release
  <2>3. RestTyped'
    BY <1>0, <1>5 DEF Release, RestTyped
  <2>. QED  BY <2>2, <2>3, TypeFromParts
<1>. QED  BY <1>2, <1>3, <1>4, <1>5 DEF Handler

\* The steps of one page.
LEMMA PageTyped ==
  ASSUME LiveTailAssumption, TailTypeOK, NEW v \in Viewers,
         Search(v) \/ AnswerSearch(v) \/ Drop(v) \/ CloseTail(v) \/ \E c \in Conns : SubscribeTail(v, c)
  PROVE  TailTypeOK'
<1>0. ConnsTyped /\ RestTyped /\ viewer[v] \in Page
  BY TypeIsParts DEF RestTyped
<1>1. ASSUME NEW p \in Page, viewer' = [viewer EXCEPT ![v] = p], subs' \subseteq Conns,
             breaks' \in 0 .. MaxBreaks, UNCHANGED <<clock, stamp, committed, ingest, seen, panicked>>
      PROVE  RestTyped'
  BY <1>0, <1>1 DEF RestTyped
<1>2. CASE Search(v) \/ AnswerSearch(v)
  <2>1. PICK p \in Page : viewer' = [viewer EXCEPT ![v] = p]
    <3>1. /\ [viewer[v] EXCEPT !.phase = "read", !.shown = committed] \in Page
          /\ [viewer[v] EXCEPT !.phase = "answered", !.since = clock] \in Page
      BY <1>0 DEF RestTyped, Page
    <3>2. CASE Search(v)
      BY <1>0, <3>1, <3>2 DEF Search
    <3>3. CASE AnswerSearch(v)
      BY <1>0, <3>1, <3>3 DEF AnswerSearch
    <3>. QED  BY <1>2, <3>2, <3>3
  <2>2. RestTyped'
    BY <1>0, <1>1, <1>2, <2>1 DEF Search, AnswerSearch, RestTyped
  <2>3. ConnsTyped'
    BY <1>0, <1>2 DEF Search, AnswerSearch, ConnsTyped
  <2>. QED  BY <2>2, <2>3, TypeFromParts
<1>3. CASE Drop(v) \/ CloseTail(v)
  <2>1. PICK p \in Page : viewer' = [viewer EXCEPT ![v] = p]
    BY <1>0, <1>3, LostType, NewPageType DEF Drop, CloseTail, Lost
  <2>2. breaks' \in 0 .. MaxBreaks
    BY <1>0, <1>3 DEF Drop, CloseTail, Break, RestTyped, LiveTailAssumption
  <2>3. RestTyped'
    BY <1>0, <1>1, <1>3, <2>1, <2>2 DEF Drop, CloseTail, RestTyped
  <2>4. /\ conn' = [conn EXCEPT ![viewer[v].conn].gone = TRUE] /\ subs' = subs
        /\ conn \in [Conns -> Channel]
    BY <1>0, <1>3 DEF Drop, CloseTail, Hangup, ConnsTyped
  <2>5. conn' \in [Conns -> Channel]
    BY <2>4 DEF Channel
  <2>6. \A c \in Conns : conn'[c].buf = conn[c].buf /\ conn'[c].viewer = conn[c].viewer
    BY <2>4 DEF Channel
  <2>7. ConnsTyped'
    BY <1>0, <2>4, <2>5, <2>6 DEF ConnsTyped
  <2>. QED  BY <2>3, <2>7, TypeFromParts
<1>4. ASSUME NEW c \in Conns, SubscribeTail(v, c) PROVE TailTypeOK'
  <2> DEFINE r == [FreeConn EXCEPT !.viewer = v, !.since = viewer[v].since, !.handler = "loop"]
  <2>1. r \in Channel /\ r.buf = <<>> /\ r.viewer = v
    BY <1>0, FreeType DEF FreeConn, Channel, Page
  <2>2. ConnsTyped'
    BY <1>0, <1>4, <2>1 DEF SubscribeTail, ConnsTyped, LiveTailAssumption
  <2>3. [viewer[v] EXCEPT !.phase = "connected", !.conn = c] \in Page
    BY <1>0 DEF Page
  <2>4. RestTyped'
    BY <1>0, <1>1, <1>4, <2>3 DEF SubscribeTail, RestTyped
  <2>. QED  BY <2>2, <2>4, TypeFromParts
<1>. QED  BY <1>2, <1>3, <1>4

LEMMA RestOfHubTyped ==
  ASSUME LiveTailAssumption, TailTypeOK,
         TailTick \/ BrokerDies \/ (\E e \in Entries : Log(e)) \/ UNCHANGED tailVars
  PROVE  TailTypeOK'
<1>0. ConnsTyped /\ RestTyped
  BY TypeIsParts
<1>1. CASE TailTick \/ (\E e \in Entries : Log(e)) \/ UNCHANGED tailVars
  <2>1. clock' \in Time
    BY <1>0, <1>1 DEF TailTick, Log, tailVars, RestTyped, Time, LiveTailAssumption
  <2>2. stamp' \in [Entries -> Stamps]
    BY <1>0, <1>1 DEF TailTick, Log, tailVars, RestTyped, Stamps
  <2>3. RestTyped'
    BY <1>0, <1>1, <2>1, <2>2 DEF TailTick, Log, tailVars, RestTyped
  <2>4. ConnsTyped'
    BY <1>0, <1>1 DEF TailTick, Log, tailVars, ConnsTyped
  <2>. QED  BY <2>3, <2>4, TypeFromParts
<1>2. CASE BrokerDies
  <2>1. ConnsTyped'
    BY <1>2, FreeType DEF BrokerDies, ConnsTyped, FreeConn, LiveTailAssumption
  <2>2. viewer' \in [Viewers -> Page]
    BY <1>0, <1>2, LostType DEF BrokerDies, Lost, RestTyped
  <2>3. <<>> \in Seq(Entries) /\ Len(<<>>) <= MaxSeen
    BY DEF LiveTailAssumption
  <2>4. RestTyped'
    BY <1>0, <1>2, <2>2, <2>3 DEF BrokerDies, Break, RestTyped, LiveTailAssumption
  <2>. QED  BY <2>1, <2>4, TypeFromParts
<1>. QED  BY <1>1, <1>2

LEMMA TypeOKStep == ASSUME LiveTailAssumption, TailTypeOK, [TailNext]_tailVars PROVE TailTypeOK'
BY PublishTyped, CommitTyped, ConnTyped, PageTyped, RestOfHubTyped DEF TailNext

-----------------------------------------------------------------------------
(***************************************************************************)
(* What is recent reaches the pages.                                       *)
(***************************************************************************)
\* While a page is connected, the connection it names is its own: subscribed,
\* served, and with the page's `since'.
LinkedTo(v, c) ==
  /\ c \in subs /\ conn[c].viewer = v /\ conn[c].since = viewer[v].since
  /\ conn[c].handler = "loop" /\ ~ conn[c].gone /\ ~ conn[c].closed

\* It was sent the entry, the channel was full for it, or it is yet to be
\* published, and the Broker will not take it for one that it has published.
ReachedBy(v, e) ==
  \/ e \in viewer[v].shown \cup viewer[v].overflow
  \/ Contains(conn[viewer[v].conn].buf, e)
  \/ e \in Underway /\ ~ Contains(seen, e)

PageOK(v) ==
  IF Connected(v)
  THEN /\ LinkedTo(v, viewer[v].conn) /\ viewer[v].came \subseteq committed
       /\ \A e \in viewer[v].came \cap WrittenSince(v) : ReachedBy(v, e)
  ELSE viewer[v].conn = Nil /\ viewer[v].came = {}

\* What the Hub has in hand is stored, and what is stored was written.
Known ==
  /\ \A e \in committed : stamp[e] # Nil
  /\ \A e \in Entries : e \in Underway \/ Contains(seen, e) => e \in committed

OpenWhileSubscribed == \A c \in subs : ~ conn[c].closed

TailInv ==
  /\ TailTypeOK /\ NeverSendsOnClosed /\ OpenWhileSubscribed /\ Known
  /\ \A v \in Viewers : PageOK(v)

\* A step that shows a page more at most.
Shows(v) ==
  /\ viewer'[v].phase = viewer[v].phase /\ viewer'[v].conn = viewer[v].conn
  /\ viewer'[v].since = viewer[v].since /\ viewer'[v].came = viewer[v].came
  /\ viewer'[v].overflow = viewer[v].overflow /\ viewer[v].shown \subseteq viewer'[v].shown

\* A step that leaves a page's connection and what the Hub has in hand alone.
LEMMA PageUntouched ==
  ASSUME LiveTailAssumption, NEW v \in Viewers, PageOK(v), Shows(v),
         Connected(v) => /\ conn'[viewer[v].conn] = conn[viewer[v].conn]
                         /\ viewer[v].conn \in subs',
         \A e \in viewer[v].came : stamp'[e] = stamp[e],
         seen' = seen, ingest' = ingest, committed' = committed
  PROVE  PageOK(v)'
<1>1. Connected(v)' <=> Connected(v)  BY DEF Connected, Shows
<1>2. CASE ~ Connected(v)
  BY <1>1, <1>2 DEF PageOK, Shows
<1>3. CASE Connected(v)
  <2>1. LinkedTo(v, viewer[v].conn)' /\ viewer'[v].came \subseteq committed'
    BY <1>3 DEF PageOK, LinkedTo, Shows
  <2>2. \A e : ReachedBy(v, e) => ReachedBy(v, e)'
    BY <1>3 DEF ReachedBy, Underway, Shows
  <2>3. viewer'[v].came \cap WrittenSince(v)' \subseteq viewer[v].came \cap WrittenSince(v)
    BY DEF WrittenSince, Shows
  <2>. QED  BY <1>1, <1>3, <2>1, <2>2, <2>3 DEF PageOK, Shows
<1>. QED  BY <1>2, <1>3

\* The connection of a connected page is not about to end.
LEMMA ConnectionsThatEnd ==
  ASSUME TailInv, NEW c \in Conns,
         Quit(c) \/ Unsubscribe(c) \/ CloseChannel(c) \/ Release(c),
         NEW v \in Viewers, Connected(v)
  PROVE  viewer[v].conn # c
BY DEF TailInv, PageOK, LinkedTo, Quit, Unsubscribe, CloseChannel, Release, Ends

LEMMA EndsReach ==
  ASSUME LiveTailAssumption, TailInv, TailTypeOK', NEW c \in Conns,
         Quit(c) \/ Unsubscribe(c) \/ CloseChannel(c) \/ Release(c)
  PROVE  TailInv'
<1>0. conn \in [Conns -> Channel] /\ subs \subseteq Conns
  BY TypeIsParts DEF TailInv, ConnsTyped, RestTyped
<1>1. /\ UNCHANGED <<stamp, committed, ingest, seen, viewer, panicked>> /\ subs' \subseteq subs
      /\ subs \ subs' \subseteq {c}
      /\ \A d \in Conns \ {c} : conn'[d] = conn[d]
  BY <1>0 DEF Quit, Unsubscribe, CloseChannel, Release
<1>2. \A v \in Viewers : PageOK(v)'
  <2> SUFFICES ASSUME NEW v \in Viewers PROVE PageOK(v)'
    OBVIOUS
  <2>1. ASSUME Connected(v)
        PROVE  conn'[viewer[v].conn] = conn[viewer[v].conn] /\ viewer[v].conn \in subs'
    <3>1. viewer[v].conn # c
      BY <2>1, ConnectionsThatEnd
    <3>2. viewer[v].conn \in subs
      BY <2>1 DEF TailInv, PageOK, LinkedTo
    <3>. QED  BY <1>0, <1>1, <3>1, <3>2
  <2>. QED  BY <1>1, <2>1, PageUntouched DEF TailInv, Shows
<1>3. OpenWhileSubscribed'
  <2>1. c \in subs' => ~ conn'[c].closed
    BY <1>0, <1>1 DEF Quit, Unsubscribe, CloseChannel, Release, Channel, TailInv,
       OpenWhileSubscribed
  <2>. QED  BY <1>0, <1>1, <2>1 DEF TailInv, OpenWhileSubscribed
<1>4. Known' /\ NeverSendsOnClosed'
  BY <1>1 DEF TailInv, Known, NeverSendsOnClosed, Underway
<1>. QED  BY <1>2, <1>3, <1>4 DEF TailInv

LEMMA TakeReaches ==
  ASSUME LiveTailAssumption, TailInv, TailTypeOK', NEW c \in Conns, Take(c)
  PROVE  TailInv'
<1> DEFINE e == Head(conn[c].buf)
<1>0. /\ conn \in [Conns -> Channel] /\ subs \subseteq Conns /\ viewer \in [Viewers -> Page]
      /\ conn[c].buf \in Seq(Entries) /\ conn[c].buf # <<>>
  BY TypeIsParts DEF TailInv, ConnsTyped, RestTyped, Channel, Take
<1>1. /\ UNCHANGED <<stamp, committed, ingest, seen, subs, panicked>>
      /\ \A d \in Conns \ {c} : conn'[d] = conn[d]
      /\ conn'[c].closed = conn[c].closed /\ conn'[c].since = conn[c].since
      /\ conn'[c].viewer = conn[c].viewer /\ conn'[c].gone = conn[c].gone
      /\ conn'[c].buf = Tail(conn[c].buf)
      /\ conn'[c].handler = conn[c].handler \/ conn[c].gone
  <2>1. PICK how \in {"loop", "ended"} :
          /\ conn' = [conn EXCEPT ![c] = [Received(c) EXCEPT !.handler = how]]
          /\ how = conn[c].handler \/ conn[c].gone
    <3>1. conn[c].handler = "loop" /\ Received(c) = [Received(c) EXCEPT !.handler = "loop"]
      BY <1>0 DEF Take, Received, Channel
    <3>. QED  BY <3>1 DEF Take
  <2>. QED  BY <1>0, <2>1 DEF Take, Received, Channel
<1>2. \A w \in Viewers : w # conn[c].viewer => viewer'[w] = viewer[w]
  BY <1>0 DEF Take
<1>3. ASSUME NEW v \in Viewers PROVE PageOK(v)'
  <2>1. CASE ~ (Connected(v) /\ viewer[v].conn = c)
    <3>1. Shows(v)
      <4>1. CASE conn[c].viewer = v
        BY <1>0, <4>1 DEF Take, Page, Shows
      <4>. QED  BY <1>2, <4>1 DEF Shows
    <3>. QED  BY <1>0, <1>1, <2>1, <3>1, PageUntouched DEF TailInv, PageOK, LinkedTo
  <2>2. CASE Connected(v) /\ viewer[v].conn = c
    <3>1. LinkedTo(v, c) /\ viewer[v].came \subseteq committed
          /\ \A x \in viewer[v].came \cap WrittenSince(v) : ReachedBy(v, x)
      BY <2>2 DEF TailInv, PageOK
    <3> DEFINE here == \A x \in {e} : Passes(c, x)
    <3>2. /\ viewer'[v].conn = c /\ viewer'[v].since = viewer[v].since
          /\ viewer'[v].came = viewer[v].came /\ viewer'[v].phase = viewer[v].phase
          /\ viewer'[v].overflow = viewer[v].overflow
          /\ viewer[v].shown \subseteq viewer'[v].shown
          /\ Passes(c, e) => e \in viewer'[v].shown
      BY <1>0, <2>2, <3>1 DEF Take, LinkedTo, Page
    <3>3. Connected(v)' /\ LinkedTo(v, c)' /\ viewer'[v].came \subseteq committed'
      BY <1>0, <1>1, <2>2, <3>1, <3>2 DEF Connected, LinkedTo
    <3>4. ASSUME NEW x \in viewer'[v].came \cap WrittenSince(v)' PROVE ReachedBy(v, x)'
      <4>1. x \in viewer[v].came \cap WrittenSince(v)
        BY <1>1, <3>2 DEF WrittenSince
      <4>2. CASE Contains(conn[c].buf, x)
        <5>1. PICK i \in 1 .. Len(conn[c].buf) : conn[c].buf[i] = x
          BY <4>2 DEF Contains
        <5>2. CASE i = 1
          <6>1. x = e  BY <1>0, <5>1, <5>2
          <6>2. Passes(c, e)
            BY <3>1, <4>1, <6>1 DEF Passes, WrittenSince, LinkedTo
          <6>. QED  BY <3>2, <6>1, <6>2 DEF ReachedBy
        <5>3. CASE i # 1
          <6>1. i - 1 \in 1 .. Len(Tail(conn[c].buf)) /\ Tail(conn[c].buf)[i - 1] = x
            BY <1>0, <5>1, <5>3
          <6>2. Contains(conn'[c].buf, x)
            BY <1>1, <6>1 DEF Contains
          <6>. QED  BY <3>2, <6>2 DEF ReachedBy
        <5>. QED  BY <5>2, <5>3
      <4>3. CASE ~ Contains(conn[c].buf, x)
        <5>1. \/ x \in viewer[v].shown \cup viewer[v].overflow
              \/ x \in Underway /\ ~ Contains(seen, x)
          BY <2>2, <3>1, <4>1, <4>3 DEF ReachedBy
        <5>2. Underway' = Underway /\ seen' = seen
          BY <1>1 DEF Underway
        <5>. QED  BY <3>2, <5>1, <5>2 DEF ReachedBy
      <4>. QED  BY <4>2, <4>3
    <3>. QED  BY <3>2, <3>3, <3>4 DEF PageOK
  <2>. QED  BY <2>1, <2>2
<1>4. OpenWhileSubscribed' /\ Known' /\ NeverSendsOnClosed'
  BY <1>0, <1>1 DEF TailInv, OpenWhileSubscribed, Known, NeverSendsOnClosed, Underway
<1>. QED  BY <1>3, <1>4 DEF TailInv

LEMMA PageReaches ==
  ASSUME LiveTailAssumption, TailInv, TailTypeOK', NEW v \in Viewers,
         Search(v) \/ AnswerSearch(v) \/ Drop(v) \/ CloseTail(v) \/ \E c \in Conns : SubscribeTail(v, c)
  PROVE  TailInv'
<1>0. /\ conn \in [Conns -> Channel] /\ subs \subseteq Conns /\ viewer \in [Viewers -> Page]
      /\ Nil \notin Conns /\ Nil \notin Viewers
  BY TypeIsParts DEF TailInv, ConnsTyped, RestTyped, LiveTailAssumption
<1>1. /\ UNCHANGED <<stamp, committed, ingest, seen, panicked>>
      /\ \A w \in Viewers \ {v} : viewer'[w] = viewer[w]
  BY <1>0 DEF Search, AnswerSearch, Drop, CloseTail, SubscribeTail
<1>2. Known' /\ NeverSendsOnClosed'
  BY <1>1 DEF TailInv, Known, NeverSendsOnClosed, Underway
<1>3. CASE Search(v) \/ AnswerSearch(v)
  <2>1. /\ ~ Connected(v) /\ ~ Connected(v)' /\ conn' = conn /\ subs' = subs
        /\ viewer'[v].conn = viewer[v].conn /\ viewer'[v].came = viewer[v].came
    BY <1>0, <1>3 DEF Search, AnswerSearch, Connected, Page
  <2>2. PageOK(v)'
    BY <2>1 DEF TailInv, PageOK
  <2>3. \A w \in Viewers \ {v} : PageOK(w)'
    BY <1>1, <2>1, PageUntouched DEF TailInv, PageOK, LinkedTo, Shows
  <2>4. OpenWhileSubscribed'
    BY <2>1 DEF TailInv, OpenWhileSubscribed
  <2>. QED  BY <1>2, <2>2, <2>3, <2>4 DEF TailInv
<1>4. CASE Drop(v) \/ CloseTail(v)
  <2> DEFINE c == viewer[v].conn
  <2>1. /\ Connected(v) /\ c \in subs /\ conn[c].viewer = v /\ subs' = subs
        /\ \A d \in Conns \ {c} : conn'[d] = conn[d]
        /\ conn'[c].closed = conn[c].closed
    BY <1>0, <1>4 DEF Drop, CloseTail, Hangup, TailInv, PageOK, LinkedTo, Channel
  <2>2. PageOK(v)'
    <3>1. viewer'[v].phase # "connected" /\ viewer'[v].conn = Nil /\ viewer'[v].came = {}
      <4>1. CASE Drop(v)
        <5>1. viewer'[v] = Lost(v)
          BY <1>0, <4>1 DEF Drop
        <5>. QED  BY <1>0, <5>1 DEF Lost, Page
      <4>2. CASE CloseTail(v)
        BY <1>0, <4>2 DEF CloseTail, NewPage
      <4>. QED  BY <1>4, <4>1, <4>2
    <3>. QED  BY <3>1 DEF PageOK, Connected
  <2>3. ASSUME NEW w \in Viewers \ {v} PROVE PageOK(w)'
    <3>1. Connected(w) => viewer[w].conn # c /\ viewer[w].conn \in subs
      BY <2>1 DEF TailInv, PageOK, LinkedTo
    <3>. QED  BY <1>0, <1>1, <2>1, <3>1, PageUntouched DEF TailInv, Shows
  <2>4. OpenWhileSubscribed'
    BY <1>0, <2>1 DEF TailInv, OpenWhileSubscribed
  <2>. QED  BY <1>2, <2>2, <2>3, <2>4 DEF TailInv
<1>5. ASSUME NEW c \in Conns, SubscribeTail(v, c) PROVE TailInv'
  <2>0. viewer'[v] = [viewer[v] EXCEPT !.phase = "connected", !.conn = c]
    BY <1>0, <1>5 DEF SubscribeTail
  <2>1. /\ ~ Connected(v) /\ subs' = subs \cup {c} /\ conn[c] = FreeConn
        /\ \A d \in Conns \ {c} : conn'[d] = conn[d]
        /\ conn'[c] = [FreeConn EXCEPT !.viewer = v, !.since = viewer[v].since, !.handler = "loop"]
        /\ viewer'[v].phase = "connected" /\ viewer'[v].conn = c
        /\ viewer'[v].since = viewer[v].since /\ viewer'[v].came = viewer[v].came
    <3>1. /\ ~ Connected(v) /\ subs' = subs \cup {c} /\ conn[c] = FreeConn
          /\ \A d \in Conns \ {c} : conn'[d] = conn[d]
          /\ conn'[c] = [FreeConn EXCEPT !.viewer = v, !.since = viewer[v].since, !.handler = "loop"]
      BY <1>0, <1>5 DEF SubscribeTail, Connected
    <3>2. /\ viewer'[v].phase = "connected" /\ viewer'[v].conn = c
          /\ viewer'[v].since = viewer[v].since /\ viewer'[v].came = viewer[v].came
      BY <1>0, <2>0 DEF Page
    <3>. QED  BY <3>1, <3>2
  <2>2. /\ conn'[c].viewer = v /\ conn'[c].since = viewer[v].since /\ conn'[c].handler = "loop"
        /\ ~ conn'[c].gone /\ ~ conn'[c].closed /\ conn[c].viewer = Nil
    BY <2>1 DEF FreeConn
  <2>3. PageOK(v)'
    <3>1. viewer'[v].came = {}
      BY <2>1 DEF TailInv, PageOK
    <3>2. LinkedTo(v, c)'
      BY <2>1, <2>2 DEF LinkedTo
    <3>. QED  BY <2>1, <3>1, <3>2 DEF PageOK, Connected
  <2>4. ASSUME NEW w \in Viewers \ {v} PROVE PageOK(w)'
    <3>1. Connected(w) => viewer[w].conn # c /\ viewer[w].conn \in subs
      BY <1>0, <2>2 DEF TailInv, PageOK, LinkedTo
    <3>. QED  BY <1>0, <1>1, <2>1, <3>1, PageUntouched DEF TailInv, Shows
  <2>5. OpenWhileSubscribed'
    BY <1>0, <2>1, <2>2 DEF TailInv, OpenWhileSubscribed
  <2>. QED  BY <1>2, <2>3, <2>4, <2>5 DEF TailInv
<1>. QED  BY <1>3, <1>4, <1>5

LEMMA RestReaches ==
  ASSUME LiveTailAssumption, TailInv, TailTypeOK',
         TailTick \/ BrokerDies \/ (\E e \in Entries : Log(e)) \/ UNCHANGED tailVars
  PROVE  TailInv'
<1>0. /\ conn \in [Conns -> Channel] /\ subs \subseteq Conns /\ viewer \in [Viewers -> Page]
      /\ stamp \in [Entries -> Stamps] /\ committed \subseteq Entries
      /\ clock \in Time /\ Nil \notin Nat
  BY TypeIsParts DEF TailInv, ConnsTyped, RestTyped, LiveTailAssumption
<1>1. CASE TailTick \/ (\E e \in Entries : Log(e)) \/ UNCHANGED tailVars
  <2>1. /\ UNCHANGED <<committed, ingest, seen, subs, conn, viewer, panicked>>
        /\ \A e \in committed : stamp'[e] = stamp[e]
    BY <1>0, <1>1 DEF TailTick, Log, tailVars, TailInv, Known
  <2>2. \A v \in Viewers : PageOK(v)'
    BY <2>1, PageUntouched DEF TailInv, PageOK, LinkedTo, Shows
  <2>3. OpenWhileSubscribed' /\ Known' /\ NeverSendsOnClosed'
    BY <2>1 DEF TailInv, OpenWhileSubscribed, Known, NeverSendsOnClosed, Underway
  <2>. QED  BY <2>2, <2>3 DEF TailInv
<1>2. CASE BrokerDies
  <2>1. /\ UNCHANGED <<stamp, committed, panicked>> /\ subs' = {} /\ seen' = <<>>
        /\ \A a \in Hosts : ingest'[a] = <<>>
    BY <1>2 DEF BrokerDies
  <2>2. \A v \in Viewers : PageOK(v)'
    <3> SUFFICES ASSUME NEW v \in Viewers PROVE PageOK(v)'
      OBVIOUS
    <3>1. viewer'[v].phase # "connected" /\ viewer'[v].conn = Nil /\ viewer'[v].came = {}
      BY <1>0, <1>2 DEF BrokerDies, Lost, Page, Connected, TailInv, PageOK
    <3>. QED  BY <3>1 DEF PageOK, Connected
  <2>3. \A e : e \notin Underway' /\ ~ Contains(seen', e)
    BY <2>1 DEF Underway, Contains, ToSet
  <2>4. OpenWhileSubscribed' /\ Known' /\ NeverSendsOnClosed'
    BY <2>1, <2>3 DEF TailInv, OpenWhileSubscribed, Known, NeverSendsOnClosed
  <2>. QED  BY <2>2, <2>4 DEF TailInv
<1>. QED  BY <1>1, <1>2

LEMMA CommitReaches ==
  ASSUME LiveTailAssumption, TailInv, TailTypeOK', NEW a \in Hosts, NEW batch \in Batches,
         Commit(a, batch)
  PROVE  TailInv'
<1> DEFINE es    == ToSet(batch)
           fresh == es \ committed
<1>0. /\ viewer \in [Viewers -> Page] /\ ingest \in [Hosts -> Seq(Entries)]
      /\ batch \in Seq(Entries) /\ es \subseteq Entries /\ seen \in Seq(Entries)
  BY TypeIsParts, BatchesAreSequences DEF TailInv, RestTyped, ToSet
<1>1. /\ UNCHANGED <<stamp, seen, subs, conn, panicked>> /\ committed' = committed \cup es
      /\ \A e \in es : stamp[e] # Nil
  BY DEF Commit
<1>2. \A e : e \in Underway' <=> e \in Underway \/ e \in es
  <2>1. ingest[a] = <<>> /\ ingest'[a] = batch /\ \A b \in Hosts \ {a} : ingest'[b] = ingest[b]
    BY <1>0 DEF Commit
  <2>2. ToSet(ingest[a]) = {}
    BY <2>1 DEF ToSet
  <2>. QED  BY <2>1, <2>2 DEF Underway
<1>3. \A v \in Viewers :
        /\ viewer'[v].phase = viewer[v].phase /\ viewer'[v].conn = viewer[v].conn
        /\ viewer'[v].since = viewer[v].since /\ viewer'[v].shown = viewer[v].shown
        /\ viewer'[v].overflow = viewer[v].overflow
        /\ viewer'[v].came = IF Connected(v) THEN viewer[v].came \cup fresh ELSE viewer[v].came
  BY <1>0 DEF Commit, Page
<1>. HIDE DEF es
<1>4. Known' /\ OpenWhileSubscribed' /\ NeverSendsOnClosed'
  BY <1>1, <1>2 DEF TailInv, Known, OpenWhileSubscribed, NeverSendsOnClosed
<1>5. ASSUME NEW v \in Viewers PROVE PageOK(v)'
  <2>1. CASE ~ Connected(v)
    BY <1>3, <2>1 DEF TailInv, PageOK, Connected
  <2>2. CASE Connected(v)
    <3>1. Connected(v)' /\ LinkedTo(v, viewer[v].conn)' /\ viewer'[v].came \subseteq committed'
      BY <1>1, <1>3, <2>2 DEF TailInv, PageOK, LinkedTo, Connected
    <3>2. ASSUME NEW e \in viewer'[v].came \cap WrittenSince(v)' PROVE ReachedBy(v, e)'
      <4>1. CASE e \in viewer[v].came
        <5>1. e \in WrittenSince(v)
          BY <1>1, <1>3 DEF WrittenSince
        <5>2. ReachedBy(v, e)
          BY <2>2, <4>1, <5>1 DEF TailInv, PageOK
        <5>. QED  BY <1>1, <1>2, <1>3, <5>2 DEF ReachedBy
      <4>2. CASE e \notin viewer[v].came
        <5>1. e \in es /\ e \notin committed /\ e \in Entries
          BY <1>0, <1>3, <2>2, <4>2 DEF WrittenSince
        <5>2. ~ Contains(seen, e)
          BY <5>1 DEF TailInv, Known
        <5>. QED  BY <1>1, <1>2, <5>1, <5>2 DEF ReachedBy
      <4>. QED  BY <4>1, <4>2
    <3>. QED  BY <1>3, <3>1, <3>2 DEF PageOK
  <2>. QED  BY <2>1, <2>2
<1>. QED  BY <1>4, <1>5 DEF TailInv

\* The Broker remembers what it publishes, and forgets an older entry at most.
LEMMA Remembered ==
  ASSUME LiveTailAssumption, RestTyped, NEW e \in Entries
  PROVE  /\ Contains(Remember(e), e)
         /\ \A x : Contains(Remember(e), x) => x = e \/ Contains(seen, x)
         /\ Len(seen) < MaxSeen => \A x : Contains(seen, x) => Contains(Remember(e), x)
<1>1. seen \in Seq(Entries) /\ Len(seen) \in Nat /\ MaxSeen \in Nat \ {0}
  BY DEF RestTyped, LiveTailAssumption
<1>2. ASSUME NEW s \in Seq(Entries)
      PROVE  \A x : Contains(Append(s, e), x) <=> x = e \/ Contains(s, x)
  <2>1. /\ Len(Append(s, e)) = Len(s) + 1 /\ Len(s) \in Nat
        /\ \A i \in 1 .. Len(s) : Append(s, e)[i] = s[i]
        /\ Append(s, e)[Len(s) + 1] = e
    OBVIOUS
  <2>2. \A i \in 1 .. Len(s) + 1 : i \in 1 .. Len(s) \/ i = Len(s) + 1
    BY <2>1
  <2>3. 1 .. Len(s) \subseteq 1 .. Len(s) + 1 /\ Len(s) + 1 \in 1 .. Len(s) + 1
    BY <2>1
  <2>. QED  BY <2>1, <2>2, <2>3 DEF Contains
<1>3. CASE Len(seen) >= MaxSeen
  <2>1. /\ seen # <<>> /\ Tail(seen) \in Seq(Entries) /\ Len(Tail(seen)) = Len(seen) - 1
        /\ \A i \in 1 .. Len(seen) - 1 : Tail(seen)[i] = seen[i + 1]
    BY <1>1, <1>3
  <2>2. \A i \in 1 .. Len(seen) - 1 : i + 1 \in 1 .. Len(seen)
    BY <1>1
  <2>3. \A x : Contains(Tail(seen), x) => Contains(seen, x)
    BY <2>1, <2>2 DEF Contains
  <2>4. Remember(e) = Append(Tail(seen), e) /\ ~ (Len(seen) < MaxSeen)
    BY <1>1, <1>3 DEF Remember
  <2>5. \A x : Contains(Append(Tail(seen), e), x) <=> x = e \/ Contains(Tail(seen), x)
    BY <1>2, <2>1
  <2>. QED  BY <2>3, <2>4, <2>5
<1>4. CASE ~ (Len(seen) >= MaxSeen)
  BY <1>1, <1>2, <1>4 DEF Remember
<1>. QED  BY <1>3, <1>4

LEMMA PublishReaches ==
  ASSUME LiveTailAssumption, TailInv, TailTypeOK', NEW a \in Hosts, Publish(a)
  PROVE  TailInv'
<1> DEFINE e      == Head(ingest[a])
           owners == Owners(e)
<1>0. /\ conn \in [Conns -> Channel] /\ subs \subseteq Conns /\ viewer \in [Viewers -> Page]
      /\ ingest \in [Hosts -> Seq(Entries)] /\ ingest[a] \in Seq(Entries) /\ ingest[a] # <<>>
      /\ RestTyped
  BY TypeIsParts DEF TailInv, ConnsTyped, RestTyped, Publish
<1>1. e \in Entries /\ e \in Underway
  <2>1. e = ingest[a][1] /\ 1 \in DOMAIN ingest[a]
    BY <1>0
  <2>. QED  BY <1>0, <2>1 DEF Underway, ToSet
<1>2. \A x : x \in Underway => x = e \/ x \in Underway'
  <2>1. ingest'[a] = Tail(ingest[a]) /\ \A b \in Hosts \ {a} : ingest'[b] = ingest[b]
    BY <1>0 DEF Publish
  <2>2. ASSUME NEW i \in DOMAIN ingest[a], i # 1 PROVE ingest[a][i] \in ToSet(ingest'[a])
    <3>1. i - 1 \in DOMAIN Tail(ingest[a]) /\ Tail(ingest[a])[i - 1] = ingest[a][i]
      BY <1>0, <2>2
    <3>. QED  BY <2>1, <3>1 DEF ToSet
  <2>3. ASSUME NEW x \in ToSet(ingest[a]) PROVE x = e \/ x \in ToSet(ingest'[a])
    <3>1. PICK i \in DOMAIN ingest[a] : ingest[a][i] = x
      BY DEF ToSet
    <3>. QED  BY <1>0, <2>2, <3>1
  <2>. QED  BY <2>1, <2>3 DEF Underway
<1>3. \A x : x \in Underway' => x \in Underway
  <2>1. ingest'[a] = Tail(ingest[a]) /\ \A b \in Hosts \ {a} : ingest'[b] = ingest[b]
    BY <1>0 DEF Publish
  <2>2. ASSUME NEW x \in ToSet(ingest'[a]) PROVE x \in ToSet(ingest[a])
    <3>1. PICK i \in DOMAIN Tail(ingest[a]) : Tail(ingest[a])[i] = x
      BY <2>1 DEF ToSet
    <3>2. i + 1 \in DOMAIN ingest[a] /\ ingest[a][i + 1] = x
      BY <1>0, <3>1
    <3>. QED  BY <3>2 DEF ToSet
  <2>. QED  BY <2>1, <2>2 DEF Underway
<1>. HIDE DEF e
<1>4. \A x : Contains(seen', x) => x = e \/ Contains(seen, x)
  BY <1>0, <1>1, Remembered DEF Publish, e
<1>5. /\ UNCHANGED <<stamp, committed, subs>>
      /\ panicked' = (panicked \/ \E c \in owners : conn[c].closed)
      /\ \A c \in Conns :
           conn'[c] = IF c \in owners /\ ~ Full(c)
                      THEN [conn[c] EXCEPT !.buf = Append(@, e), !.had = @ \cup {e}] ELSE conn[c]
      /\ \A v \in Viewers :
           viewer'[v] = IF viewer[v].conn \in owners /\ Full(viewer[v].conn)
                        THEN [viewer[v] EXCEPT !.overflow = @ \cup {e}] ELSE viewer[v]
  BY DEF Publish, e
<1>6. \A c \in Conns : /\ conn'[c].closed = conn[c].closed /\ conn'[c].viewer = conn[c].viewer
                       /\ conn'[c].since = conn[c].since /\ conn'[c].gone = conn[c].gone
                       /\ conn'[c].handler = conn[c].handler
  <2> SUFFICES ASSUME NEW c \in Conns, c \in owners, ~ Full(c)
               PROVE  /\ conn'[c].closed = conn[c].closed /\ conn'[c].viewer = conn[c].viewer
                      /\ conn'[c].since = conn[c].since /\ conn'[c].gone = conn[c].gone
                      /\ conn'[c].handler = conn[c].handler
    BY <1>5
  <2>1. conn'[c] = [conn[c] EXCEPT !.buf = Append(@, e), !.had = @ \cup {e}]
    BY <1>5
  <2>2. conn[c] \in Channel
    BY <1>0
  <2>. QED  BY ONLY <2>1, <2>2 DEF Channel
<1>7. \A c \in Conns : /\ \A x : Contains(conn[c].buf, x) => Contains(conn'[c].buf, x)
                       /\ c \in owners /\ ~ Full(c) => Contains(conn'[c].buf, e)
  <2> SUFFICES ASSUME NEW c \in Conns, c \in owners, ~ Full(c)
               PROVE  /\ \A x : Contains(conn[c].buf, x) => Contains(conn'[c].buf, x)
                      /\ Contains(conn'[c].buf, e)
    BY <1>5
  <2>1. conn[c].buf \in Seq(Entries) /\ conn'[c].buf = Append(conn[c].buf, e)
    <3>1. conn'[c] = [conn[c] EXCEPT !.buf = Append(@, e), !.had = @ \cup {e}]
      BY <1>5
    <3>2. conn[c] \in Channel
      BY <1>0
    <3>. QED  BY ONLY <3>1, <3>2 DEF Channel
  <2>2. /\ Len(conn'[c].buf) = Len(conn[c].buf) + 1 /\ Len(conn[c].buf) \in Nat
        /\ \A i \in 1 .. Len(conn[c].buf) : conn'[c].buf[i] = conn[c].buf[i]
        /\ conn'[c].buf[Len(conn[c].buf) + 1] = e
    BY <1>1, <2>1
  <2>3. /\ 1 .. Len(conn[c].buf) \subseteq 1 .. Len(conn'[c].buf)
        /\ Len(conn[c].buf) + 1 \in 1 .. Len(conn'[c].buf)
    BY <2>2
  <2>. QED  BY <2>2, <2>3 DEF Contains
<1>8. \A v \in Viewers :
        /\ viewer'[v].phase = viewer[v].phase /\ viewer'[v].conn = viewer[v].conn
        /\ viewer'[v].since = viewer[v].since /\ viewer'[v].shown = viewer[v].shown
        /\ viewer'[v].came = viewer[v].came
        /\ viewer[v].overflow \subseteq viewer'[v].overflow
        /\ viewer[v].conn \in owners /\ Full(viewer[v].conn) => e \in viewer'[v].overflow
  <2> SUFFICES ASSUME NEW v \in Viewers
               PROVE  /\ viewer'[v].phase = viewer[v].phase /\ viewer'[v].conn = viewer[v].conn
                      /\ viewer'[v].since = viewer[v].since /\ viewer'[v].shown = viewer[v].shown
                      /\ viewer'[v].came = viewer[v].came
                      /\ viewer[v].overflow \subseteq viewer'[v].overflow
                      /\ viewer[v].conn \in owners /\ Full(viewer[v].conn) =>
                           e \in viewer'[v].overflow
    OBVIOUS
  <2>1. CASE viewer[v].conn \in owners /\ Full(viewer[v].conn)
    <3>1. viewer'[v] = [viewer[v] EXCEPT !.overflow = @ \cup {e}]
      BY <1>5, <2>1
    <3>2. viewer[v] \in Page
      BY <1>0
    <3>. QED  BY ONLY <3>1, <3>2 DEF Page
  <2>2. CASE ~ (viewer[v].conn \in owners /\ Full(viewer[v].conn))
    BY <1>5, <2>2
  <2>. QED  BY <2>1, <2>2
<1>9. NeverSendsOnClosed' /\ OpenWhileSubscribed' /\ Known'
  <2>1. NeverSendsOnClosed'
    BY <1>5 DEF TailInv, NeverSendsOnClosed, OpenWhileSubscribed, Owners
  <2>2. OpenWhileSubscribed'
    BY <1>0, <1>5, <1>6 DEF TailInv, OpenWhileSubscribed
  <2>3. Known'
    BY <1>1, <1>3, <1>4, <1>5 DEF TailInv, Known
  <2>. QED  BY <2>1, <2>2, <2>3
<1>10. ASSUME NEW v \in Viewers PROVE PageOK(v)'
  <2>1. CASE ~ Connected(v)
    BY <1>8, <2>1 DEF TailInv, PageOK, Connected
  <2>2. CASE Connected(v)
    <3>0. viewer[v].conn \in Conns
      BY <1>0, <2>2 DEF TailInv, PageOK, LinkedTo
    <3>. PICK c \in Conns : c = viewer[v].conn
      BY <3>0
    <3>1. LinkedTo(v, c)
      BY <2>2 DEF TailInv, PageOK
    <3>2. /\ viewer'[v].conn = c /\ Connected(v)' /\ LinkedTo(v, viewer[v].conn)'
          /\ viewer'[v].came \subseteq committed'
      <4>1. viewer'[v].conn = c /\ Connected(v)'
        BY <1>8, <2>2 DEF Connected
      <4>2. viewer[v].came \subseteq committed
        BY <2>2 DEF TailInv, PageOK
      <4>3. LinkedTo(v, c)'
        BY <1>5, <1>6, <1>8, <3>1 DEF LinkedTo
      <4>. QED  BY <1>5, <1>8, <4>1, <4>2, <4>3
    <3>3. ASSUME NEW x \in viewer'[v].came \cap WrittenSince(v)' PROVE ReachedBy(v, x)'
      <4>1. x \in viewer[v].came \cap WrittenSince(v)
        BY <1>5, <1>8 DEF WrittenSince
      <4>2. ReachedBy(v, x)
        BY <2>2, <4>1 DEF TailInv, PageOK
      <4>3. CASE x \in viewer[v].shown \cup viewer[v].overflow \/ Contains(conn[c].buf, x)
        BY <1>7, <1>8, <3>1, <4>3 DEF ReachedBy
      <4>4. CASE x \in Underway /\ ~ Contains(seen, x) /\ x # e
        BY <1>2, <1>4, <4>4 DEF ReachedBy
      <4>5. CASE x \in Underway /\ ~ Contains(seen, x) /\ x = e
        <5>1. c \in owners
          BY <3>1, <4>1, <4>5 DEF Owners, Matches, LinkedTo, WrittenSince
        <5>. QED  BY <1>7, <1>8, <3>1, <4>5, <5>1 DEF ReachedBy
      <4>. QED  BY <4>2, <4>3, <4>4, <4>5 DEF ReachedBy
    <3>. QED  BY <1>8, <3>2, <3>3 DEF PageOK
  <2>. QED  BY <2>1, <2>2
<1>. QED  BY <1>9, <1>10 DEF TailInv

LEMMA TailStep == ASSUME LiveTailAssumption, TailInv, [TailNext]_tailVars PROVE TailInv'
<1>1. TailTypeOK'
  BY TypeOKStep DEF TailInv
<1>. QED  BY <1>1, CommitReaches, PublishReaches, EndsReach, TakeReaches, PageReaches,
            RestReaches DEF TailNext, Handler

LEMMA TailInvInit == ASSUME LiveTailAssumption, TailInit PROVE TailInv
<1>1. TailTypeOK
  BY TypeOKInit
<1>2. \A v \in Viewers : PageOK(v)
  BY DEF TailInit, NewPage, PageOK, Connected
<1>3. \A e : e \notin Underway /\ ~ Contains(seen, e)
  BY DEF TailInit, Underway, ToSet, Contains
<1>. QED  BY <1>1, <1>2, <1>3 DEF TailInit, TailInv, NeverSendsOnClosed, OpenWhileSubscribed, Known

\* What a page has been sent, or is on its way to it, as the property says it.
LEMMA ReachedHas ==
  ASSUME NEW v, NEW e, ReachedBy(v, e)
  PROVE  e \in Has(v)
BY DEF ReachedBy, Has, Contains, ToSet

\* No goroutine of the Hub sends to a channel that is closed, and what is written
\* after the search and committed while the page is connected reaches it, unless
\* its channel is full (Ingest, Publish, handleTail, closeSubscription).
THEOREM TailIsSound == LiveTailAssumption => (TailSpec => []TailSound)
<1>. SUFFICES ASSUME LiveTailAssumption PROVE TailSpec => []TailSound
  OBVIOUS
<1>1. TailInit => TailInv
  BY TailInvInit
<1>2. TailInv /\ [TailNext]_tailVars => TailInv'
  BY TailStep
<1>3. TailInv => TailSound
  BY ReachedHas DEF TailInv, TailSound, RecentReach, PageOK
<1>. QED  BY <1>1, <1>2, <1>3, PTL DEF TailSpec

-----------------------------------------------------------------------------
(***************************************************************************)
(* A page is sent an entry once in a connection.                           *)
(***************************************************************************)
Distinct(s) == \A i, j \in 1 .. Len(s) : s[i] = s[j] => i = j

\* The Broker can remember every entry there is.
Roomy == Cardinality(Entries) <= MaxSeen

\* It remembers what it gave to a channel.
Recalls == Distinct(seen) /\ \A c \in Conns : \A e \in conn[c].had : Contains(seen, e)

OnceInv == TailTypeOK /\ (Roomy => Recalls)

\* A step that gives no channel anything.
Quiet ==
  \/ /\ seen' = seen
     /\ \A c \in Conns : conn'[c].had \subseteq conn[c].had /\ Len(conn'[c].buf) <= Len(conn[c].buf)
  \/ seen' = <<>> /\ \A c \in Conns : conn'[c].had = {} /\ conn'[c].buf = <<>>

\* What the Broker remembers is full only when nothing is left to remember.
LEMMA RoomForOneMore ==
  ASSUME LiveTailAssumption, Roomy, NEW s \in Seq(Entries), Distinct(s),
         NEW e \in Entries, ~ Contains(s, e)
  PROVE  Len(s) < MaxSeen
<1> DEFINE n == Len(s)
           f == [i \in 1 .. n + 1 |-> IF i = n + 1 THEN e ELSE s[i]]
<1>1. n \in Nat /\ MaxSeen \in Nat /\ IsFiniteSet(Entries) /\ Cardinality(Entries) \in Nat
  BY FS_CardinalityType DEF LiveTailAssumption
<1>2. f \in [1 .. n + 1 -> Entries]
  BY <1>1
<1>3. ASSUME NEW i \in 1 .. n + 1, NEW j \in 1 .. n + 1, f[i] = f[j] PROVE i = j
  <2>1. \A k \in 1 .. n + 1 : k # n + 1 => k \in 1 .. n
    BY <1>1
  <2>2. \A k \in 1 .. n : s[k] # e
    BY DEF Contains
  <2>. QED  BY <1>3, <2>1, <2>2 DEF Distinct
<1>4. IsFiniteSet(1 .. n + 1) /\ Cardinality(1 .. n + 1) = n + 1
  <2>1. 1 \in Int /\ n + 1 \in Int /\ ~ (1 > n + 1) /\ (n + 1) - 1 + 1 = n + 1
    BY <1>1
  <2>. QED  BY ONLY <2>1, FS_Interval
<1>. HIDE DEF f, n
<1>5. ~ (Cardinality(1 .. n + 1) > Cardinality(Entries))
  <2>. SUFFICES ASSUME Cardinality(1 .. n + 1) > Cardinality(Entries) PROVE FALSE
    OBVIOUS
  <2>1. \E x, y \in 1 .. n + 1 : x # y /\ f[x] = f[y]
    BY <1>1, <1>2, <1>4, FS_PigeonHole
  <2>. QED  BY <1>3, <2>1
<1>. QED  BY <1>1, <1>4, <1>5 DEF Roomy, n

\* Publish: what it sends is new to the Broker, which forgets nothing.
LEMMA PublishIsNew ==
  ASSUME LiveTailAssumption, Roomy, TailTypeOK, Recalls, NEW a \in Hosts, Publish(a)
  PROVE  /\ Recalls'
         /\ \A c \in Conns : Len(conn'[c].buf) > Len(conn[c].buf) =>
                               Last(conn'[c].buf) \notin conn[c].had
<1>0. /\ conn \in [Conns -> Channel] /\ ingest[a] \in Seq(Entries) /\ ingest[a] # <<>>
      /\ seen \in Seq(Entries) /\ RestTyped
  BY TypeIsParts DEF ConnsTyped, RestTyped, Publish
<1>1. PICK e \in Entries : e = Head(ingest[a])
  BY <1>0
<1>2. /\ seen' = IF Contains(seen, e) THEN seen ELSE Remember(e)
      /\ \A c \in Conns :
           conn'[c] = IF c \in Owners(e) /\ ~ Full(c)
                      THEN [conn[c] EXCEPT !.buf = Append(@, e), !.had = @ \cup {e}] ELSE conn[c]
  BY <1>1 DEF Publish
<1>3. ASSUME NEW c \in Conns, ~ (c \in Owners(e) /\ ~ Full(c)) PROVE conn'[c] = conn[c]
  BY <1>2, <1>3
<1>4. ASSUME NEW c \in Conns, c \in Owners(e), ~ Full(c)
      PROVE  /\ conn'[c].had = conn[c].had \cup {e} /\ ~ Contains(seen, e)
             /\ conn[c].buf \in Seq(Entries) /\ conn'[c].buf = Append(conn[c].buf, e)
  <2>1. conn'[c] = [conn[c] EXCEPT !.buf = Append(@, e), !.had = @ \cup {e}]
    BY <1>2, <1>4
  <2>2. conn[c] \in Channel
    BY <1>0
  <2>3. ~ Contains(seen, e)
    BY <1>4 DEF Owners
  <2>4. conn'[c].had = conn[c].had \cup {e} /\ conn[c].buf \in Seq(Entries)
        /\ conn'[c].buf = Append(conn[c].buf, e)
    BY ONLY <2>1, <2>2 DEF Channel
  <2>. QED  BY <2>3, <2>4
<1>5. CASE Contains(seen, e)
  <2>1. seen' = seen /\ \A c \in Conns : conn'[c] = conn[c]
    BY <1>2, <1>3, <1>5 DEF Owners
  <2>2. \A c \in Conns : ~ (Len(conn'[c].buf) > Len(conn[c].buf))
    <3> SUFFICES ASSUME NEW c \in Conns PROVE ~ (Len(conn[c].buf) > Len(conn[c].buf))
      BY <2>1
    <3>1. Len(conn[c].buf) \in Nat
      BY <1>0 DEF Channel
    <3>. QED  BY <3>1
  <2>. QED  BY <2>1, <2>2 DEF Recalls, Distinct
<1>6. CASE ~ Contains(seen, e)
  <2>1. Len(seen) < MaxSeen /\ Len(seen) \in Nat /\ MaxSeen \in Nat
    BY <1>0, <1>6, RoomForOneMore DEF Recalls, LiveTailAssumption
  <2>2. seen' = Append(seen, e)
    <3>1. ~ (Len(seen) >= MaxSeen)
      BY <2>1
    <3>. QED  BY <1>2, <1>6, <3>1 DEF Remember
  <2>3. Contains(seen', e) /\ \A x : Contains(seen, x) => Contains(seen', x)
    BY <1>0, <1>2, <1>6, <2>1, Remembered
  <2>4. Distinct(seen')
    <3>1. /\ Len(seen') = Len(seen) + 1 /\ seen'[Len(seen) + 1] = e
          /\ \A i \in 1 .. Len(seen) : seen'[i] = seen[i] /\ seen[i] # e
      BY <1>0, <1>6, <2>2 DEF Contains
    <3>2. \A i \in 1 .. Len(seen') : i \in 1 .. Len(seen) \/ i = Len(seen) + 1
      BY <2>1, <3>1
    <3>. QED  BY <3>1, <3>2 DEF Recalls, Distinct
  <2>5. \A c \in Conns : \A x \in conn'[c].had : Contains(seen', x)
    <3> SUFFICES ASSUME NEW c \in Conns, NEW x \in conn'[c].had PROVE Contains(seen', x)
      OBVIOUS
    <3>1. x = e \/ x \in conn[c].had
      BY <1>3, <1>4
    <3>. QED  BY <2>3, <3>1 DEF Recalls
  <2>6. ASSUME NEW c \in Conns, Len(conn'[c].buf) > Len(conn[c].buf)
        PROVE  Last(conn'[c].buf) \notin conn[c].had
    <3>1. c \in Owners(e) /\ ~ Full(c)
      <4>1. Len(conn[c].buf) \in Nat
        BY <1>0 DEF Channel
      <4>. QED  BY <1>3, <2>6, <4>1
    <3>2. Last(conn'[c].buf) = e
      <4>1. conn[c].buf \in Seq(Entries) /\ conn'[c].buf = Append(conn[c].buf, e)
        BY <1>4, <3>1
      <4>. QED  BY ONLY <4>1, e \in Entries DEF Last
    <3>. QED  BY <1>6, <3>2 DEF Recalls
  <2>. QED  BY <2>4, <2>5, <2>6 DEF Recalls, Distinct
<1>. QED  BY <1>5, <1>6

LEMMA OthersAreQuiet ==
  ASSUME LiveTailAssumption, TailTypeOK, [TailNext]_tailVars, ~ \E a \in Hosts : Publish(a)
  PROVE  Quiet
<1>0. conn \in [Conns -> Channel] /\ \A c \in Conns : conn[c].buf \in Seq(Entries)
  BY TypeIsParts DEF ConnsTyped, Channel
<1>1. CASE BrokerDies
  BY <1>1 DEF BrokerDies, Quiet, FreeConn
<1>2. CASE seen' = seen /\ conn' = conn
  <2>1. \A c \in Conns : Len(conn[c].buf) <= Len(conn[c].buf)
    BY <1>0
  <2>. QED  BY <1>2, <2>1 DEF Quiet
<1>3. ASSUME NEW c \in Conns,
             Take(c) \/ Quit(c) \/ CloseChannel(c) \/ Release(c)
               \/ (\E v \in Viewers : SubscribeTail(v, c))
               \/ (\E v \in Viewers : viewer[v].conn = c /\ Hangup(v) /\ UNCHANGED seen)
      PROVE  Quiet
  <2>1. seen' = seen /\ \A d \in Conns \ {c} : conn'[d] = conn[d]
    BY <1>0, <1>3 DEF Take, Quit, CloseChannel, Release, SubscribeTail, Hangup
  <2>2. conn'[c].had \subseteq conn[c].had /\ Len(conn'[c].buf) <= Len(conn[c].buf)
    <3>0. conn[c] \in Channel /\ Len(conn[c].buf) \in Nat
      BY <1>0
    <3>1. CASE Take(c)
      <4>1. conn'[c].had = conn[c].had /\ conn'[c].buf = Tail(conn[c].buf) /\ conn[c].buf # <<>>
        <5>1. PICK how \in {"loop", "ended"} :
                conn' = [conn EXCEPT ![c] = [Received(c) EXCEPT !.handler = how]]
          <6>1. conn[c].handler = "loop" /\ Received(c) = [Received(c) EXCEPT !.handler = "loop"]
            BY <1>0, <3>1 DEF Take, Received, Channel
          <6>. QED  BY <3>1, <6>1 DEF Take
        <5>. QED  BY <1>0, <3>1, <5>1 DEF Take, Received, Channel
      <4>. QED  BY <1>0, <4>1
    <3>2. CASE Release(c) \/ \E v \in Viewers : SubscribeTail(v, c)
      <4>1. conn'[c].had = {} /\ conn'[c].buf = <<>>
        <5>1. CASE Release(c)
          BY <1>0, <5>1 DEF Release, FreeConn
        <5>2. ASSUME NEW v \in Viewers, SubscribeTail(v, c)
              PROVE  conn'[c].had = {} /\ conn'[c].buf = <<>>
          <6>1. conn'[c] = [FreeConn EXCEPT !.viewer = v, !.since = viewer[v].since,
                                        !.handler = "loop"]
            BY <1>0, <5>2 DEF SubscribeTail
          <6>. QED  BY <6>1 DEF FreeConn
        <5>. QED  BY <3>2, <5>1, <5>2
      <4>. QED  BY <3>0, <4>1
    <3>3. CASE Quit(c) \/ CloseChannel(c)
                 \/ \E v \in Viewers : viewer[v].conn = c /\ Hangup(v) /\ UNCHANGED seen
      <4>1. conn'[c].had = conn[c].had /\ conn'[c].buf = conn[c].buf
        <5>1. \/ conn'[c] = [conn[c] EXCEPT !.handler = "ended"]
              \/ conn'[c] = [conn[c] EXCEPT !.closed = TRUE]
              \/ conn'[c] = [conn[c] EXCEPT !.gone = TRUE]
          BY <1>0, <3>3 DEF Quit, CloseChannel, Hangup
        <5>. QED  BY <3>0, <5>1 DEF Channel
      <4>. QED  BY <3>0, <4>1
    <3>. QED  BY <1>3, <3>1, <3>2, <3>3
  <2>3. \A d \in Conns \ {c} : Len(conn[d].buf) <= Len(conn[d].buf)
    BY <1>0
  <2>. QED  BY <2>1, <2>2, <2>3 DEF Quiet
<1>4. ASSUME NEW v \in Viewers, Drop(v) \/ CloseTail(v) PROVE Quiet
  <2>1. CASE viewer[v].conn \in Conns
    BY <1>3, <1>4, <2>1 DEF Drop, CloseTail
  <2>2. CASE viewer[v].conn \notin Conns
    <3>1. seen' = seen /\ conn' = conn
      BY <1>0, <1>4, <2>2 DEF Drop, CloseTail, Hangup
    <3>. QED  BY <1>2, <3>1
  <2>. QED  BY <2>1, <2>2
<1>. QED  BY <1>1, <1>2, <1>3, <1>4
     DEF TailNext, Handler, TailTick, Log, Commit, Search, AnswerSearch, Unsubscribe, tailVars

LEMMA OnceStep == ASSUME LiveTailAssumption, OnceInv, [TailNext]_tailVars PROVE OnceInv'
<1>1. TailTypeOK'
  BY TypeOKStep DEF OnceInv
<1>2. ASSUME Roomy, Recalls PROVE Recalls'
  <2>1. CASE \E a \in Hosts : Publish(a)
    BY <1>2, <2>1, PublishIsNew DEF OnceInv
  <2>2. CASE Quiet
    BY <1>2, <2>2 DEF Quiet, Recalls, Distinct
  <2>. QED  BY <2>1, <2>2, OthersAreQuiet DEF OnceInv
<1>. QED  BY <1>1, <1>2 DEF OnceInv, Roomy

\* A page is sent an entry once in a connection, although an Agent delivers it
\* again in another batch, as long as the Broker can remember every entry (Publish).
THEOREM EntrySentOnce == LiveTailAssumption => (TailSpec => SentOnce)
<1>. SUFFICES ASSUME LiveTailAssumption PROVE TailSpec => SentOnce
  OBVIOUS
<1>1. TailInit => OnceInv
  <2> SUFFICES ASSUME TailInit PROVE OnceInv
    OBVIOUS
  <2>1. seen = <<>> /\ \A c \in Conns : conn[c].had = {}
    BY DEF TailInit, FreeConn
  <2>. QED  BY <2>1, TypeOKInit DEF OnceInv, Recalls, Distinct
<1>2. OnceInv /\ [TailNext]_tailVars => OnceInv'
  BY OnceStep
<1>3. OnceInv /\ [TailNext]_tailVars =>
        [Roomy => \A c \in Conns : Len(conn'[c].buf) > Len(conn[c].buf) =>
                                     Last(conn'[c].buf) \notin conn[c].had]_tailVars
  <2> SUFFICES ASSUME OnceInv, [TailNext]_tailVars, Roomy,
                      NEW c \in Conns, Len(conn'[c].buf) > Len(conn[c].buf)
               PROVE  Last(conn'[c].buf) \notin conn[c].had
    OBVIOUS
  <2>1. Len(conn[c].buf) \in Nat
    BY TypeIsParts DEF OnceInv, ConnsTyped, Channel
  <2>2. ~ Quiet
    <3>1. ~ (Len(conn'[c].buf) <= Len(conn[c].buf)) \/ conn'[c].buf # <<>>
      BY <2>1
    <3>2. conn'[c].buf # <<>>
      BY <2>1
    <3>3. Len(conn'[c].buf) \in Nat
      BY TypeIsParts, OnceStep DEF OnceInv, ConnsTyped, Channel
    <3>. QED  BY <2>1, <3>2, <3>3 DEF Quiet
  <2>. QED  BY <2>2, PublishIsNew, OthersAreQuiet DEF OnceInv
<1>. QED  BY <1>1, <1>2, <1>3, PTL DEF TailSpec, SentOnce, Roomy

-----------------------------------------------------------------------------
(***************************************************************************)
(* The pages of a walk are those of one list, for any entries, any times   *)
(* among them, and any sizes of chunks, searches and pages.                *)
(*                                                                         *)
(* The first part is about the order of IsAfterCursor: the number of       *)
(* entries that come before one ranks a finite set, so that its first n    *)
(* are n entries, and what follows them comes later.                       *)
(***************************************************************************)

LEMMA AfterIsOrder ==
  ASSUME PaginationAssumption, NEW sort, NEW d \in Rows, NEW e \in Rows, NEW f \in Rows
  PROVE  /\ ~IsAfterCursor(e, e, sort)
         /\ IsAfterCursor(e, d, sort) => ~IsAfterCursor(d, e, sort)
         /\ IsAfterCursor(e, d, sort) /\ IsAfterCursor(f, e, sort) => IsAfterCursor(f, d, sort)
         /\ d # e => IsAfterCursor(e, d, sort) \/ IsAfterCursor(d, e, sort)
<1>1. Stamp[d] \in Nat /\ Stamp[e] \in Nat /\ Stamp[f] \in Nat
  BY DEF PaginationAssumption
<1>2. Id[d] \in Nat /\ Id[e] \in Nat /\ Id[f] \in Nat /\ (d # e => Id[d] # Id[e])
  BY DEF PaginationAssumption
<1>3. QED
  BY <1>1, <1>2 DEF IsAfterCursor

Rank(e, S, sort) == Cardinality(Earlier(e, S, sort))

LEMMA RankIsOrder ==
  ASSUME PaginationAssumption, NEW sort, NEW S \in SUBSET Rows
  PROVE  /\ IsFiniteSet(S) /\ Cardinality(S) \in Nat
         /\ \A e \in S : Rank(e, S, sort) \in 0 .. Cardinality(S) - 1
         /\ \A d, e \in S : IsAfterCursor(e, d, sort) <=> Rank(d, S, sort) < Rank(e, S, sort)
<1>1. IsFiniteSet(S) /\ Cardinality(S) \in Nat
  BY FS_Subset, FS_CardinalityType DEF PaginationAssumption
<1>2. ASSUME NEW e \in S
      PROVE  Rank(e, S, sort) \in 0 .. Cardinality(S) - 1 /\ IsFiniteSet(Earlier(e, S, sort))
  <2>1. Earlier(e, S, sort) \in SUBSET (S \ {e})
    BY AfterIsOrder DEF Earlier
  <2>2. IsFiniteSet(S \ {e}) /\ Cardinality(S \ {e}) = Cardinality(S) - 1
    BY <1>1, FS_RemoveElement
  <2>3. /\ IsFiniteSet(Earlier(e, S, sort))
        /\ Cardinality(Earlier(e, S, sort)) <= Cardinality(S) - 1
        /\ Cardinality(Earlier(e, S, sort)) \in Nat
    BY <2>1, <2>2, FS_Subset, FS_CardinalityType
  <2>4. QED
    BY <1>1, <2>3 DEF Rank
<1>3. ASSUME NEW d \in S, NEW e \in S, IsAfterCursor(e, d, sort)
      PROVE  Rank(d, S, sort) < Rank(e, S, sort)
  <2>1. Earlier(d, S, sort) \in SUBSET Earlier(e, S, sort)
    BY <1>3, AfterIsOrder DEF Earlier
  <2>2. d \in Earlier(e, S, sort) /\ d \notin Earlier(d, S, sort)
    BY <1>3, AfterIsOrder DEF Earlier
  <2>3. /\ Cardinality(Earlier(d, S, sort)) <= Cardinality(Earlier(e, S, sort))
        /\ Cardinality(Earlier(d, S, sort)) # Cardinality(Earlier(e, S, sort))
    BY <1>2, <2>1, <2>2, FS_Subset
  <2>4. Rank(d, S, sort) \in Nat /\ Rank(e, S, sort) \in Nat
    BY <1>1, <1>2
  <2>5. QED
    BY <2>3, <2>4 DEF Rank
<1>4. ASSUME NEW d \in S, NEW e \in S, ~IsAfterCursor(e, d, sort)
      PROVE  ~(Rank(d, S, sort) < Rank(e, S, sort))
  <2>1. Rank(d, S, sort) \in Nat /\ Rank(e, S, sort) \in Nat
    BY <1>1, <1>2
  <2>2. CASE d = e
    BY <2>1, <2>2
  <2>3. CASE d # e
    <3>1. IsAfterCursor(d, e, sort)
      BY <1>4, <2>3, AfterIsOrder
    <3>2. QED
      BY <1>3, <2>1, <3>1
  <2>4. QED
    BY <2>2, <2>3
<1>5. QED
  BY <1>1, <1>2, <1>3, <1>4

\* Each place from the first to the last is somebody's.
LEMMA RankIsPlace ==
  ASSUME PaginationAssumption, NEW sort, NEW S \in SUBSET Rows,
         NEW k \in 0 .. Cardinality(S) - 1
  PROVE  \E e \in S : Rank(e, S, sort) = k
<1> DEFINE rank == [e \in S |-> Rank(e, S, sort)]
           T == 0 .. Cardinality(S) - 1
<1>1. IsFiniteSet(S) /\ Cardinality(S) \in Nat
  BY RankIsOrder
<1>2. IsFiniteSet(T) /\ Cardinality(T) = Cardinality(S)
  <2>1. 0 \in Int /\ Cardinality(S) - 1 \in Int
    BY <1>1
  <2>2. /\ IsFiniteSet(T)
        /\ Cardinality(T) = IF 0 > Cardinality(S) - 1 THEN 0 ELSE (Cardinality(S) - 1) - 0 + 1
    BY ONLY <2>1, FS_Interval
  <2>3. QED
    BY <1>1, <2>2
<1>3. rank \in [S -> T]
  BY RankIsOrder
<1>4. \A d, e \in S : rank[d] = rank[e] => d = e
  <2> SUFFICES ASSUME NEW d \in S, NEW e \in S, rank[d] = rank[e], d # e PROVE FALSE
    OBVIOUS
  <2>1. Rank(d, S, sort) = Rank(e, S, sort) /\ Rank(d, S, sort) \in Int
    BY RankIsOrder
  <2>2. Rank(d, S, sort) < Rank(e, S, sort) \/ Rank(e, S, sort) < Rank(d, S, sort)
    BY AfterIsOrder, RankIsOrder
  <2>3. QED
    BY <2>1, <2>2
<1> HIDE DEF rank, T
<1>5. rank \in Injection(S, T)
  BY <1>3, <1>4 DEF Injection, IsInjective
<1>6. rank \in Surjection(S, T)
  BY <1>1, <1>2, <1>5, FS_Injection
<1>7. \E e \in S : rank[e] = k
  BY <1>6 DEF Surjection, T
<1>8. QED
  BY <1>7 DEF rank

LEMMA FinalIsLast ==
  ASSUME PaginationAssumption, NEW sort, NEW S \in SUBSET Rows, S # {}
  PROVE  /\ Final(S, sort) \in S
         /\ \A d \in S : d = Final(S, sort) \/ IsAfterCursor(Final(S, sort), d, sort)
<1>1. IsFiniteSet(S) /\ Cardinality(S) \in Nat /\ Cardinality(S) # 0
  BY RankIsOrder, FS_EmptySet
<1>2. PICK e \in S : Rank(e, S, sort) = Cardinality(S) - 1
  <2>1. Cardinality(S) - 1 \in 0 .. Cardinality(S) - 1
    BY <1>1
  <2>2. QED
    BY <2>1, RankIsPlace
<1>3. \A d \in S : d = e \/ IsAfterCursor(e, d, sort)
  <2> SUFFICES ASSUME NEW d \in S, d # e, ~IsAfterCursor(e, d, sort) PROVE FALSE
    OBVIOUS
  <2>1. IsAfterCursor(d, e, sort)
    BY AfterIsOrder
  <2>2. Rank(e, S, sort) < Rank(d, S, sort) /\ Rank(d, S, sort) \in 0 .. Cardinality(S) - 1
    BY <2>1, RankIsOrder
  <2>3. QED
    BY <1>1, <1>2, <2>2
<1>4. QED
  BY <1>3 DEF Final

LEMMA FirstIsPrefix ==
  ASSUME PaginationAssumption, NEW sort, NEW S \in SUBSET Rows, NEW n \in Nat
  PROVE  /\ First(n, S, sort) \in SUBSET S
         /\ Cardinality(S) <= n => First(n, S, sort) = S
         /\ \A d \in First(n, S, sort), e \in S \ First(n, S, sort) : IsAfterCursor(e, d, sort)
<1>1. First(n, S, sort) = {e \in S : Rank(e, S, sort) < n}
  BY DEF First, Rank
<1>2. Cardinality(S) \in Nat
  BY RankIsOrder
<1>3. ASSUME Cardinality(S) <= n, NEW e \in S PROVE Rank(e, S, sort) < n
  BY <1>2, <1>3, RankIsOrder
<1>4. ASSUME NEW d \in S, NEW e \in S, Rank(d, S, sort) < n, ~(Rank(e, S, sort) < n)
      PROVE  IsAfterCursor(e, d, sort)
  <2>1. Rank(d, S, sort) \in Int /\ Rank(e, S, sort) \in Int
    BY RankIsOrder
  <2>2. Rank(d, S, sort) < Rank(e, S, sort)
    BY <1>4, <2>1
  <2>3. QED
    BY <2>2, RankIsOrder
<1>5. QED
  BY <1>1, <1>3, <1>4

LEMMA FirstIsMany ==
  ASSUME PaginationAssumption, NEW sort, NEW S \in SUBSET Rows, NEW n \in Nat
  PROVE  Cardinality(First(n, S, sort)) = IF Cardinality(S) <= n THEN Cardinality(S) ELSE n
<1>1. CASE Cardinality(S) <= n
  BY <1>1, FirstIsPrefix
<1>2. CASE ~(Cardinality(S) <= n)
  <2> DEFINE F == First(n, S, sort)
             rank == [e \in F |-> Rank(e, S, sort)]
             T == 0 .. n - 1
  <2>1. Cardinality(S) \in Nat /\ IsFiniteSet(S)
    BY RankIsOrder
  <2>2. F = {e \in S : Rank(e, S, sort) < n}
    BY DEF First, Rank
  <2>3. \A e \in F : rank[e] \in T
    BY <2>1, <2>2, RankIsOrder
  <2>4. ASSUME NEW d \in F, NEW e \in F, rank[d] = rank[e] PROVE d = e
    <3>1. d \in S /\ e \in S /\ Rank(d, S, sort) = Rank(e, S, sort) /\ Rank(d, S, sort) \in Int
      BY <2>2, <2>4, RankIsOrder
    <3>2. ~IsAfterCursor(e, d, sort) /\ ~IsAfterCursor(d, e, sort)
      BY <3>1, RankIsOrder
    <3>3. QED
      BY <3>1, <3>2, AfterIsOrder
  <2>5. ASSUME NEW k \in T PROVE \E e \in F : rank[e] = k
    <3>1. k \in 0 .. Cardinality(S) - 1 /\ k < n
      BY <1>2, <2>1
    <3>2. PICK e \in S : Rank(e, S, sort) = k
      BY <3>1, RankIsPlace
    <3>3. QED
      BY <2>2, <3>1, <3>2
  <2>6. F \in SUBSET S
    BY <2>2
  <2>7. IsFiniteSet(F)
    BY <2>1, <2>6, FS_Subset
  <2>8. IsFiniteSet(T) /\ Cardinality(T) = n
    <3>1. 0 \in Int /\ n - 1 \in Int
      OBVIOUS
    <3>2. IsFiniteSet(T) /\ Cardinality(T) = IF 0 > n - 1 THEN 0 ELSE (n - 1) - 0 + 1
      BY ONLY <3>1, FS_Interval
    <3>3. QED
      BY <3>2
  <2> HIDE DEF F, T
  <2>9. rank \in [F -> T]
    BY <2>3
  <2> HIDE DEF rank
  <2>10. rank \in Injection(F, T) /\ rank \in Surjection(F, T)
    BY <2>4, <2>5, <2>9 DEF Injection, IsInjective, Surjection
  <2>11. Cardinality(F) = Cardinality(T)
    BY <2>8, <2>10, FS_Injection
  <2>12. QED
    BY <1>2, <2>8, <2>11 DEF F
<1>3. QED
  BY <1>1, <1>2

\* The first n of a beginning of T, if it has so many, are those of T.
LEMMA FirstOfPrefix ==
  ASSUME PaginationAssumption, NEW sort, NEW T \in SUBSET Rows, NEW S \in SUBSET T, NEW n \in Nat,
         \A d \in S, e \in T \ S : IsAfterCursor(e, d, sort),
         n <= Cardinality(S)
  PROVE  First(n, S, sort) = First(n, T, sort)
<1>1. ASSUME NEW e \in S PROVE Earlier(e, S, sort) = Earlier(e, T, sort)
  BY AfterIsOrder DEF Earlier
<1>2. ASSUME NEW e \in T \ S PROVE ~(Cardinality(Earlier(e, T, sort)) < n)
  <2>1. S \in SUBSET Earlier(e, T, sort)
    BY DEF Earlier
  <2>2. IsFiniteSet(Earlier(e, T, sort)) /\ Cardinality(Earlier(e, T, sort)) \in Nat
    <3>1. Earlier(e, T, sort) \in SUBSET Rows
      BY DEF Earlier
    <3>2. QED
      BY <3>1, RankIsOrder
  <2>3. Cardinality(S) <= Cardinality(Earlier(e, T, sort)) /\ Cardinality(S) \in Nat
    BY <2>1, <2>2, FS_Subset, RankIsOrder
  <2>4. QED
    BY <2>2, <2>3
<1>3. QED
  BY <1>1, <1>2 DEF First

-----------------------------------------------------------------------------
(* The search: what was found are the hits up to the last row that was read. *)

SearchInv ==
  /\ searching = "idle" => found = {} /\ last = NoPlace /\ ~truncated
  /\ searching = "reading" =>
       /\ found = (stored \cap Hits) \ Behind(last, stored, order)
       /\ Cardinality(found) <= MaxEntries
  /\ searching = "read" =>
       /\ found = First(MaxEntries, stored \cap Hits, order)
       /\ truncated = (Cardinality(stored \cap Hits) > MaxEntries)

\* The walk: all that is listed is at or before the cursor, and what was kept
\* and is not listed yet is behind it.
WalkInv ==
  /\ PagesContinue
  /\ order = NoPlace => pages = <<>> /\ searching = "idle"
  /\ searching # "idle" /\ cursor = NoPlace => pages = <<>>
  /\ cursor # NoPlace =>
       \A i \in 1 .. Len(pages) : \A e \in pages[i] : e = cursor \/ IsAfterCursor(cursor, e, order)
  /\ pages # <<>> /\ ~cut =>
       \A e \in kept : e \in Listed \/ (cursor # NoPlace /\ IsAfterCursor(e, cursor, order))

PaginationInv == WalkTypeOK /\ SearchInv /\ WalkInv

\* What is read in one chunk: the rows behind the last one, from the next on.
LEMMA RowsAreNext ==
  ASSUME PaginationAssumption, PaginationInv, searching = "reading",
         NEW rows, rows = First(Chunk, Behind(last, stored, order), order)
  PROVE  /\ rows \in SUBSET Behind(last, stored, order)
         /\ rows = {} => Behind(last, stored, order) = {}
         /\ Cardinality(rows) < Chunk => rows = Behind(last, stored, order)
         /\ rows # {} => /\ Final(rows, order) \in stored
                         /\ Behind(Final(rows, order), stored, order)
                              = Behind(last, stored, order) \ rows
<1> DEFINE remaining == Behind(last, stored, order)
<1>1. /\ remaining \in SUBSET Rows /\ Chunk \in Nat /\ Chunk # 0 /\ stored \in SUBSET Rows
      /\ last \in Rows \cup {NoPlace} /\ NoPlace \notin Rows
  BY DEF PaginationInv, WalkTypeOK, Behind, PaginationAssumption
<1>2. /\ rows \in SUBSET remaining
      /\ \A d \in rows, e \in remaining \ rows : IsAfterCursor(e, d, order)
  BY <1>1, FirstIsPrefix
<1>3. Cardinality(rows) < Chunk => rows = remaining
  <2>1. Cardinality(remaining) <= Chunk => rows = remaining
    BY <1>1, FirstIsPrefix
  <2>2. Cardinality(rows) = IF Cardinality(remaining) <= Chunk THEN Cardinality(remaining) ELSE Chunk
    BY <1>1, FirstIsMany
  <2>3. QED
    BY <1>1, <2>1, <2>2
<1>4. rows = {} => remaining = {}
  <2>1. Cardinality({}) = 0
    BY FS_EmptySet
  <2>2. QED
    BY <1>1, <1>3, <2>1
<1>5. ASSUME rows # {}
      PROVE  /\ Final(rows, order) \in stored
             /\ Behind(Final(rows, order), stored, order) = remaining \ rows
  <2>1. PICK l \in rows : l = Final(rows, order) /\ \A d \in rows : d = l \/ IsAfterCursor(l, d, order)
    <3>1. rows \in SUBSET Rows
      BY <1>1, <1>2
    <3>2. QED
      BY <1>5, <3>1, FinalIsLast
  <2>2. l \in stored /\ l \in Rows /\ l # NoPlace /\ (last = NoPlace \/ IsAfterCursor(l, last, order))
    BY <1>1, <1>2 DEF Behind
  <2>3. ASSUME NEW e \in stored, IsAfterCursor(e, l, order) PROVE e \in remaining \ rows
    <3>1. e \in Rows
      BY <1>1
    <3>2. last = NoPlace \/ IsAfterCursor(e, last, order)
      BY <1>1, <2>2, <2>3, <3>1, AfterIsOrder
    <3>3. e \notin rows
      BY <2>1, <2>2, <2>3, <3>1, AfterIsOrder
    <3>4. QED
      BY <3>2, <3>3 DEF Behind
  <2>4. ASSUME NEW e \in remaining \ rows PROVE e \in stored /\ IsAfterCursor(e, l, order)
    BY <1>2 DEF Behind
  <2>5. Behind(l, stored, order) = remaining \ rows
    BY <2>2, <2>3, <2>4 DEF Behind
  <2>6. QED
    BY <2>1, <2>2, <2>5
<1>6. QED
  BY <1>2, <1>3, <1>4, <1>5

LEMMA ChunkKeeps ==
  ASSUME PaginationAssumption, PaginationInv, ReadChunk
  PROVE  PaginationInv'
<1> DEFINE remaining == Behind(last, stored, order)
           rows == First(Chunk, remaining, order)
           hits == found \cup (rows \cap Hits)
           whole == stored \cap Hits
<1>1. /\ searching = "reading"
      /\ found' = First(MaxEntries, hits, order)
      /\ last' = IF rows = {} THEN last ELSE Final(rows, order)
      /\ truncated' = (Cardinality(hits) > MaxEntries)
      /\ searching' = IF truncated' \/ Cardinality(rows) < Chunk THEN "read" ELSE "reading"
      /\ UNCHANGED <<stored, walk>>
  BY DEF ReadChunk
<1>2. /\ rows \in SUBSET remaining
      /\ rows = {} => remaining = {}
      /\ Cardinality(rows) < Chunk => rows = remaining
      /\ rows # {} => /\ Final(rows, order) \in stored
                      /\ Behind(Final(rows, order), stored, order) = remaining \ rows
  BY <1>1, RowsAreNext
<1>3. found = whole \ remaining /\ remaining \in SUBSET stored
  BY <1>1 DEF PaginationInv, SearchInv, Behind
<1>4. /\ stored \in SUBSET Rows /\ Hits \in SUBSET Rows /\ MaxEntries \in Nat /\ Chunk \in Nat
      /\ last \in Rows \cup {NoPlace}
  BY DEF PaginationInv, WalkTypeOK, PaginationAssumption
<1> HIDE DEF rows, remaining
<1>5. hits = whole \ (remaining \ rows)
  BY <1>2, <1>3
<1>6. hits \in SUBSET Rows /\ whole \in SUBSET Rows /\ hits \in SUBSET whole
  BY <1>4, <1>5
<1>7. Cardinality(hits) \in Nat /\ Cardinality(whole) \in Nat /\ Cardinality(hits) <= Cardinality(whole)
  BY <1>6, RankIsOrder, FS_Subset
<1>8. Behind(last', stored, order) = remaining \ rows /\ last' \in stored \cup {last}
  <2>1. CASE rows = {}
    BY <1>1, <1>2, <2>1 DEF remaining
  <2>2. CASE rows # {}
    BY <1>1, <1>2, <2>2
  <2>3. QED
    BY <2>1, <2>2
<1> HIDE DEF hits, whole
<1>9. found' \in SUBSET hits /\ (Cardinality(hits) <= MaxEntries => found' = hits)
  BY <1>1, <1>4, <1>6, FirstIsPrefix
<1>10. WalkTypeOK'
  <2>1. found' \subseteq Hits /\ last' \in Rows \cup {NoPlace} /\ truncated' \in BOOLEAN
        /\ searching' \in {"reading", "read"}
    BY <1>1, <1>4, <1>6, <1>8, <1>9 DEF whole
  <2>2. QED
    BY <1>1, <2>1 DEF PaginationInv, WalkTypeOK, walk
<1>11. SearchInv'
  <2>1. stored' = stored /\ order' = order
    BY <1>1 DEF walk
  <2>2. CASE searching' = "reading"
    <3>1. ~(Cardinality(hits) > MaxEntries)
      BY <1>1, <2>2
    <3>2. found' = hits /\ Cardinality(hits) <= MaxEntries
      BY <1>4, <1>7, <1>9, <3>1
    <3>3. found' = (stored' \cap Hits) \ Behind(last', stored', order')
      BY <1>5, <1>8, <2>1, <3>2 DEF whole
    <3>4. QED
      BY <2>2, <3>2, <3>3 DEF SearchInv
  <2>3. CASE searching' = "read"
    <3>1. CASE Cardinality(hits) > MaxEntries
      <4>1. \A d \in hits, e \in whole \ hits : IsAfterCursor(e, d, order)
        <5> SUFFICES ASSUME NEW d \in hits, NEW e \in whole \ hits PROVE IsAfterCursor(e, d, order)
          OBVIOUS
        <5>1. e \in Behind(last', stored, order) /\ d \notin Behind(last', stored, order) /\ d \in stored
          BY <1>5, <1>6, <1>8 DEF whole
        <5>2. last' # NoPlace /\ IsAfterCursor(e, last', order) /\ ~IsAfterCursor(d, last', order)
          BY <5>1 DEF Behind
        <5>3. d \in Rows /\ e \in Rows /\ last' \in Rows
          BY <1>4, <1>6, <1>8, <5>2
        <5>4. QED
          BY <5>2, <5>3, AfterIsOrder
      <4>2. MaxEntries <= Cardinality(hits)
        BY <1>4, <1>7, <3>1
      <4>3. First(MaxEntries, hits, order) = First(MaxEntries, whole, order)
        BY <1>4, <1>6, <4>1, <4>2, FirstOfPrefix
      <4>4. Cardinality(whole) > MaxEntries
        BY <1>4, <1>7, <3>1
      <4>5. QED
        BY <1>1, <2>1, <2>3, <3>1, <4>3, <4>4 DEF SearchInv, whole
    <3>2. CASE ~(Cardinality(hits) > MaxEntries)
      <4>1. Cardinality(rows) < Chunk
        BY <1>1, <2>3, <3>2
      <4>2. hits = whole
        BY <1>2, <1>5, <4>1
      <4>3. QED
        BY <1>1, <2>1, <2>3, <3>2, <4>2 DEF SearchInv, whole
    <3>3. QED
      BY <3>1, <3>2
  <2>4. QED
    BY <1>10, <2>2, <2>3, <1>1 DEF SearchInv
<1>12. WalkInv'
  BY <1>1 DEF PaginationInv, WalkInv, PagesContinue, Listed, walk
<1>13. QED
  BY <1>10, <1>11, <1>12 DEF PaginationInv

LEMMA AnswerKeeps ==
  ASSUME PaginationAssumption, PaginationInv, AnswerPage
  PROVE  PaginationInv'
<1> DEFINE whole == stored \cap Hits
           rest == Behind(cursor, found, order)
           page == First(Limit, rest, order)
<1>1. /\ searching = "read" /\ searching' = "idle" /\ found' = {} /\ last' = NoPlace /\ truncated' = FALSE
      /\ pages' = Append(pages, page)
      /\ cursor' = IF Cardinality(rest) > Limit THEN Final(page, order) ELSE NoPlace
      /\ cut' = (cut \/ truncated) /\ partial' = partial
      /\ UNCHANGED <<stored, order, kept>>
  <2>1. partial \in BOOLEAN
    BY DEF PaginationInv, WalkTypeOK
  <2>2. QED
    BY <2>1 DEF AnswerPage, End, Remaining, NextToken, Approximate
<1>2. /\ stored \in SUBSET Rows /\ Hits \in SUBSET Rows /\ MaxEntries \in Nat
      /\ Limit \in Nat /\ Limit # 0 /\ NoPlace \notin Rows
      /\ cursor \in Rows \cup {NoPlace} /\ pages \in Seq(SUBSET Hits)
      /\ kept \in SUBSET whole
  BY DEF PaginationInv, WalkTypeOK, PaginationAssumption
<1>3. /\ found = First(MaxEntries, whole, order)
      /\ truncated = (Cardinality(whole) > MaxEntries)
  BY <1>1 DEF PaginationInv, SearchInv
<1>4. whole \in SUBSET Rows /\ Cardinality(whole) \in Nat
  BY <1>2, RankIsOrder
<1>5. found \in SUBSET whole /\ (~truncated => found = whole)
  <2> HIDE DEF whole
  <2>1. found \in SUBSET whole /\ (Cardinality(whole) <= MaxEntries => found = whole)
    BY <1>2, <1>3, <1>4, FirstIsPrefix
  <2>2. ~truncated => ~(Cardinality(whole) > MaxEntries)
    BY <1>3, Zenon
  <2>3. QED
    BY <1>2, <1>4, <2>1, <2>2
<1>6. rest \in SUBSET found /\ rest \in SUBSET Rows /\ Cardinality(rest) \in Nat
  <2>1. rest \in SUBSET found /\ rest \in SUBSET Rows
    BY <1>4, <1>5 DEF Behind
  <2>2. QED
    BY <2>1, RankIsOrder
<1>7. \A e \in rest : cursor = NoPlace \/ IsAfterCursor(e, cursor, order)
  BY DEF Behind
<1>8. \A e \in found : cursor = NoPlace \/ IsAfterCursor(e, cursor, order) => e \in rest
  BY DEF Behind
<1> HIDE DEF rest
<1>9. /\ page \in SUBSET rest
      /\ Cardinality(rest) <= Limit => page = rest
      /\ \A d \in page, e \in rest \ page : IsAfterCursor(e, d, order)
      /\ Cardinality(page) = IF Cardinality(rest) <= Limit THEN Cardinality(rest) ELSE Limit
  BY <1>2, <1>6, FirstIsPrefix, FirstIsMany
<1> HIDE DEF page
<1>10. ASSUME cursor' # NoPlace
       PROVE  /\ Cardinality(page) = Limit
              /\ cursor' \in page
              /\ \A e \in page : e = cursor' \/ IsAfterCursor(cursor', e, order)
  <2>1. Cardinality(rest) > Limit /\ cursor' = Final(page, order)
    BY <1>1, <1>10
  <2>2. Cardinality(page) = Limit
    BY <1>2, <1>6, <1>9, <2>1
  <2>3. page # {} /\ page \in SUBSET Rows
    BY <1>2, <1>6, <1>9, <2>2, FS_EmptySet
  <2>4. QED
    BY <2>1, <2>2, <2>3, FinalIsLast
<1>11. /\ Len(pages') = Len(pages) + 1 /\ Len(pages) \in Nat
       /\ pages'[Len(pages) + 1] = page
       /\ \A i \in 1 .. Len(pages) : pages'[i] = pages[i] /\ pages[i] \in SUBSET Hits
       /\ pages' # <<>>
  BY <1>1, <1>2
<1>12. page \in SUBSET Hits /\ page \in SUBSET Rows
  BY <1>5, <1>6, <1>9
<1>13. pages = <<>> <=> cursor = NoPlace
  BY <1>1 DEF PaginationInv, WalkTypeOK, WalkInv
<1>14. WalkTypeOK'
  <2>1. Cardinality(page) <= Limit
    BY <1>2, <1>6, <1>9
  <2>2. \A i \in 1 .. Len(pages) : Cardinality(pages[i]) <= Limit
    BY DEF PaginationInv, WalkTypeOK
  <2>3. \A i \in 1 .. Len(pages') : Cardinality(pages'[i]) <= Limit
    <3> SUFFICES ASSUME NEW i \in 1 .. Len(pages') PROVE Cardinality(pages'[i]) <= Limit
      OBVIOUS
    <3>1. CASE i \in 1 .. Len(pages)
      BY <1>11, <2>2, <3>1
    <3>2. CASE i = Len(pages) + 1
      BY <1>11, <2>1, <3>2
    <3>3. QED
      BY <1>11, <3>1, <3>2
  <2>4. cursor' # NoPlace => pages' # <<>> /\ Cardinality(pages'[Len(pages')]) = Limit
    BY <1>10, <1>11
  <2>5. cursor' \in Rows \cup {NoPlace}
    BY <1>10, <1>12
  <2>6. pages' \in Seq(SUBSET Hits)
    BY <1>1, <1>2, <1>12
  <2>7. stored' \subseteq Rows /\ kept' \subseteq Hits \cap stored'
    BY <1>1, <1>2
  <2>8. order' \in Orders \cup {NoPlace} /\ cut' \in BOOLEAN /\ partial' \in BOOLEAN
    BY <1>1 DEF PaginationInv, WalkTypeOK
  <2>9. QED
    BY <1>1, <2>3, <2>4, <2>5, <2>6, <2>7, <2>8 DEF WalkTypeOK
<1>15. SearchInv'
  BY <1>1 DEF SearchInv
<1>16. ASSUME NEW i \in 1 .. Len(pages), NEW d \in pages[i]
       PROVE  /\ d \in Rows /\ cursor # NoPlace
              /\ d = cursor \/ IsAfterCursor(cursor, d, order)
              /\ \A e \in rest : IsAfterCursor(e, d, order)
  <2>1. cursor # NoPlace /\ d \in Rows
    BY <1>2, <1>11, <1>13
  <2>2. d = cursor \/ IsAfterCursor(cursor, d, order)
    BY <2>1 DEF PaginationInv, WalkInv
  <2>3. QED
    BY <1>2, <1>6, <1>7, <2>1, <2>2, AfterIsOrder
<1>17. PagesContinue'
  <2> SUFFICES ASSUME NEW i \in 1 .. Len(pages'), NEW j \in 1 .. Len(pages'), i < j,
                      NEW d \in pages'[i], NEW e \in pages'[j]
               PROVE  IsAfterCursor(e, d, order)
    BY <1>1 DEF PagesContinue
  <2>1. i \in 1 .. Len(pages) /\ d \in pages[i]
    BY <1>11
  <2>2. CASE j \in 1 .. Len(pages)
    BY <1>11, <2>1, <2>2 DEF PaginationInv, WalkInv, PagesContinue
  <2>3. CASE j = Len(pages) + 1
    BY <1>9, <1>11, <1>16, <2>1, <2>3
  <2>4. QED
    BY <1>11, <2>2, <2>3
<1>18. ASSUME cursor' # NoPlace, NEW i \in 1 .. Len(pages'), NEW e \in pages'[i]
       PROVE  e = cursor' \/ IsAfterCursor(cursor', e, order)
  <2>1. CASE i \in 1 .. Len(pages)
    BY <1>9, <1>10, <1>11, <1>16, <1>18, <2>1
  <2>2. CASE i = Len(pages) + 1
    BY <1>10, <1>11, <1>18, <2>2
  <2>3. QED
    BY <1>11, <2>1, <2>2
<1>19. ASSUME ~cut', NEW e \in kept
       PROVE  e \in Listed' \/ (cursor' # NoPlace /\ IsAfterCursor(e, cursor', order))
  <2>1. ~cut /\ e \in found
    BY <1>1, <1>2, <1>5, <1>19
  <2>2. CASE e \in Listed
    BY <1>11, <2>2 DEF Listed
  <2>3. CASE e \notin Listed
    <3>1. e \in rest
      BY <1>8, <1>13, <2>1, <2>3 DEF PaginationInv, WalkInv
    <3>2. CASE e \in page
      BY <1>11, <3>2 DEF Listed
    <3>3. CASE e \notin page
      <4>1. Cardinality(rest) > Limit
        BY <1>2, <1>6, <1>9, <3>1, <3>3
      <4>2. cursor' = Final(page, order) /\ Cardinality(page) = Limit
        BY <1>1, <1>2, <1>6, <1>9, <4>1
      <4>3. page # {}
        BY <1>2, <4>2, FS_EmptySet
      <4>4. cursor' \in page
        BY <1>12, <4>2, <4>3, FinalIsLast
      <4>5. QED
        BY <1>2, <1>9, <1>12, <3>1, <3>3, <4>4
    <3>4. QED
      BY <3>2, <3>3
  <2>4. QED
    BY <2>2, <2>3
<1>20. WalkInv'
  <2>1. order' # NoPlace /\ order' = order /\ searching' = "idle" /\ kept' = kept
    BY <1>1 DEF PaginationInv, WalkInv
  <2>2. QED
    BY <1>17, <1>18, <1>19, <2>1 DEF WalkInv
<1>21. QED
  BY <1>14, <1>15, <1>20 DEF PaginationInv

LEMMA PaginationStep ==
  ASSUME PaginationAssumption, PaginationInv, [WalkNext]_walkVars
  PROVE  PaginationInv'
<1> USE DEF PaginationInv, WalkTypeOK, SearchInv, WalkInv, PagesContinue, Listed
<1>1. ASSUME NEW sort \in Orders, FirstPage(sort) PROVE PaginationInv'
  <2>1. /\ pages = <<>> /\ cursor = NoPlace /\ sort # NoPlace
        /\ found = {} /\ last = NoPlace
    BY <1>1 DEF FirstPage, Begin, Orders, PaginationAssumption
  <2>2. Behind(NoPlace, stored, sort) = stored
    BY DEF Behind
  <2>3. Cardinality({}) = 0 /\ MaxEntries \in Nat
    BY FS_EmptySet DEF PaginationAssumption
  <2>4. QED
    BY <1>1, <2>1, <2>2, <2>3 DEF FirstPage, Begin
<1>2. CASE NextPage
  <2>1. found = {} /\ last = NoPlace
    BY <1>2 DEF NextPage, Begin
  <2>2. Behind(NoPlace, stored, order) = stored
    BY DEF Behind
  <2>3. Cardinality({}) = 0 /\ MaxEntries \in Nat
    BY FS_EmptySet DEF PaginationAssumption
  <2>4. QED
    BY <1>2, <2>1, <2>2, <2>3 DEF NextPage, Begin, walk
<1>3. CASE ReadChunk
  BY <1>3, ChunkKeeps
<1>4. CASE Fail
  <2>1. /\ searching' = "idle" /\ found' = {} /\ last' = NoPlace /\ truncated' = FALSE
        /\ UNCHANGED <<stored, cursor, pages, kept, cut, partial>>
        /\ order' = IF pages = <<>> THEN NoPlace ELSE order
    BY <1>4 DEF Fail, End
  <2>2. CASE pages = <<>>
    <3>1. pages' = <<>> /\ 1 .. Len(pages') = {} /\ cursor' = NoPlace /\ order' = NoPlace
      BY <2>1, <2>2
    <3>2. QED
      BY <2>1, <3>1
  <2>3. CASE pages # <<>>
    BY <2>1, <2>3
  <2>4. QED
    BY <2>2, <2>3
<1>5. CASE AnswerPage
  BY <1>5, AnswerKeeps
<1>6. ASSUME NEW e \in Rows, WriteRow(e) PROVE PaginationInv'
  BY <1>6 DEF WriteRow, reading, walk
<1>7. ASSUME NEW e \in Rows, Cleanup(Stamp[e]) PROVE PaginationInv'
  BY <1>7 DEF Cleanup, reading
<1>8. CASE UNCHANGED walkVars
  BY <1>8 DEF walkVars, reading, walk
<1>9. QED
  BY <1>1, <1>2, <1>3, <1>4, <1>5, <1>6, <1>7, <1>8 DEF WalkNext

(* SearchEntries, paginateResponse and the cursor: chunks find what one      *)
(* reading would, no entry is on two pages and the order goes on from page   *)
(* to page, and a walk to the end has listed whatever was there all the      *)
(* time, however entries are written and cleaned up between its pages.       *)
THEOREM PagesAreOneList ==
  ASSUME PaginationAssumption
  PROVE  WalkSpec => []WalkSound
<1>1. WalkInit => PaginationInv
  <2> SUFFICES ASSUME WalkInit PROVE PaginationInv
    OBVIOUS
  <2>1. pages = <<>> /\ 1 .. Len(pages) = {} /\ pages \in Seq(SUBSET Hits)
    BY DEF WalkInit
  <2>2. QED
    BY <2>1 DEF WalkInit, PaginationInv, WalkTypeOK, SearchInv, WalkInv, PagesContinue
<1>2. PaginationInv /\ [WalkNext]_walkVars => PaginationInv'
  BY PaginationStep
<1>3. PaginationInv => WalkSound
  <2> SUFFICES ASSUME PaginationInv PROVE WalkSound
    OBVIOUS
  <2>1. ChunksAreWindow
    BY DEF PaginationInv, SearchInv, ChunksAreWindow
  <2>2. NothingSkipped
    BY DEF PaginationInv, WalkInv, NothingSkipped
  <2>3. QED
    BY <2>1, <2>2 DEF PaginationInv, WalkInv, WalkSound
<1>4. QED
  BY <1>1, <1>2, <1>3, PTL DEF WalkSpec
=============================================================================
