----------------------------- MODULE ExactlyOnce ----------------------------
(***************************************************************************)
(* What the delivery pipeline promises as long as duplicate suppression    *)
(* has not expired: an entry the Agent collected is delivered to the Hub   *)
(* at most once, a batch at a time, and an entry that retention removed    *)
(* never comes back.                                                       *)
(***************************************************************************)
CONSTANTS
  Entries,      \* the entries there may be
  Times         \* the times at which they may be delivered

VARIABLES
  collected,    \* entries the Agent has read
  deliveries,   \* history: [entry, at], one per delivery
  visible       \* delivered entries that retention has not removed

promiseVars == <<collected, deliveries, visible>>

Init == collected = {} /\ deliveries = {} /\ visible = {}

Delivered == {d.entry : d \in deliveries}

Collect ==
  /\ \E e \in Entries \ collected : collected' = collected \cup {e}
  /\ UNCHANGED <<deliveries, visible>>

Deliver ==
  \E S \in SUBSET (collected \ Delivered) :
    /\ collected' = collected
    /\ visible' = visible \cup S
    /\ \E t \in Times : deliveries' = deliveries \cup {[entry |-> e, at |-> t] : e \in S}

Expire ==
  /\ visible' \subseteq visible
  /\ UNCHANGED <<collected, deliveries>>

Next == Collect \/ Deliver \/ Expire

Spec == Init /\ [][Next]_promiseVars
=============================================================================
