------------------------------- MODULE Notify -------------------------------
(***************************************************************************)
(* Threshold notifications: after every round the app compares the result  *)
(* with three limits of the user and raises a toast for each one crossed,  *)
(* silenced per threshold for a cooldown after its last toast.  Switches   *)
(* and limits change between rounds; Instants do not go back.              *)
(***************************************************************************)
EXTENDS Naturals

CONSTANTS
  Missing,    \* a metric the round did not measure, no round just finished
  Values,     \* readings and limits, an ordered few
  Limits,     \* the limits the user sets
  Total,      \* the loss of a phase in which nothing answered
  Cooldown    \* DEFAULT_COOLDOWN, in steps of the clock

ASSUME NotifyConstants ==
  /\ Values \subseteq Nat /\ Limits \subseteq Nat /\ Total \in Values
  /\ Missing \notin Nat
  /\ Cooldown \in Nat

ThresholdKind == {"Ping", "Download", "Loss"}

\* What evaluate reads of a RoundResult.  A phase in which nothing answered
\* has a loss and no average.
PingStats ==
  {stats \in [avg_ms: Values \cup {Missing}, loss_pct: Values] :
     stats.avg_ms = Missing <=> stats.loss_pct = Total}

RoundResult == [ping_idle: {Missing} \cup PingStats, down: Values \cup {Missing}]

\* An age stands for the Instant it is reckoned from; Cooldown is any age from
\* there on, and never.
Ages == 0..Cooldown

VARIABLES
  notify_master,  \* the master switch
  enabled,        \* the switch of each threshold
  limit,          \* its value
  last_fired,     \* NotifyState, as ages
  quiet,          \* the time since the user saw a toast of the kind
  finished,       \* the result of the round that has just finished, or Missing
  shown           \* the toasts raised for it

notifyVars == <<notify_master, enabled, limit, last_fired, quiet, finished, shown>>

InitNotify ==
  /\ notify_master \in BOOLEAN
  /\ enabled \in [ThresholdKind -> BOOLEAN]
  /\ limit \in [ThresholdKind -> Limits]
  /\ last_fired = [kind \in ThresholdKind |-> Cooldown]
  /\ quiet = last_fired
  /\ finished = Missing /\ shown = {}

Crosses(result, kind) ==
  CASE kind = "Ping" ->
         /\ result.ping_idle # Missing
         /\ result.ping_idle.avg_ms # Missing
         /\ result.ping_idle.avg_ms > limit[kind]
    [] kind = "Download" -> result.down # Missing /\ result.down < limit[kind]
    [] kind = "Loss" -> result.ping_idle # Missing /\ result.ping_idle.loss_pct > limit[kind]

candidates(result) == {kind \in ThresholdKind : enabled[kind] /\ Crosses(result, kind)}

is_on_cooldown(kind) == last_fired[kind] < Cooldown

due(result) ==
  {kind \in candidates(result) : notify_master /\ ~is_on_cooldown(kind)}

\* Mutant: every candidate is marked, also with the master switch off.
mark_fired_candidates(result) ==
  last_fired' = [kind \in ThresholdKind |->
                   IF kind \in candidates(result) /\ ~is_on_cooldown(kind)
                     THEN 0 ELSE last_fired[kind]]

\* Only what is raised starts its cooldown.
mark_fired(result) ==
  last_fired' = [kind \in ThresholdKind |->
                   IF kind \in due(result) THEN 0 ELSE last_fired[kind]]

\* evaluate, then show for each notification.
notify_thresholds(result) ==
  /\ finished' = result
  /\ shown' = due(result)
  /\ mark_fired(result)
  /\ quiet' = [kind \in ThresholdKind |-> IF kind \in shown' THEN 0 ELSE quiet[kind]]
  /\ UNCHANGED <<notify_master, enabled, limit>>

\* NotifyMaster, the three Enabled fields and the three limits of Settings.
SwitchMaster ==
  /\ notify_master' = ~notify_master
  /\ finished' = Missing /\ shown' = {}
  /\ UNCHANGED <<enabled, limit, last_fired, quiet>>

SetThreshold(kind) ==
  /\ \/ enabled' = [enabled EXCEPT ![kind] = ~@] /\ UNCHANGED limit
     \/ \E value \in Limits : limit' = [limit EXCEPT ![kind] = value] /\ UNCHANGED enabled
  /\ finished' = Missing /\ shown' = {}
  /\ UNCHANGED <<notify_master, last_fired, quiet>>

Later(age) == IF age < Cooldown THEN age + 1 ELSE age

TimePasses ==
  /\ last_fired' = [kind \in ThresholdKind |-> Later(last_fired[kind])]
  /\ quiet' = [kind \in ThresholdKind |-> Later(quiet[kind])]
  /\ finished' = Missing /\ shown' = {}
  /\ UNCHANGED <<notify_master, enabled, limit>>

NextNotify ==
  \/ \E result \in RoundResult : notify_thresholds(result)
  \/ SwitchMaster
  \/ \E kind \in ThresholdKind : SetThreshold(kind)
  \/ TimePasses

SpecNotify == InitNotify /\ [][NextNotify]_notifyVars

NotifyTypeOK ==
  /\ notify_master \in BOOLEAN
  /\ enabled \in [ThresholdKind -> BOOLEAN]
  /\ limit \in [ThresholdKind -> Limits]
  /\ last_fired \in [ThresholdKind -> Ages]
  /\ quiet \in [ThresholdKind -> Ages]
  /\ finished \in RoundResult \cup {Missing}
  /\ shown \subseteq ThresholdKind

\* Whatever was switched, changed and crossed before: a round that crosses a
\* limit which is on is heard exactly if the user has heard nothing of that
\* threshold for the whole cooldown.  A toast is never repeated earlier, and
\* rounds that raised nothing silence nothing.
NotifiesOncePerCooldown ==
  [][finished' # Missing =>
       \A kind \in ThresholdKind :
         kind \in shown' <=>
           /\ notify_master /\ enabled[kind] /\ Crosses(finished', kind)
           /\ quiet[kind] = Cooldown]_notifyVars
=============================================================================
