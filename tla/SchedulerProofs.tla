---------------------------- MODULE SchedulerProofs ----------------------------
(***************************************************************************)
(* Lemmas about the operators of Scheduler, for the proofs of the modules  *)
(* that own a scheduler.                                                   *)
(***************************************************************************)
EXTENDS Scheduler, TLAPS

\* A day is a natural number.
LEMMA DayIsNat == ASSUME NEW now \in Nat PROVE DayOf(now) \in Nat
  BY DayAssumption, SMT DEF DayOf

\* A later instant is never on an earlier day.
LEMMA DayMonotone ==
  ASSUME NEW a \in Nat, NEW b \in Nat, a <= b
  PROVE  DayOf(a) <= DayOf(b)
  BY DayAssumption, SMT DEF DayOf

\* Byte counts stay byte counts.
LEMMA BytesClosed ==
  ASSUME NEW a \in Bytes, NEW b \in Bytes
  PROVE  SaturatingAdd(a, b) \in Bytes /\ SaturatingSub(a, b) \in Bytes
  BY WidthAssumption DEF Bytes, SaturatingAdd, SaturatingSub

\* A charge never shrinks a count, nor adds more than was charged, and keeps
\* the order of two counts.
LEMMA SaturatingAddBounds ==
  ASSUME NEW a \in Bytes, NEW b \in Bytes
  PROVE  /\ a <= SaturatingAdd(a, b)
         /\ SaturatingAdd(a, b) <= a + b
         /\ \A c \in Bytes : c <= a => SaturatingAdd(c, b) <= SaturatingAdd(a, b)
  BY WidthAssumption DEF Bytes, SaturatingAdd

\* Zero bytes are a byte count.
LEMMA ZeroBytes == 0 \in Bytes
  BY WidthAssumption DEF Bytes

\* A slot is an instant.
LEMMA DueIsNat ==
  ASSUME NEW last \in Nat \cup {None}, NEW every \in Nat, NEW now \in Nat
  PROVE  DueFrom(last, every, now) \in Nat
  BY NoneAssumption DEF DueFrom

\* A slot that is due has its whole interval behind it.
LEMMA DueMeansElapsed ==
  ASSUME NEW last \in Nat, NEW every \in Nat, NEW now \in Nat,
         DueFrom(last, every, now) <= now
  PROVE  now - last >= every
  BY NoneAssumption DEF DueFrom

\* What is left of a budget is a byte count, or there is no budget.
LEMMA LeftIsBytes ==
  ASSUME ScheduleTypeOK, NEW now
  PROVE  BudgetLeft(now) \in Bytes \cup {None}
<1>1. settings.daily_budget_bytes \in Bytes \cup {None}
  BY DEF ScheduleTypeOK, Settings
<1>2. SpentOn(DayOf(now)) \in Bytes
  BY ZeroBytes DEF SpentOn, ScheduleTypeOK
<1> QED
  BY <1>1, <1>2, BytesClosed DEF BudgetLeft

\* The planner returns a plan.
LEMMA PlanType ==
  ASSUME ScheduleTypeOK, NEW now
  PROVE  PlanNextRound(now) \in RoundPlan
<1>1. BudgetLeft(now) \in Bytes \cup {None}
  BY LeftIsBytes
<1>2. settings.metrics \in MetricSelection /\ PingAlone \in MetricSelection
  BY DEF ScheduleTypeOK, Settings, MetricSelection, PingAlone
<1> DEFINE left == BudgetLeft(now)
<1> HIDE DEF left
<1>3. left \in Bytes \cup {None}
  BY <1>1 DEF left
<1>4. /\ Plan("ping", PingAlone, None, FALSE) \in RoundPlan
      /\ Plan("full", PingAlone, 0, TRUE) \in RoundPlan
      /\ Plan("full", settings.metrics, left, FALSE) \in RoundPlan
  BY <1>2, <1>3, ZeroBytes DEF Plan, RoundPlan, RoundKind
<1> QED
  BY <1>4 DEF PlanNextRound, left

\* The plan is of the kind that is due.
LEMMA PlanKind ==
  ASSUME NEW now
  PROVE  PlanNextRound(now).kind = KindDue(now)
  BY DEF PlanNextRound, Plan, KindDue

\* Recording a start keeps the schedule well typed.
LEMMA RecordStartType ==
  ASSUME ScheduleTypeOK, NEW now \in Nat, NEW kind,
         RecordRoundStart(now, kind), UNCHANGED settings
  PROVE  ScheduleTypeOK'
<1>1. SpentOn(DayOf(now)) \in Bytes
  BY ZeroBytes DEF SpentOn, ScheduleTypeOK
<1> QED
  BY <1>1, DayIsNat DEF ScheduleTypeOK, RecordRoundStart, Instants

\* Charging bytes keeps the schedule well typed.
LEMMA RecordBytesType ==
  ASSUME ScheduleTypeOK, NEW now \in Nat, NEW bytes \in Bytes,
         RecordBytes(now, bytes), UNCHANGED settings
  PROVE  ScheduleTypeOK'
<1>1. SpentOn(DayOf(now)) \in Bytes
  BY ZeroBytes DEF SpentOn, ScheduleTypeOK
<1> QED
  BY <1>1, DayIsNat, BytesClosed DEF ScheduleTypeOK, RecordBytes

\* A planned round of a kind starts at least that kind's interval after the
\* last start its cadence counts, whatever was edited or missed since.
LEMMA DuePlanElapsed ==
  ASSUME ScheduleTypeOK, NEW now \in Nat, NextDue(now) <= now
  PROVE  /\ PlanNextRound(now).kind = "full" /\ last_full_start # None
              => now - last_full_start >= settings.throughput_every
         /\ PlanNextRound(now).kind = "ping" /\ last_ping_start # None
              => now - last_ping_start >= settings.ping_every
<1>1. NextFullDue(now) \in Nat /\ NextPingDue(now) \in Nat
  BY DueIsNat DEF NextFullDue, NextPingDue, ScheduleTypeOK, Settings, Instants
<1>2. PlanNextRound(now).kind = KindDue(now)
  BY PlanKind
<1>3. KindDue(now) = "full" => NextFullDue(now) <= now
  BY <1>1 DEF KindDue, NextDue
<1>4. KindDue(now) = "ping" => NextPingDue(now) <= now
  BY <1>1 DEF KindDue, NextDue
<1>5. /\ settings.throughput_every \in Nat /\ settings.ping_every \in Nat
      /\ last_full_start # None => last_full_start \in Nat
      /\ last_ping_start # None => last_ping_start \in Nat
  BY DEF ScheduleTypeOK, Settings, Instants
<1> QED
  BY <1>2, <1>3, <1>4, <1>5, DueMeansElapsed DEF NextFullDue, NextPingDue

-----------------------------------------------------------------------------
(***************************************************************************)
(* Some cadence has a slot that is due.  Unlike NextDue this does not move *)
(* with the instant it is asked at: once due, always due.                  *)
(***************************************************************************)
Overdue(last, every, now) == last = None \/ last + every <= now
SlotDue(now) ==
  \/ Overdue(last_full_start, settings.throughput_every, now)
  \/ Overdue(last_ping_start, settings.ping_every, now)

\* A slot is due exactly when NextDue is not in the future.
LEMMA SlotDueIsNextDue ==
  ASSUME ScheduleTypeOK, NEW now \in Nat
  PROVE  SlotDue(now) <=> NextDue(now) <= now
<1>1. /\ settings.throughput_every \in Nat /\ settings.ping_every \in Nat
      /\ last_full_start # None => last_full_start \in Nat
      /\ last_ping_start # None => last_ping_start \in Nat
  BY DEF ScheduleTypeOK, Settings, Instants
<1>2. /\ NextFullDue(now) <= now
           <=> Overdue(last_full_start, settings.throughput_every, now)
      /\ NextPingDue(now) <= now
           <=> Overdue(last_ping_start, settings.ping_every, now)
  BY <1>1 DEF NextFullDue, NextPingDue, DueFrom, Overdue
<1>3. NextFullDue(now) \in Nat /\ NextPingDue(now) \in Nat
  BY <1>1, DueIsNat DEF NextFullDue, NextPingDue
<1> QED
  BY <1>2, <1>3 DEF NextDue, SlotDue

\* The next slot is not in the past, and it is due when it comes.
LEMMA NextDueIsDue ==
  ASSUME ScheduleTypeOK, NEW now \in Nat
  PROVE  NextDue(now) \in Nat /\ now <= NextDue(now) /\ SlotDue(NextDue(now))
<1>1. /\ settings.throughput_every \in Nat /\ settings.ping_every \in Nat
      /\ last_full_start # None => last_full_start \in Nat
      /\ last_ping_start # None => last_ping_start \in Nat
  BY DEF ScheduleTypeOK, Settings, Instants
<1>2. /\ NextFullDue(now) \in Nat /\ now <= NextFullDue(now)
      /\ Overdue(last_full_start, settings.throughput_every, NextFullDue(now))
  BY <1>1 DEF NextFullDue, DueFrom, Overdue
<1>3. /\ NextPingDue(now) \in Nat /\ now <= NextPingDue(now)
      /\ Overdue(last_ping_start, settings.ping_every, NextPingDue(now))
  BY <1>1 DEF NextPingDue, DueFrom, Overdue
<1> QED
  BY <1>2, <1>3 DEF NextDue, SlotDue

\* What is due stays due.
LEMMA SlotStaysDue ==
  ASSUME ScheduleTypeOK, NEW now \in Nat, NEW later \in Nat, now <= later,
         SlotDue(now)
  PROVE  SlotDue(later)
  BY DEF SlotDue, Overdue, ScheduleTypeOK, Settings, Instants

\* A ping round is planned only strictly before the throughput slot.
LEMMA PingPlanIsEarly ==
  ASSUME ScheduleTypeOK, NEW now \in Nat, PlanNextRound(now).kind = "ping"
  PROVE  /\ last_full_start # None
         /\ now < last_full_start + settings.throughput_every
<1>1. NextPingDue(now) < NextFullDue(now)
  <2>1. NextFullDue(now) \in Nat /\ NextPingDue(now) \in Nat
    BY DueIsNat DEF NextFullDue, NextPingDue, ScheduleTypeOK, Settings, Instants
  <2> QED
    BY <2>1, PlanKind DEF KindDue
<1>2. now <= NextPingDue(now) /\ NextPingDue(now) \in Nat
  BY DEF NextPingDue, DueFrom, ScheduleTypeOK, Settings, Instants
<1> QED
  BY <1>1, <1>2 DEF NextFullDue, DueFrom, ScheduleTypeOK, Settings, Instants
=============================================================================
