-------------------------- MODULE AppContinuousProofs --------------------------
(***************************************************************************)
(* What holds of AppContinuous for every choice of its constants.          *)
(***************************************************************************)
EXTENDS AppContinuous, SchedulerProofs, SequenceTheorems, TLAPS

-----------------------------------------------------------------------------
(***************************************************************************)
(* Rounds in flight.                                                       *)
(***************************************************************************)

\* What a round reports can be charged: it is within the width of a counter.
LEMMA ReportIsBytes ==
  ASSUME NEW m, NEW c, NEW r \in O!Reports(m, c)
  PROVE  r.charged \in Bytes
  BY WireAssumption, WidthAssumption DEF O!Reports, O!Report, Bytes

\* A round that begins is one more, at the end.
LEMMA LaunchType ==
  ASSUME NEW round \in InFlight, rounds \in Seq(InFlight), Launch(round)
  PROVE  /\ rounds' \in Seq(InFlight)
         /\ round_running' = TRUE
         /\ Len(rounds') = Len(rounds) + 1
         /\ rounds'[Len(rounds')] = round
  BY AppendProperties DEF Launch

\* A round that is handled is one fewer.
LEMMA RemoveAtType ==
  ASSUME NEW S, NEW s \in Seq(S), NEW i \in DOMAIN s
  PROVE  RemoveAt(s, i) \in Seq(S) /\ Len(RemoveAt(s, i)) = Len(s) - 1
<1>1. i \in 1 .. Len(s) /\ Len(s) \in Nat /\ \A k \in 1 .. Len(s) : s[k] \in S
  BY LenProperties, ElementOfSeq
<1>2. SubSeq(s, 1, i - 1) \in Seq(S) /\ Len(SubSeq(s, 1, i - 1)) = i - 1
  BY <1>1, SubSeqProperties
<1>3. /\ SubSeq(s, i + 1, Len(s)) \in Seq(S)
      /\ Len(SubSeq(s, i + 1, Len(s))) = Len(s) - i
  BY <1>1, SubSeqProperties
<1> DEFINE before == SubSeq(s, 1, i - 1)
           after == SubSeq(s, i + 1, Len(s))
<1>4. before \o after \in Seq(S) /\ Len(before \o after) = Len(before) + Len(after)
  BY <1>2, <1>3, ConcatProperties
<1>5. RemoveAt(s, i) = before \o after
  BY DEF RemoveAt
<1>6. Len(before) = i - 1 /\ Len(after) = Len(s) - i
  BY <1>2, <1>3
<1> HIDE DEF before, after
<1> QED
  BY <1>1, <1>4, <1>5, <1>6

-----------------------------------------------------------------------------
(***************************************************************************)
(* Type correctness.                                                       *)
(***************************************************************************)

\* A step of continuous mode keeps the schedule and the rounds well typed.
LEMMA StepContinuousType ==
  ASSUME TypeOK, StepContinuous
  PROVE  /\ ScheduleTypeOK'
         /\ rounds' \in Seq(InFlight)
         /\ round_running' \in BOOLEAN
<1>1. wall \in Nat
  BY DEF TypeOK
<1>2. CASE ~ScheduledDue
  BY <1>2 DEF StepContinuous, TypeOK, ScheduleTypeOK, scheduleVars
<1>3. CASE ScheduledDue
  <2> DEFINE plan == PlanNextRound(wall)
             round == [plan |-> plan, metrics |-> plan.metrics, bytes |-> None]
  <2>1. plan \in RoundPlan
    BY PlanType DEF TypeOK
  <2> HIDE DEF plan
  <2>2. round \in InFlight
    BY <2>1 DEF InFlight, RoundPlan
  <2>3. RecordRoundStart(wall, plan.kind) /\ Launch(round) /\ UNCHANGED settings
    BY <1>3 DEF StepContinuous, BeginScheduledRound, plan
  <2>4. ScheduleTypeOK'
    BY <1>1, <2>3, RecordStartType DEF TypeOK
  <2> QED
    BY <2>2, <2>3, <2>4, LaunchType DEF TypeOK
<1> QED
  BY <1>2, <1>3

\* The variables of the model keep their types (TypeOK).
THEOREM TypeCorrect == Spec => []TypeOK
<1>1. Init => TypeOK
  <2> SUFFICES ASSUME Init PROVE TypeOK
    OBVIOUS
  <2>1. ScheduleTypeOK
    BY ChoicesAssumption, ZeroBytes DEF Init, InitSchedule, ScheduleTypeOK
  <2>2. 0 \in 0 .. MaxTime /\ 0 \in 0 .. MaxSingles /\ 0 \in 0 .. MaxEdits
    BY BoundAssumption
  <2> QED
    BY <2>1, <2>2, ZeroBytes, EmptySeq DEF Init, TypeOK
<1>2. TypeOK /\ [Next]_vars => TypeOK'
  <2> SUFFICES ASSUME TypeOK, [Next]_vars PROVE TypeOK'
    OBVIOUS
  <2> USE DEF TypeOK
  <2>1. CASE StartSingleTest
    <3>1. [plan |-> None, metrics |-> settings.metrics, bytes |-> None]
            \in InFlight
      BY DEF InFlight, ScheduleTypeOK, Settings
    <3>2. rounds' \in Seq(InFlight) /\ round_running' = TRUE
      BY <2>1, <3>1, LaunchType DEF StartSingleTest
    <3>3. singles' \in 0 .. MaxSingles
      BY <2>1, BoundAssumption DEF StartSingleTest
    <3> QED
      BY <2>1, <3>2, <3>3 DEF StartSingleTest, ScheduleTypeOK, scheduleVars,
         modeVars, shell, history
  <2>2. ASSUME NEW i \in DOMAIN rounds, RoundEnds(i) PROVE TypeOK'
    <3>1. PICK r \in O!Reports(rounds[i].metrics, CeilingOf(rounds[i])) :
            rounds' = [rounds EXCEPT ![i].bytes = r.charged]
      BY <2>2 DEF RoundEnds
    <3>2. r.charged \in Bytes
      BY ReportIsBytes
    <3>3. rounds[i] \in InFlight
      BY ElementOfSeq, LenProperties
    <3>4. [rounds[i] EXCEPT !.bytes = r.charged] \in InFlight
      BY <3>2, <3>3 DEF InFlight
    <3>5. rounds' \in Seq(InFlight)
      BY <3>1, <3>4, ExceptSeq, LenProperties
    <3> QED
      BY <2>2, <3>5 DEF RoundEnds, ScheduleTypeOK, scheduleVars, modeVars,
         shell, bounds, history
  <2>3. ASSUME NEW i \in DOMAIN rounds, OnRoundFinished(i) PROVE TypeOK'
    <3>1. rounds[i] \in InFlight
      BY ElementOfSeq, LenProperties
    <3>2. rounds[i].bytes \in Bytes
      BY <2>3, <3>1 DEF OnRoundFinished, InFlight
    <3>3. ScheduleTypeOK'
      BY <2>3, <3>2, RecordBytesType DEF OnRoundFinished
    <3>4. rounds' \in Seq(InFlight)
      BY <2>3, RemoveAtType DEF OnRoundFinished
    <3>5. \A d \in Days :
            /\ SaturatingAdd(charged[d], rounds[i].bytes) \in Bytes
            /\ SaturatingAdd(scheduled[d], rounds[i].bytes) \in Bytes
      BY <3>2, BytesClosed
    <3>6. charged' \in [Days -> Bytes] /\ scheduled' \in [Days -> Bytes]
      BY <2>3, <3>5 DEF OnRoundFinished
    <3> QED
      BY <2>3, <3>3, <3>4, <3>6 DEF OnRoundFinished, modeVars, shell, bounds
  <2>4. CASE ResumeContinuous
    <3>1. CASE clock_armed
      BY <2>4, <3>1 DEF ResumeContinuous, ScheduleTypeOK, scheduleVars, shell,
         bounds, history
    <3>2. CASE ~clock_armed
      <4>1. ticks' \in Nat /\ clock_armed' = TRUE
        BY <2>4, <3>2 DEF ResumeContinuous
      <4>2. StepContinuous
        BY <2>4, <3>2 DEF ResumeContinuous
      <4>3. continuous_running' = TRUE /\ continuous_paused' = FALSE
        BY <2>4 DEF ResumeContinuous
      <4> QED
        BY <4>1, <4>2, <4>3, StepContinuousType DEF StepContinuous, shell,
           bounds, history
    <3> QED
      BY <3>1, <3>2
  <2>5. CASE Pause
    BY <2>5 DEF Pause, ScheduleTypeOK, scheduleVars, shell, bounds, history
  <2>6. CASE OnTick
    <3>1. CASE continuous_running /\ ~continuous_paused
      BY <2>6, <3>1, StepContinuousType DEF OnTick, StepContinuous, shell,
         bounds, history
    <3>2. CASE ~(continuous_running /\ ~continuous_paused)
      <4>1. ticks' \in Nat
        BY <2>6, <3>2 DEF OnTick
      <4>2. /\ clock_armed' = FALSE
            /\ UNCHANGED <<continuous_running, continuous_paused, settings,
                           scheduleVars, round_running, shell, wall, rounds,
                           bounds, history>>
        BY <2>6, <3>2 DEF OnTick
      <4> QED
        BY <4>1, <4>2 DEF ScheduleTypeOK, scheduleVars, shell, bounds, history
    <3> QED
      BY <3>1, <3>2
  <2>7. ASSUME NEW new \in SettingsChoices, CommitSettings(new) PROVE TypeOK'
    <3>1. edits' \in 0 .. MaxEdits
      BY <2>7, BoundAssumption DEF CommitSettings
    <3> QED
      BY <2>7, <3>1, ChoicesAssumption DEF CommitSettings, UpdateSettings,
         ScheduleTypeOK, scheduleVars, modeVars, shell, history
  <2>8. CASE OnWindowIdReady \/ RestoreWindow \/ OnCloseRequested \/ Quit
    BY <2>8 DEF OnWindowIdReady, RestoreWindow, OnCloseRequested, Quit,
       ShellStep, ScheduleTypeOK, scheduleVars, modeVars, bounds, history
  <2>9. CASE TimePasses \/ Jump
    BY <2>9 DEF TimePasses, Jump, MoveWall, ScheduleTypeOK, scheduleVars,
       modeVars, shell, bounds, history
  <2>10. CASE UNCHANGED vars
    BY <2>10 DEF vars, ScheduleTypeOK, scheduleVars, modeVars, shell, bounds,
       history
  <2> QED
    BY <2>1, <2>2, <2>3, <2>4, <2>5, <2>6, <2>7, <2>8, <2>9, <2>10 DEF Next
<1> QED
  BY <1>1, <1>2, PTL DEF Spec

-----------------------------------------------------------------------------
(***************************************************************************)
(* The clock of continuous mode: one chain, and only while it is armed.    *)
(* The two invariants hold each other up: a Tick that finds continuous     *)
(* mode off ends the chain, and Resume is a no-op on a running mode only   *)
(* because running excludes paused.                                        *)
(***************************************************************************)
ClockInv == OneClock /\ RunningMeansArmed

\* Every step keeps both invariants of the clock.
LEMMA ClockStep == TypeOK /\ ClockInv /\ [Next]_vars => ClockInv'
<1> SUFFICES ASSUME TypeOK, ClockInv, [Next]_vars PROVE ClockInv'
  OBVIOUS
<1> USE DEF ClockInv, OneClock, RunningMeansArmed
<1>1. CASE StartSingleTest
  BY <1>1 DEF StartSingleTest, modeVars
<1>2. ASSUME NEW i \in DOMAIN rounds, RoundEnds(i) \/ OnRoundFinished(i)
      PROVE  ClockInv'
  BY <1>2 DEF RoundEnds, OnRoundFinished, modeVars
<1>3. CASE ResumeContinuous
  <2>1. clock_armed' = TRUE /\ continuous_paused' = FALSE
    BY <1>3 DEF ResumeContinuous
  <2>2. ticks' = 1
    BY <1>3 DEF ResumeContinuous
  <2> QED
    BY <2>1, <2>2
<1>4. CASE Pause
  BY <1>4 DEF Pause
<1>5. CASE OnTick
  <2>1. clock_armed /\ ticks = 1
    BY <1>5 DEF OnTick, TypeOK
  <2>2. CASE continuous_running /\ ~continuous_paused
    BY <1>5, <2>1, <2>2 DEF OnTick
  <2>3. CASE ~(continuous_running /\ ~continuous_paused)
    <3>1. ticks' = 0
      BY <1>5, <2>1, <2>3 DEF OnTick
    <3> QED
      BY <1>5, <2>3, <3>1 DEF OnTick
  <2> QED
    BY <2>2, <2>3
<1>6. ASSUME NEW new \in SettingsChoices, CommitSettings(new) PROVE ClockInv'
  BY <1>6 DEF CommitSettings, modeVars
<1>7. CASE OnWindowIdReady \/ RestoreWindow \/ OnCloseRequested \/ Quit
  BY <1>7 DEF OnWindowIdReady, RestoreWindow, OnCloseRequested, Quit, ShellStep,
     modeVars
<1>8. CASE TimePasses \/ Jump
  BY <1>8 DEF TimePasses, Jump, MoveWall, modeVars
<1>9. CASE UNCHANGED vars
  BY <1>9 DEF vars, modeVars
<1> QED
  BY <1>1, <1>2, <1>3, <1>4, <1>5, <1>6, <1>7, <1>8, <1>9 DEF Next

\* However Pause and Resume fall between two ticks, an armed clock has exactly
\* one chain, a disarmed one has none (OneClock), and a running continuous
\* mode is always armed (RunningMeansArmed).
THEOREM ClockCorrect == Spec => [](OneClock /\ RunningMeansArmed)
<1>1. Init => ClockInv
  BY DEF Init, ClockInv, OneClock, RunningMeansArmed
<1>2. ClockInv => OneClock /\ RunningMeansArmed
  BY DEF ClockInv
<1> QED
  BY <1>1, <1>2, TypeCorrect, ClockStep, PTL DEF Spec

-----------------------------------------------------------------------------
(***************************************************************************)
(* One round at a time.                                                    *)
(***************************************************************************)

\* A step of continuous mode launches only where no round is in flight.
LEMMA StepContinuousOneRound ==
  ASSUME TypeOK, OneRound, StepContinuous
  PROVE  OneRound'
<1>1. CASE ~ScheduledDue
  BY <1>1 DEF StepContinuous, OneRound
<1>2. CASE ScheduledDue
  <2>1. Len(rounds) = 0
    BY <1>2 DEF ScheduledDue, OneRound
  <2>2. PICK round : Launch(round)
    BY <1>2 DEF StepContinuous, BeginScheduledRound
  <2>3. round_running' = TRUE /\ Len(rounds') = 1
    BY <2>1, <2>2 DEF Launch, TypeOK
  <2> QED
    BY <2>3 DEF OneRound
<1> QED
  BY <1>1, <1>2

\* Every step keeps at most one round in flight, with its flag.
LEMMA RoundStep == TypeOK /\ OneRound /\ [Next]_vars => OneRound'
<1> SUFFICES ASSUME TypeOK, OneRound, [Next]_vars PROVE OneRound'
  OBVIOUS
<1>1. CASE StartSingleTest
  <2>1. Len(rounds) = 0
    BY <1>1 DEF StartSingleTest, OneRound
  <2>2. PICK round : Launch(round)
    BY <1>1 DEF StartSingleTest
  <2>3. round_running' = TRUE /\ Len(rounds') = 1
    BY <2>1, <2>2 DEF Launch, TypeOK
  <2> QED
    BY <2>3 DEF OneRound
<1>2. ASSUME NEW i \in DOMAIN rounds, RoundEnds(i) PROVE OneRound'
  <2>1. Len(rounds') = Len(rounds)
    BY <1>2 DEF RoundEnds, TypeOK
  <2> QED
    BY <1>2, <2>1 DEF RoundEnds, OneRound
<1>3. ASSUME NEW i \in DOMAIN rounds, OnRoundFinished(i) PROVE OneRound'
  <2>1. Len(rounds) \in Nat \ {0} /\ Len(rounds') = Len(rounds) - 1
    BY <1>3, RemoveAtType, LenProperties DEF OnRoundFinished, TypeOK
  <2>2. Len(rounds) = 1
    BY <2>1 DEF OneRound
  <2> QED
    BY <1>3, <2>1, <2>2 DEF OnRoundFinished, OneRound
<1>4. CASE ResumeContinuous
  <2>1. CASE clock_armed
    BY <1>4, <2>1 DEF ResumeContinuous, OneRound
  <2>2. CASE ~clock_armed
    BY <1>4, <2>2, StepContinuousOneRound DEF ResumeContinuous
  <2> QED
    BY <2>1, <2>2
<1>5. CASE Pause
  BY <1>5 DEF Pause, OneRound
<1>6. CASE OnTick
  <2>1. CASE continuous_running /\ ~continuous_paused
    BY <1>6, <2>1, StepContinuousOneRound DEF OnTick
  <2>2. CASE ~(continuous_running /\ ~continuous_paused)
    BY <1>6, <2>2 DEF OnTick, OneRound
  <2> QED
    BY <2>1, <2>2
<1>7. ASSUME NEW new \in SettingsChoices, CommitSettings(new) PROVE OneRound'
  BY <1>7 DEF CommitSettings, OneRound
<1>8. CASE OnWindowIdReady \/ RestoreWindow \/ OnCloseRequested \/ Quit
  BY <1>8 DEF OnWindowIdReady, RestoreWindow, OnCloseRequested, Quit, ShellStep,
     OneRound
<1>9. CASE TimePasses \/ Jump
  BY <1>9 DEF TimePasses, Jump, MoveWall, OneRound
<1>10. CASE UNCHANGED vars
  BY <1>10 DEF vars, OneRound
<1> QED
  BY <1>1, <1>2, <1>3, <1>4, <1>5, <1>6, <1>7, <1>8, <1>9, <1>10 DEF Next

\* A single test and a scheduled round never share the link, and the flag that
\* keeps them apart is raised exactly while a round is in flight (OneRound).
THEOREM OneRoundAtATime == Spec => []OneRound
<1>1. Init => OneRound
  BY DEF Init, OneRound
<1> QED
  BY <1>1, TypeCorrect, RoundStep, PTL DEF Spec

-----------------------------------------------------------------------------
(***************************************************************************)
(* The cadences.                                                           *)
(***************************************************************************)

\* A scheduled round is the plan of a moment at which a slot was due.
LEMMA BeginsWhenDue ==
  ASSUME TypeOK, Next, ScheduledBegins
  PROVE  /\ NextDue(wall) <= wall
         /\ rounds'[Len(rounds')].plan = PlanNextRound(wall)
<1> DEFINE unchanged == Len(rounds') = Len(rounds)
<1>0. Len(rounds) \in Nat
  BY LenProperties DEF TypeOK
<1>00. ~unchanged
  BY <1>0 DEF ScheduledBegins
<1>1. CASE StepContinuous
  <2>1. ScheduledDue
    BY <1>1, <1>00 DEF StepContinuous
  <2> DEFINE plan == PlanNextRound(wall)
             round == [plan |-> plan, metrics |-> plan.metrics, bytes |-> None]
  <2>2. Launch(round)
    BY <1>1, <2>1 DEF StepContinuous, BeginScheduledRound
  <2>3. rounds'[Len(rounds')] = round
    <3>1. plan \in RoundPlan
      BY PlanType DEF TypeOK
    <3> HIDE DEF plan
    <3>2. round \in InFlight
      BY <3>1 DEF InFlight, RoundPlan
    <3> QED
      BY <2>2, <3>2, LaunchType DEF TypeOK
  <2> QED
    BY <2>1, <2>3 DEF ScheduledDue
<1>2. CASE StartSingleTest
  <2> DEFINE round == [plan |-> None, metrics |-> settings.metrics,
                       bytes |-> None]
  <2>1. round \in InFlight
    BY DEF TypeOK, InFlight, ScheduleTypeOK, Settings
  <2>2. rounds'[Len(rounds')] = round
    BY <1>2, <2>1, LaunchType DEF StartSingleTest, TypeOK
  <2> QED
    BY <2>2 DEF ScheduledBegins
<1>3. ASSUME NEW i \in DOMAIN rounds, RoundEnds(i) PROVE unchanged
  BY <1>3 DEF RoundEnds, TypeOK
<1>4. ASSUME NEW i \in DOMAIN rounds, OnRoundFinished(i) PROVE FALSE
  <2>1. Len(rounds') = Len(rounds) - 1
    BY <1>4, RemoveAtType DEF OnRoundFinished, TypeOK
  <2> QED
    BY <1>0, <2>1 DEF ScheduledBegins
<1>5. ResumeContinuous => StepContinuous \/ UNCHANGED rounds
  BY DEF ResumeContinuous
<1>6. OnTick => StepContinuous \/ UNCHANGED rounds
  BY DEF OnTick
<1>7. Pause => UNCHANGED rounds
  BY DEF Pause
<1>8. ASSUME NEW new \in SettingsChoices, CommitSettings(new)
      PROVE  UNCHANGED rounds
  BY <1>8 DEF CommitSettings
<1>9. OnWindowIdReady \/ RestoreWindow \/ OnCloseRequested \/ Quit
        => UNCHANGED rounds
  BY DEF OnWindowIdReady, RestoreWindow, OnCloseRequested, Quit, ShellStep
<1>10. TimePasses \/ Jump => UNCHANGED rounds
  BY DEF TimePasses, Jump, MoveWall
<1> QED
  BY <1>00, <1>1, <1>2, <1>3, <1>4, <1>5, <1>6, <1>7, <1>8, <1>9, <1>10 DEF Next

\* Neither cadence of the GUI ever bursts (CadenceKept): every scheduled round
\* that begins has its whole interval behind it.
THEOREM CadenceIsKept == Spec => CadenceKept
<1>1. TypeOK /\ [Next]_vars =>
        [ScheduledBegins =>
           LET plan == rounds'[Len(rounds')].plan
           IN  /\ plan.kind = "full" /\ last_full_start # None
                    => wall - last_full_start >= settings.throughput_every
               /\ plan.kind = "ping" /\ last_ping_start # None
                    => wall - last_ping_start >= settings.ping_every]_vars
  <2> SUFFICES ASSUME TypeOK, Next, ScheduledBegins
               PROVE  LET plan == rounds'[Len(rounds')].plan
                      IN  /\ plan.kind = "full" /\ last_full_start # None
                               => wall - last_full_start
                                    >= settings.throughput_every
                          /\ plan.kind = "ping" /\ last_ping_start # None
                               => wall - last_ping_start >= settings.ping_every
    OBVIOUS
  <2>1. wall \in Nat
    BY DEF TypeOK
  <2> QED
    BY <2>1, BeginsWhenDue, DuePlanElapsed DEF TypeOK
<1> QED
  BY <1>1, TypeCorrect, PTL DEF Spec, CadenceKept

-----------------------------------------------------------------------------
(***************************************************************************)
(* The budget.  The scheduler remembers one day alone; this is enough      *)
(* because the wall clock of the model never goes back, so a day the       *)
(* scheduler has not reached yet has not been charged.                     *)
(***************************************************************************)
SpentInv ==
  /\ budget_day # None =>
       budget_day <= DayOf(wall) /\ charged[budget_day] = bytes_today
  /\ \A d \in Days : budget_day = None \/ budget_day < d => charged[d] = 0

\* The wall clock shows an instant.
LEMMA WallIsNat == ASSUME TypeOK PROVE wall \in Nat
  BY DEF TypeOK

\* Today is one of the days of the model.
LEMMA TodayInDays == ASSUME TypeOK PROVE DayOf(wall) \in Days
<1>1. wall \in Nat /\ MaxTime \in Nat /\ wall <= MaxTime
  BY BoundAssumption DEF TypeOK
<1>2. DayOf(wall) \in Nat /\ DayOf(MaxTime) \in Nat /\ DayOf(wall) <= DayOf(MaxTime)
  BY <1>1, DayIsNat, DayMonotone
<1> QED
  BY <1>2 DEF Days

\* What the scheduler takes for today's usage is what today was charged with.
LEMMA SpentToday ==
  ASSUME TypeOK, SpentInv
  PROVE  SpentOn(DayOf(wall)) = charged[DayOf(wall)]
<1>1. DayOf(wall) \in Days /\ DayOf(wall) \in Nat
  BY TodayInDays, DayIsNat, WallIsNat
<1>2. CASE budget_day = DayOf(wall)
  BY <1>1, <1>2, NoneAssumption DEF SpentOn, SpentInv
<1>3. CASE budget_day # DayOf(wall)
  <2>1. budget_day = None \/ budget_day < DayOf(wall)
    BY <1>1, <1>3 DEF SpentInv, TypeOK, ScheduleTypeOK
  <2> QED
    BY <1>1, <1>3, <2>1 DEF SpentOn, SpentInv
<1> QED
  BY <1>2, <1>3

\* Turning the page to today changes nothing of what was charged.
LEMMA StepContinuousSpent ==
  ASSUME TypeOK, SpentInv, StepContinuous
  PROVE  SpentInv'
<1>1. UNCHANGED <<wall, charged>>
  BY DEF StepContinuous, history
<1>2. CASE UNCHANGED <<budget_day, bytes_today>>
  BY <1>1, <1>2 DEF SpentInv, Days
<1>3. CASE budget_day' = DayOf(wall) /\ bytes_today' = SpentOn(DayOf(wall))
  <2>1. DayOf(wall) \in Nat /\ DayOf(wall') = DayOf(wall)
    BY <1>1, DayIsNat DEF TypeOK
  <2>2. charged'[budget_day'] = bytes_today'
    BY <1>1, <1>3, SpentToday
  <2>3. ASSUME NEW d \in Days, DayOf(wall) < d PROVE charged[d] = 0
    <3>1. budget_day = None \/ budget_day < d
      BY <2>1, <2>3, DayIsNat, BoundAssumption
         DEF SpentInv, TypeOK, ScheduleTypeOK, Days
    <3> QED
      BY <3>1 DEF SpentInv
  <2>4. budget_day' # None
    BY <1>3, <2>1, NoneAssumption
  <2>5. budget_day' <= DayOf(wall')
    BY <1>3, <2>1
  <2> QED
    BY <1>1, <1>3, <2>2, <2>3, <2>4, <2>5 DEF SpentInv, Days
<1> QED
  BY <1>2, <1>3 DEF StepContinuous, BeginScheduledRound, RecordRoundStart,
     scheduleVars

\* Every step keeps the scheduler's day and the history of charges together.
LEMMA SpentStep == TypeOK /\ SpentInv /\ [Next]_vars => SpentInv'
<1> SUFFICES ASSUME TypeOK, SpentInv, [Next]_vars PROVE SpentInv'
  OBVIOUS
<1> DEFINE same == UNCHANGED <<budget_day, bytes_today, charged, wall>>
<1>0. ASSUME same PROVE SpentInv'
  BY <1>0 DEF SpentInv, Days, DayOf
<1>1. ASSUME NEW i \in DOMAIN rounds, OnRoundFinished(i) PROVE SpentInv'
  <2> DEFINE today == DayOf(wall)
             bytes == rounds[i].bytes
  <2>1. today \in Nat /\ today \in Days /\ wall' = wall
    BY <1>1, DayIsNat, TodayInDays, WallIsNat DEF OnRoundFinished
  <2>2. budget_day' = today /\ bytes_today' = SaturatingAdd(charged[today], bytes)
    BY <1>1, SpentToday DEF OnRoundFinished, RecordBytes
  <2>3. charged' = [charged EXCEPT ![today] = SaturatingAdd(@, bytes)]
    BY <1>1 DEF OnRoundFinished
  <2>4. charged \in [Days -> Bytes]
    BY DEF TypeOK
  <2>5. charged'[budget_day'] = bytes_today'
    BY <2>1, <2>2, <2>3, <2>4
  <2>6. ASSUME NEW d \in Days, today < d PROVE charged'[d] = 0
    <3>1. budget_day = None \/ budget_day < d
      BY <2>1, <2>6, DayIsNat, BoundAssumption
         DEF SpentInv, TypeOK, ScheduleTypeOK, Days
    <3>2. charged[d] = 0 /\ d # today
      BY <2>1, <2>6, <3>1 DEF SpentInv, Days
    <3> QED
      BY <2>3, <2>4, <3>2
  <2>7. budget_day' # None /\ budget_day' <= DayOf(wall')
    BY <2>1, <2>2, NoneAssumption
  <2> HIDE DEF today
  <2> QED
    BY <2>2, <2>5, <2>6, <2>7 DEF SpentInv, Days
<1>2. StepContinuous => SpentInv'
  BY StepContinuousSpent
<1>3. ResumeContinuous => StepContinuous \/ same
  BY DEF ResumeContinuous, scheduleVars, history
<1>4. OnTick => StepContinuous \/ same
  BY DEF OnTick, scheduleVars, history
<1>5. TimePasses \/ Jump => SpentInv'
  <2> SUFFICES ASSUME TimePasses \/ Jump PROVE SpentInv'
    OBVIOUS
  <2>1. /\ wall \in Nat /\ wall' \in Nat /\ wall <= wall'
        /\ UNCHANGED <<budget_day, bytes_today, charged>>
    BY BoundAssumption DEF TimePasses, Jump, MoveWall, TypeOK, scheduleVars,
       history
  <2>2. /\ DayOf(wall) <= DayOf(wall')
        /\ DayOf(wall) \in Nat /\ DayOf(wall') \in Nat
    BY <2>1, DayMonotone, DayIsNat
  <2>3. budget_day # None => budget_day \in Nat
    BY DEF TypeOK, ScheduleTypeOK
  <2> QED
    BY <2>1, <2>2, <2>3 DEF SpentInv, Days
<1>6. StartSingleTest => same
  BY DEF StartSingleTest, scheduleVars, history
<1>7. ASSUME NEW i \in DOMAIN rounds, RoundEnds(i) PROVE same
  BY <1>7 DEF RoundEnds, scheduleVars, history
<1>8. Pause => same
  BY DEF Pause, scheduleVars, history
<1>9. ASSUME NEW new \in SettingsChoices, CommitSettings(new) PROVE same
  BY <1>9 DEF CommitSettings, UpdateSettings, scheduleVars, history
<1>10. OnWindowIdReady \/ RestoreWindow \/ OnCloseRequested \/ Quit => same
  BY DEF OnWindowIdReady, RestoreWindow, OnCloseRequested, Quit, ShellStep,
     scheduleVars, history
<1>11. UNCHANGED vars => same
  BY DEF vars, scheduleVars, history
<1> QED
  BY <1>0, <1>1, <1>2, <1>3, <1>4, <1>5, <1>6, <1>7, <1>8, <1>9, <1>10, <1>11
     DEF Next

\* At the start nothing was charged to any day.
LEMMA SpentInit == Init => SpentInv
  BY DEF Init, InitSchedule, SpentInv

\* What plans and screens see as left is the budget less everything charged to
\* today, single tests included, under any settings (LeftIsUnspent).
THEOREM LeftIsWhatIsUnspent == Spec => []LeftIsUnspent
<1>1. TypeOK /\ SpentInv => LeftIsUnspent
  BY SpentToday DEF LeftIsUnspent, BudgetLeft
<1> QED
  BY <1>1, SpentInit, SpentStep, TypeCorrect, PTL DEF Spec

-----------------------------------------------------------------------------
(***************************************************************************)
(* Scheduled rounds and the budget.  Nothing is claimed where the user may *)
(* lift the budget.  Otherwise a round in flight fits under some budget on *)
(* top of what today's scheduled rounds have used, and stays so at         *)
(* midnight, where the new day has used nothing.                           *)
(***************************************************************************)
Unlimited == \E s \in SettingsChoices : s.daily_budget_bytes = None

Fits(bytes, d) ==
  \E s \in SettingsChoices : scheduled[d] + bytes <= s.daily_budget_bytes

Throughput(m) == m.download \/ m.upload

\* The bytes a plan lets its round charge.
Cap(plan) == IF plan.kind = "ping" THEN 0 ELSE plan.byte_ceiling

RoundFits(round) ==
  round.plan # None =>
    /\ round.metrics = round.plan.metrics
    /\ round.plan.kind = "ping" => ~Throughput(round.metrics)
    /\ Cap(round.plan) \in Bytes
    /\ round.bytes # None => round.bytes <= Cap(round.plan)
    /\ Fits(Cap(round.plan), DayOf(wall))

BudgetInv ==
  /\ settings \in SettingsChoices
  /\ \A d \in Days : scheduled[d] <= charged[d] /\ Fits(0, d)
  /\ \A i \in DOMAIN rounds : RoundFits(rounds[i])

\* A round charges no more than its ceiling, and nothing without throughput.
LEMMA ReportIsCapped ==
  ASSUME NEW m, NEW c, NEW r \in O!Reports(m, c)
  PROVE  /\ c # None => r.charged <= c
         /\ ~Throughput(m) => r.charged = 0
<1>1. r.charged \in 0 .. 2 * MaxWire
  BY DEF O!Reports, O!Report
<1>2. PICK wire \in 0 .. 2 * MaxWire, capped \in BOOLEAN :
        O!Allowed([charged |-> r.charged, wire |-> wire, read |-> r.read,
                   capped |-> capped, skipped |-> r.skipped], m, c)
  BY DEF O!Reports, O!MayReport
<1>3. r.charged <= wire
  BY <1>2 DEF O!Allowed
<1>4. ~Throughput(m) => wire = 0
  BY <1>2 DEF O!Allowed, O!Wanted, Throughput
<1>5. c # None => r.charged <= c
  BY <1>2 DEF O!Allowed
<1> QED
  BY WireAssumption, <1>1, <1>3, <1>4, <1>5

\* The plan of this moment fits under a budget, on top of today's usage.
LEMMA PlanFits ==
  ASSUME TypeOK, SpentInv, BudgetInv, ~Unlimited,
         NEW plan, plan = PlanNextRound(wall)
  PROVE  /\ plan.kind = "ping" => ~Throughput(plan.metrics)
         /\ Cap(plan) \in Bytes
         /\ Fits(Cap(plan), DayOf(wall))
<1> DEFINE today == DayOf(wall)
           budget == settings.daily_budget_bytes
           left == BudgetLeft(wall)
<1>1. today \in Days
  BY TodayInDays
<1>2. settings \in SettingsChoices /\ budget \in Bytes
  BY ChoicesAssumption DEF BudgetInv, Unlimited, Settings
<1>3. scheduled[today] \in Bytes /\ charged[today] \in Bytes
  BY <1>1 DEF TypeOK
<1>4. scheduled[today] <= charged[today] /\ Fits(0, today)
  BY <1>1 DEF BudgetInv
<1>5. left = SaturatingSub(budget, charged[today])
  BY <1>2, SpentToday DEF BudgetLeft, BudgetInv, Unlimited
<1>6. left \in Bytes
  BY <1>2, <1>3, <1>5, BytesClosed
<1>7. Fits(left, today)
  <2> HIDE DEF today, budget, left
  <2>1. CASE charged[today] <= budget
    <3>1. scheduled[today] + left <= budget
      BY <1>2, <1>3, <1>4, <1>5, <2>1 DEF SaturatingSub, Bytes
    <3> QED
      BY <1>2, <3>1 DEF Fits, budget
  <2>2. CASE ~(charged[today] <= budget)
    BY <1>4, <1>5, <2>2 DEF SaturatingSub
  <2> QED
    BY <2>1, <2>2
<1>8. \/ plan = Plan("ping", PingAlone, None, FALSE)
      \/ plan = Plan("full", PingAlone, 0, TRUE)
      \/ plan = Plan("full", settings.metrics, left, FALSE)
  BY DEF PlanNextRound
<1>9. ~Throughput(PingAlone)
  <2>1. settings.metrics \in MetricSelection
    BY DEF TypeOK, ScheduleTypeOK, Settings
  <2> QED
    BY <2>1 DEF Throughput, PingAlone, MetricSelection
<1> HIDE DEF today, budget, left
<1>10. CASE plan = Plan("ping", PingAlone, None, FALSE)
  BY <1>4, <1>9, <1>10, ZeroBytes DEF Plan, Cap, today
<1>11. CASE plan = Plan("full", PingAlone, 0, TRUE)
  BY <1>4, <1>11, ZeroBytes DEF Plan, Cap, today
<1>12. CASE plan = Plan("full", settings.metrics, left, FALSE)
  BY <1>6, <1>7, <1>12 DEF Plan, Cap, today
<1> QED
  BY <1>8, <1>10, <1>11, <1>12

\* A step of continuous mode launches a round that fits, alone.
LEMMA StepContinuousBudget ==
  ASSUME TypeOK, OneRound, SpentInv, BudgetInv, ~Unlimited, StepContinuous
  PROVE  BudgetInv'
<1>1. UNCHANGED <<settings, wall, charged, scheduled>>
  BY DEF StepContinuous, history
<1>2. /\ settings' \in SettingsChoices
      /\ \A d \in Days' : (scheduled[d] <= charged[d] /\ Fits(0, d))'
  BY <1>1 DEF BudgetInv, Fits, Days, DayOf
<1>3. (\A i \in DOMAIN rounds : RoundFits(rounds[i]))'
  <2>1. CASE ~ScheduledDue
    <3>1. UNCHANGED rounds
      BY <2>1 DEF StepContinuous
    <3> QED
      BY <1>1, <3>1 DEF BudgetInv, RoundFits, Fits, DayOf
  <2>2. CASE ScheduledDue
    <3>1. PICK plan : plan = PlanNextRound(wall)
      OBVIOUS
    <3> DEFINE round == [plan |-> plan, metrics |-> plan.metrics,
                         bytes |-> None]
    <3>2. Len(rounds) = 0 /\ rounds \in Seq(InFlight)
      BY <2>2 DEF ScheduledDue, OneRound, TypeOK
    <3>3. rounds' = Append(rounds, round)
      BY <2>2, <3>1 DEF StepContinuous, BeginScheduledRound, Launch
    <3>4. DOMAIN rounds' = {1} /\ rounds'[1] = round
      BY <3>2, <3>3
    <3>5. /\ plan.kind = "ping" => ~Throughput(plan.metrics)
          /\ Cap(plan) \in Bytes
          /\ Fits(Cap(plan), DayOf(wall))
      BY <3>1, PlanFits
    <3>6. Fits(Cap(plan), DayOf(wall))'
      BY <1>1, <3>5 DEF Fits
    <3>7. RoundFits(round)'
      BY <3>5, <3>6 DEF RoundFits
    <3> QED
      BY <3>4, <3>7
  <2> QED
    BY <2>1, <2>2
<1> QED
  BY <1>2, <1>3 DEF BudgetInv

\* A round that ends reports no more than its plan allows.
LEMMA RoundEndsBudget ==
  ASSUME TypeOK, BudgetInv, ~Unlimited, NEW i \in DOMAIN rounds, RoundEnds(i)
  PROVE  BudgetInv'
<1>1. UNCHANGED <<settings, wall, charged, scheduled>>
  BY DEF RoundEnds, history
<1>2. PICK r \in O!Reports(rounds[i].metrics, CeilingOf(rounds[i])) :
        rounds' = [rounds EXCEPT ![i].bytes = r.charged]
  BY DEF RoundEnds
<1>3. rounds[i] \in InFlight /\ rounds \in Seq(InFlight)
  BY ElementOfSeq, LenProperties DEF TypeOK
<1>4. PICK round : round = [rounds[i] EXCEPT !.bytes = r.charged]
  OBVIOUS
<1>5. /\ DOMAIN rounds' = DOMAIN rounds
      /\ \A j \in DOMAIN rounds : rounds'[j] = IF j = i THEN round ELSE rounds[j]
  BY <1>2, <1>3, <1>4
<1>6. /\ round.plan = rounds[i].plan /\ round.metrics = rounds[i].metrics
      /\ round.bytes = r.charged
  BY <1>3, <1>4 DEF InFlight
<1>7. round.plan # None => round.bytes <= Cap(round.plan)
  <2> SUFFICES ASSUME round.plan # None PROVE round.bytes <= Cap(round.plan)
    OBVIOUS
  <2>1. RoundFits(rounds[i])
    BY DEF BudgetInv
  <2>2. CASE round.plan.kind = "ping"
    <3>1. ~Throughput(rounds[i].metrics)
      BY <1>6, <2>1, <2>2 DEF RoundFits
    <3>2. r.charged = 0
      BY <3>1, ReportIsCapped
    <3> QED
      BY <1>6, <2>2, <3>2 DEF Cap
  <2>3. CASE round.plan.kind # "ping"
    <3>1. CeilingOf(rounds[i]) = Cap(round.plan)
      BY <1>6, <2>3 DEF CeilingOf, Cap
    <3>2. Cap(round.plan) # None
      BY <1>6, <2>1, NoneAssumption DEF RoundFits, Bytes
    <3> QED
      BY <1>6, <3>1, <3>2, ReportIsCapped
  <2> QED
    BY <2>2, <2>3
<1>8. RoundFits(round)
  BY <1>6, <1>7 DEF BudgetInv, RoundFits
<1>9. (\A j \in DOMAIN rounds : RoundFits(rounds[j]))'
  BY <1>1, <1>5, <1>8 DEF BudgetInv, RoundFits, Fits, DayOf
<1> QED
  BY <1>1, <1>9 DEF BudgetInv, Fits, Days, DayOf

\* A round that is handled, alone in flight, uses no more than it fitted under.
LEMMA RoundFinishedBudget ==
  ASSUME TypeOK, OneRound, BudgetInv, ~Unlimited,
         NEW i \in DOMAIN rounds, OnRoundFinished(i)
  PROVE  BudgetInv'
<1> DEFINE today == DayOf(wall)
           round == rounds[i]
           bytes == rounds[i].bytes
<1>1. Len(rounds) \in Nat \ {0} /\ Len(rounds') = Len(rounds) - 1
  BY RemoveAtType, LenProperties DEF OnRoundFinished, TypeOK
<1>2. Len(rounds') = 0 /\ rounds' \in Seq(InFlight)
  BY <1>1, RemoveAtType DEF OneRound, OnRoundFinished, TypeOK
<1>3. DOMAIN rounds' = {}
  BY <1>2, LenProperties
<1>4. round \in InFlight /\ bytes \in Bytes
  <2>1. round \in InFlight
    BY ElementOfSeq, LenProperties DEF TypeOK
  <2> QED
    BY <2>1 DEF InFlight, OnRoundFinished
<1>5. today \in Days
  BY TodayInDays
<1>6. charged \in [Days -> Bytes] /\ scheduled \in [Days -> Bytes]
  BY DEF TypeOK
<1>7. /\ charged' = [charged EXCEPT ![today] = SaturatingAdd(@, bytes)]
      /\ scheduled' = IF round.plan = None THEN scheduled
                      ELSE [scheduled EXCEPT ![today] = SaturatingAdd(@, bytes)]
      /\ UNCHANGED <<settings, wall>>
  BY DEF OnRoundFinished
<1>8. \A d \in Days : scheduled[d] <= charged[d]
  BY DEF BudgetInv
<1>9. round.plan # None => Fits(bytes, today)
  <2> SUFFICES ASSUME round.plan # None PROVE Fits(bytes, today)
    OBVIOUS
  <2>1. bytes <= Cap(round.plan) /\ Cap(round.plan) \in Bytes
    BY <1>4, NoneAssumption DEF OnRoundFinished, BudgetInv, RoundFits
  <2>2. PICK s \in SettingsChoices :
          scheduled[today] + Cap(round.plan) <= s.daily_budget_bytes
    BY DEF BudgetInv, RoundFits, Fits
  <2>3. s.daily_budget_bytes \in Bytes
    BY ChoicesAssumption DEF Unlimited, Settings
  <2>4. scheduled[today] \in Bytes
    BY <1>5, <1>6
  <2> HIDE DEF bytes, today, round
  <2>5. scheduled[today] + bytes <= s.daily_budget_bytes
    BY <1>4, <2>1, <2>2, <2>3, <2>4 DEF Bytes
  <2> QED
    BY <2>5 DEF Fits
<1> HIDE DEF today, bytes, round
<1>10. ASSUME NEW d \in Days PROVE scheduled'[d] <= charged'[d]
  <2>1. scheduled[d] \in Bytes /\ charged[d] \in Bytes
    BY <1>6
  <2>2. /\ charged[d] <= SaturatingAdd(charged[d], bytes)
        /\ SaturatingAdd(scheduled[d], bytes) <= SaturatingAdd(charged[d], bytes)
        /\ SaturatingAdd(charged[d], bytes) \in Bytes
    BY <1>4, <1>8, <2>1, SaturatingAddBounds, BytesClosed
  <2>3. CASE d = today
    <3>1. charged'[d] = SaturatingAdd(charged[d], bytes)
      BY <1>5, <1>6, <1>7, <2>3
    <3>2. scheduled'[d] \in {scheduled[d], SaturatingAdd(scheduled[d], bytes)}
      BY <1>5, <1>6, <1>7, <2>3
    <3> QED
      BY <1>8, <2>1, <2>2, <3>1, <3>2 DEF Bytes
  <2>4. CASE d # today
    BY <1>6, <1>7, <1>8, <2>4
  <2> QED
    BY <2>3, <2>4
<1>11. ASSUME NEW d \in Days PROVE Fits(0, d)'
  <2>1. CASE round.plan # None /\ d = today
    <3>1. PICK s \in SettingsChoices :
            scheduled[d] + bytes <= s.daily_budget_bytes
      BY <1>9, <2>1 DEF Fits
    <3>2. scheduled'[d] <= scheduled[d] + bytes /\ scheduled'[d] \in Bytes
      <4>1. scheduled[d] \in Bytes
        BY <1>6
      <4>2. scheduled'[d] = SaturatingAdd(scheduled[d], bytes)
        BY <1>6, <1>7, <2>1
      <4> QED
        BY <1>4, <4>1, <4>2, SaturatingAddBounds, BytesClosed
    <3>3. s.daily_budget_bytes \in Bytes /\ scheduled[d] \in Bytes
      BY <1>6, ChoicesAssumption DEF Unlimited, Settings
    <3>4. scheduled'[d] + 0 <= s.daily_budget_bytes
      BY <1>4, <3>1, <3>2, <3>3 DEF Bytes
    <3> QED
      BY <3>4 DEF Fits
  <2>2. CASE ~(round.plan # None /\ d = today)
    <3>1. scheduled'[d] = scheduled[d]
      BY <1>6, <1>7, <2>2
    <3> QED
      BY <3>1 DEF BudgetInv, Fits
  <2> QED
    BY <2>1, <2>2
<1>12. settings' \in SettingsChoices
  BY <1>7 DEF BudgetInv
<1> QED
  BY <1>3, <1>10, <1>11, <1>12 DEF BudgetInv, Days, DayOf

\* At midnight the new day has used nothing: what fitted still fits.
LEMMA TimeBudget ==
  ASSUME TypeOK, SpentInv, BudgetInv, ~Unlimited, TimePasses \/ Jump
  PROVE  BudgetInv'
<1>1. /\ wall \in Nat /\ wall' \in 0 .. MaxTime /\ wall <= wall'
      /\ UNCHANGED <<settings, charged, scheduled, rounds>>
  BY BoundAssumption DEF TimePasses, Jump, MoveWall, TypeOK, history
<1>2. /\ DayOf(wall) \in Nat /\ DayOf(wall') \in Nat
      /\ DayOf(wall') \in Days
      /\ DayOf(wall) <= DayOf(wall')
  <2>1. wall' \in Nat /\ MaxTime \in Nat /\ wall' <= MaxTime
    BY <1>1, BoundAssumption
  <2> QED
    BY <1>1, <2>1, DayIsNat, DayMonotone DEF Days
<1>3. ASSUME NEW b \in Bytes, Fits(b, DayOf(wall)) PROVE Fits(b, DayOf(wall'))
  <2> DEFINE today == DayOf(wall)
             then == DayOf(wall')
  <2> SUFFICES ASSUME today < then PROVE Fits(b, then)
    BY <1>2, <1>3
  <2>1. budget_day = None \/ budget_day < then
    BY <1>2 DEF SpentInv, TypeOK, ScheduleTypeOK, Days
  <2>2. scheduled[then] = 0
    BY <1>2, <2>1 DEF SpentInv, BudgetInv, TypeOK, Bytes
  <2>3. PICK s \in SettingsChoices :
          scheduled[today] + b <= s.daily_budget_bytes
    BY <1>3 DEF Fits
  <2>4. scheduled[today] \in Bytes /\ s.daily_budget_bytes \in Bytes
    BY TodayInDays, ChoicesAssumption DEF TypeOK, Unlimited, Settings
  <2> HIDE DEF today, then
  <2>5. scheduled[then] + b <= s.daily_budget_bytes
    BY <2>2, <2>3, <2>4 DEF Bytes
  <2> QED
    BY <2>5 DEF Fits
<1>4. ASSUME NEW i \in DOMAIN rounds, rounds[i].plan # None
      PROVE  Fits(Cap(rounds[i].plan), DayOf(wall'))
  BY <1>3, <1>4 DEF BudgetInv, RoundFits
<1>5. (\A i \in DOMAIN rounds : RoundFits(rounds[i]))'
  BY <1>1, <1>4 DEF BudgetInv, RoundFits, Fits
<1> QED
  BY <1>1, <1>5 DEF BudgetInv, Fits, Days, DayOf

\* Every step leaves each day's scheduled bytes, with the round in flight,
\* under some budget.
LEMMA BudgetStep ==
  ~Unlimited /\ TypeOK /\ OneRound /\ SpentInv /\ BudgetInv /\ [Next]_vars
    => BudgetInv'
<1> SUFFICES ASSUME ~Unlimited, TypeOK, OneRound, SpentInv, BudgetInv,
                    [Next]_vars
             PROVE  BudgetInv'
  OBVIOUS
<1> DEFINE same == UNCHANGED <<settings, wall, charged, scheduled, rounds>>
<1>0. ASSUME same PROVE BudgetInv'
  BY <1>0 DEF BudgetInv, RoundFits, Fits, Days, DayOf
<1>1. CASE StartSingleTest
  <2>1. UNCHANGED <<settings, wall, charged, scheduled>>
    BY <1>1 DEF StartSingleTest, history
  <2>2. PICK round : round.plan = None /\ Launch(round)
    BY <1>1 DEF StartSingleTest
  <2>3. Len(rounds) = 0 /\ rounds \in Seq(InFlight)
    BY <1>1 DEF StartSingleTest, OneRound, TypeOK
  <2>4. DOMAIN rounds' = {1} /\ rounds'[1] = round
    BY <2>2, <2>3 DEF Launch
  <2>5. (\A i \in DOMAIN rounds : RoundFits(rounds[i]))'
    BY <2>2, <2>4 DEF RoundFits
  <2> QED
    BY <2>1, <2>5 DEF BudgetInv, Fits, Days, DayOf
<1>2. ASSUME NEW i \in DOMAIN rounds, RoundEnds(i) PROVE BudgetInv'
  BY <1>2, RoundEndsBudget
<1>3. ASSUME NEW i \in DOMAIN rounds, OnRoundFinished(i) PROVE BudgetInv'
  BY <1>3, RoundFinishedBudget
<1>4. StepContinuous => BudgetInv'
  BY StepContinuousBudget
<1>5. ResumeContinuous => StepContinuous \/ same
  BY DEF ResumeContinuous, history
<1>6. OnTick => StepContinuous \/ same
  BY DEF OnTick, history
<1>7. ASSUME NEW new \in SettingsChoices, CommitSettings(new) PROVE BudgetInv'
  <2>1. settings' \in SettingsChoices /\ UNCHANGED <<wall, charged, scheduled, rounds>>
    BY <1>7 DEF CommitSettings, UpdateSettings, history
  <2> QED
    BY <2>1 DEF BudgetInv, RoundFits, Fits, Days, DayOf
<1>8. TimePasses \/ Jump => BudgetInv'
  BY TimeBudget
<1>9. Pause => same
  BY DEF Pause, history
<1>10. OnWindowIdReady \/ RestoreWindow \/ OnCloseRequested \/ Quit => same
  BY DEF OnWindowIdReady, RestoreWindow, OnCloseRequested, Quit, ShellStep,
     history
<1>11. UNCHANGED vars => same
  BY DEF vars, history
<1> QED
  BY <1>0, <1>1, <1>2, <1>3, <1>4, <1>5, <1>6, <1>7, <1>8, <1>9, <1>10, <1>11
     DEF Next

\* At the start every budget is untouched.
LEMMA BudgetInit == ~Unlimited /\ Init => BudgetInv
<1> SUFFICES ASSUME ~Unlimited, Init PROVE BudgetInv
  OBVIOUS
<1>1. settings \in SettingsChoices /\ settings.daily_budget_bytes \in Bytes
  BY ChoicesAssumption DEF Init, Unlimited, Settings
<1>2. \A d \in Days : scheduled[d] = 0 /\ charged[d] = 0
  BY DEF Init
<1>3. \A d \in Days : Fits(0, d)
  BY <1>1, <1>2 DEF Fits, Bytes
<1>4. DOMAIN rounds = {}
  BY DEF Init
<1> QED
  BY <1>1, <1>2, <1>3, <1>4 DEF BudgetInv

\* Scheduled rounds never charge a day more than the largest budget the user
\* may set, across midnight and edits of the settings (ScheduledWithinBudget).
THEOREM ScheduledStaysInBudget == Spec => []ScheduledWithinBudget
<1>1. CASE Unlimited
  <2>1. ScheduledWithinBudget
    BY <1>1 DEF Unlimited, ScheduledWithinBudget
  <2> QED
    BY <2>1, PTL
<1>2. CASE ~Unlimited
  <2>1. TypeOK /\ BudgetInv => ScheduledWithinBudget
    <3> SUFFICES ASSUME TypeOK, BudgetInv, NEW d \in Days
                 PROVE  \E s \in SettingsChoices :
                          \/ s.daily_budget_bytes = None
                          \/ scheduled[d] <= s.daily_budget_bytes
      BY DEF ScheduledWithinBudget
    <3>1. scheduled[d] \in Bytes
      BY DEF TypeOK
    <3>2. PICK s \in SettingsChoices : scheduled[d] + 0 <= s.daily_budget_bytes
      BY DEF BudgetInv, Fits
    <3> QED
      BY <3>1, <3>2 DEF Bytes
  <2>2. Init => BudgetInv
    BY <1>2, BudgetInit
  <2>3. TypeOK /\ OneRound /\ SpentInv /\ BudgetInv /\ [Next]_vars => BudgetInv'
    BY <1>2, BudgetStep
  <2> QED
    BY <2>1, <2>2, <2>3, SpentInit, SpentStep, TypeCorrect, OneRoundAtATime, PTL
       DEF Spec
<1> QED
  BY <1>1, <1>2
=============================================================================
