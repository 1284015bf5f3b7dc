--------------------------- MODULE ContinuousProofs ---------------------------
(***************************************************************************)
(* What holds of Continuous for every choice of its constants.             *)
(***************************************************************************)
EXTENDS Continuous, SchedulerProofs, TLAPS

\* What the proofs need of the loop's position besides the types: a round has
\* its plan.
TypeInv == TypeOK /\ (pc = "round" => plan \in RoundPlan)

-----------------------------------------------------------------------------
(***************************************************************************)
(* Type correctness.                                                       *)
(***************************************************************************)

\* What a round reports can be charged: it is within the width of a counter.
LEMMA ReportIsBytes ==
  ASSUME NEW r \in O!Report
  PROVE  /\ r.charged \in Bytes
         /\ r.read \subseteq O!Phases
         /\ r.skipped \subseteq O!Phases \cup {"ping"}
  BY WireAssumption, WidthAssumption DEF O!Report, Bytes

\* The wall clock shows an instant.
LEMMA WallIsNat == ASSUME TypeOK PROVE wall \in Nat
  BY DEF TypeOK

\* What is charged to a day keeps the history of charges well typed.
LEMMA SpentType ==
  ASSUME TypeOK, NEW b \in Bytes, NEW d,
         spent' = [spent EXCEPT ![d] = SaturatingAdd(@, b)]
  PROVE  spent' \in [Days -> Bytes]
<1>1. \A e \in Days : SaturatingAdd(spent[e], b) \in Bytes
  BY BytesClosed DEF TypeOK
<1> QED
  BY <1>1 DEF TypeOK

\* Every step keeps the types.
LEMMA TypeStep == TypeInv /\ [Next]_vars => TypeInv'
<1> SUFFICES ASSUME TypeInv, [Next]_vars PROVE TypeInv'
  OBVIOUS
<1> USE DEF TypeInv
<1>1. CASE Begin
  <2>1. PICK p : p = PlanNextRound(wall)
    OBVIOUS
  <2>2. p \in RoundPlan
    BY <2>1, PlanType DEF TypeOK
  <2>3. ScheduleTypeOK'
    BY <1>1, WallIsNat, RecordStartType DEF Begin, TypeOK
  <2>4. started' \in Nat
    BY <1>1, WallIsNat DEF Begin
  <2> QED
    BY <1>1, <2>1, <2>2, <2>3, <2>4 DEF Begin, TypeOK
<1>2. ASSUME NEW r \in O!Report, pc = "round", Finish(r) PROVE TypeInv'
  <2>1. /\ r.charged \in Bytes
        /\ r.read \subseteq O!Phases
        /\ r.skipped \subseteq O!Phases \cup {"ping"}
    BY ReportIsBytes
  <2>2. ScheduleTypeOK'
    BY <1>2, <2>1, RecordBytesType DEF Finish, TypeOK
  <2>3. spent' \in [Days -> Bytes]
    BY <1>2, <2>1, SpentType DEF Finish
  <2>4. sleep_left' \in Nat
    BY <1>2, WallIsNat, NextDueIsDue DEF Finish, TypeOK
  <2>5. row' \in Row
    BY <1>2, <2>1 DEF Finish, StoredRow, Row, TypeOK, RoundPlan
  <2>6. last_retention' \in Nat
    BY <1>2 DEF Finish, TypeOK
  <2> QED
    BY <1>2, <2>2, <2>3, <2>4, <2>5, <2>6 DEF Finish, TypeOK
<1>3. ASSUME NEW r \in O!Report, StoreFails(r) PROVE TypeInv'
  <2>1. r.charged \in Bytes
    BY ReportIsBytes
  <2>2. ScheduleTypeOK'
    BY <1>3, <2>1, RecordBytesType DEF StoreFails, TypeOK
  <2>3. spent' \in [Days -> Bytes]
    BY <1>3, <2>1, SpentType DEF StoreFails
  <2> QED
    BY <1>3, <2>2, <2>3 DEF StoreFails, TypeOK
<1>4. CASE Wake \/ Crash \/ CtrlC
  BY <1>4 DEF Wake, Crash, CtrlC, Stop, TypeOK, ScheduleTypeOK, scheduleVars,
     history
<1>5. CASE Restart
  <2>1. ScheduleTypeOK'
    BY <1>5, ZeroBytes DEF Restart, ForgetSchedule, TypeOK, ScheduleTypeOK
  <2>2. spent' \in [Days -> Bytes]
    BY <1>5, ZeroBytes DEF Restart, Days
  <2> QED
    BY <1>5, <2>1, <2>2, WallIsNat DEF Restart, TypeOK
<1>6. CASE Tick
  <2>1. sleep_left' \in Nat
    BY <1>6 DEF Tick, TypeOK
  <2> QED
    BY <1>6, <2>1 DEF Tick, MoveWall, TypeOK, ScheduleTypeOK, scheduleVars,
       loopVars
<1>7. ASSUME NEW d \in Jumps, Jump(d) PROVE TypeInv'
  BY <1>7 DEF Jump, MoveWall, TypeOK, ScheduleTypeOK, scheduleVars, loopVars
<1>8. ASSUME NEW d \in Jumps, StepBack(d) PROVE TypeInv'
  <2>1. step_backs' \in 0 .. MaxStepBacks
    BY <1>8, ClockAssumption DEF StepBack, TypeOK
  <2> QED
    BY <1>8, <2>1 DEF StepBack, MoveWall, TypeOK, ScheduleTypeOK, scheduleVars,
       loopVars
<1>9. CASE UNCHANGED vars
  BY <1>9 DEF vars, TypeOK, ScheduleTypeOK, scheduleVars, loopVars, history
<1> QED
  BY <1>1, <1>2, <1>3, <1>4, <1>5, <1>6, <1>7, <1>8, <1>9
     DEF Next, Loop, Round, LostRound, Reports, O!Reports

\* The loop starts well typed.
LEMMA TypeInit == Init => TypeInv
<1> SUFFICES ASSUME Init PROVE TypeInv
  OBVIOUS
<1>1. ScheduleTypeOK
  BY ChoicesAssumption, ZeroBytes DEF Init, InitSchedule, ScheduleTypeOK
<1>2. 0 \in 0 .. MaxTime /\ 0 \in 0 .. MaxStepBacks
  BY ClockAssumption
<1> QED
  BY <1>1, <1>2, ZeroBytes DEF Init, TypeInv, TypeOK

\* The variables of the loop keep their types (TypeOK): no sleep is negative,
\* and a stored row always has the kind of a plan.
THEOREM TypeCorrect == Spec => []TypeOK
<1>1. TypeInv => TypeOK
  BY DEF TypeInv
<1> QED
  BY <1>1, TypeInit, TypeStep, PTL DEF Spec

-----------------------------------------------------------------------------
(***************************************************************************)
(* The cadences.                                                           *)
(***************************************************************************)

\* A start is the plan of this moment.
LEMMA StartsAreBegin ==
  ASSUME Next, Starts
  PROVE  started' = wall /\ plan' = PlanNextRound(wall)
BY DEF Starts, Next, Loop, Begin, Round, LostRound, Finish, StoreFails, Wake,
   Crash, CtrlC, Stop, Restart, Tick, Jump, StepBack, MoveWall, loopVars

\* A ping-only round starts only strictly before the next throughput slot,
\* whatever happened to the wall clock (PingYieldsToFull).
THEOREM PingYields == Spec => PingYieldsToFull
<1>1. TypeOK /\ [Next]_vars =>
        [Starts /\ plan'.kind = "ping"
           => /\ last_full_start # None
              /\ started' < last_full_start + settings.throughput_every]_vars
  <2> SUFFICES ASSUME TypeOK, Next, Starts, plan'.kind = "ping"
               PROVE  /\ last_full_start # None
                      /\ started' < last_full_start + settings.throughput_every
    OBVIOUS
  <2> QED
    BY StartsAreBegin, PingPlanIsEarly, WallIsNat DEF TypeOK
<1> QED
  BY <1>1, TypeCorrect, PTL DEF Spec, PingYieldsToFull

\* Before every start, and at the end of every sleep, a slot is due, as long
\* as the wall clock was never set back; and a full round's start is also the
\* last start of the ping cadence.
CadenceInv ==
  /\ plan # None => last_ping_start = started
  /\ step_backs = 0 =>
       /\ pc = "begin" => SlotDue(wall)
       /\ pc = "sleep" => SlotDue(wall + sleep_left)

\* Time that passes leaves due what is due.
LEMMA CadenceTime ==
  ASSUME TypeOK, CadenceInv,
         NEW to \in Nat, NEW left \in Nat, wall' = to, sleep_left' = left,
         wall <= to, wall + sleep_left <= to + left,
         UNCHANGED <<settings, scheduleVars, pc, plan, started, step_backs>>
  PROVE  CadenceInv'
<1>1. wall \in Nat /\ sleep_left \in Nat
  BY DEF TypeOK
<1>2. SlotDue(wall) => SlotDue(to)
  BY <1>1, SlotStaysDue DEF TypeOK
<1>3. SlotDue(wall + sleep_left) => SlotDue(to + left)
  <2>1. PICK woken \in Nat : woken = wall + sleep_left
    BY <1>1
  <2>2. PICK later \in Nat : later = to + left
    OBVIOUS
  <2>3. SlotDue(woken) => SlotDue(later)
    BY <2>1, <2>2, SlotStaysDue DEF TypeOK
  <2> QED
    BY <2>1, <2>2, <2>3
<1> QED
  BY <1>2, <1>3 DEF CadenceInv, SlotDue, scheduleVars

\* Every step keeps the cadences.
LEMMA CadenceStep == TypeOK /\ CadenceInv /\ [Next]_vars => CadenceInv'
<1> SUFFICES ASSUME TypeOK, CadenceInv, [Next]_vars PROVE CadenceInv'
  OBVIOUS
<1>1. CASE Begin
  BY <1>1 DEF Begin, RecordRoundStart, CadenceInv
<1>2. ASSUME NEW r, Finish(r) PROVE CadenceInv'
  <2>1. /\ UNCHANGED <<settings, last_full_start, last_ping_start, wall, plan,
                       started>>
        /\ pc' = "sleep" /\ sleep_left' = NextDue(wall) - wall
    BY <1>2 DEF Finish, RecordBytes
  <2>2. SlotDue(NextDue(wall)) /\ wall + sleep_left' = NextDue(wall)
    BY <2>1, WallIsNat, NextDueIsDue DEF TypeOK
  <2> QED
    BY <2>1, <2>2 DEF CadenceInv, SlotDue
<1>3. ASSUME NEW r, StoreFails(r) PROVE CadenceInv'
  BY <1>3 DEF StoreFails, RecordBytes, CadenceInv
<1>4. CASE Wake
  <2>1. wall + sleep_left = wall
    BY <1>4, WallIsNat DEF Wake
  <2> QED
    BY <1>4, <2>1 DEF Wake, CadenceInv, SlotDue, scheduleVars, history
<1>5. CASE Crash \/ CtrlC
  BY <1>5 DEF Crash, CtrlC, Stop, CadenceInv, scheduleVars
<1>6. CASE Restart
  BY <1>6 DEF Restart, ForgetSchedule, CadenceInv, SlotDue, Overdue
<1>7. CASE Tick
  <2>1. /\ wall' = wall + 1 /\ wall \in Nat /\ sleep_left \in Nat
        /\ sleep_left' = IF sleep_left = 0 THEN 0 ELSE sleep_left - 1
    BY <1>7 DEF Tick, MoveWall, TypeOK
  <2> QED
    BY <1>7, <2>1, CadenceTime DEF Tick, MoveWall, loopVars, history
<1>8. ASSUME NEW d \in Jumps, Jump(d) PROVE CadenceInv'
  <2>1. /\ wall' = wall + d /\ d \in Nat /\ wall \in Nat /\ sleep_left \in Nat
        /\ sleep_left' = sleep_left
    BY <1>8, ClockAssumption DEF Jump, MoveWall, TypeOK
  <2> QED
    BY <1>8, <2>1, CadenceTime DEF Jump, MoveWall, loopVars
<1>9. ASSUME NEW d \in Jumps, StepBack(d) PROVE CadenceInv'
  <2>1. step_backs' # 0
    BY <1>9 DEF StepBack, TypeOK
  <2> QED
    BY <1>9, <2>1 DEF StepBack, MoveWall, CadenceInv, scheduleVars, loopVars
<1>10. CASE UNCHANGED vars
  BY <1>10 DEF vars, CadenceInv, SlotDue, scheduleVars, loopVars, history
<1> QED
  BY <1>1, <1>2, <1>3, <1>4, <1>5, <1>6, <1>7, <1>8, <1>9, <1>10
     DEF Next, Loop, Round, LostRound

\* As long as the clock is never set back neither cadence bursts, whatever was
\* missed during suspends and long rounds, crashes and restarts (CadenceKept).
THEOREM CadenceIsKept == Spec => CadenceKept
<1>1. Init => CadenceInv
  BY DEF Init, InitSchedule, CadenceInv, SlotDue, Overdue
<1>2. TypeOK /\ CadenceInv /\ [Next]_vars =>
        [Starts /\ step_backs = 0 =>
           /\ plan'.kind = "full" /\ last_full_start # None
                => started' - last_full_start >= settings.throughput_every
           /\ plan'.kind = "ping" /\ plan # None
                => started' - started >= settings.ping_every]_vars
  <2> SUFFICES ASSUME TypeOK, CadenceInv, Next, Starts, step_backs = 0
               PROVE  /\ plan'.kind = "full" /\ last_full_start # None
                           => started' - last_full_start
                                >= settings.throughput_every
                      /\ plan'.kind = "ping" /\ plan # None
                           => started' - started >= settings.ping_every
    OBVIOUS
  <2>1. NextDue(wall) <= wall
    BY WallIsNat, SlotDueIsNextDue DEF Starts, CadenceInv, TypeOK
  <2>2. started \in Nat
    BY DEF TypeOK
  <2>3. plan # None => last_ping_start = started /\ last_ping_start # None
    BY <2>2, NoneAssumption DEF CadenceInv
  <2> QED
    BY <2>1, <2>3, StartsAreBegin, WallIsNat, DuePlanElapsed DEF TypeOK
<1> QED
  BY <1>1, <1>2, CadenceStep, TypeCorrect, PTL DEF Spec, CadenceKept

-----------------------------------------------------------------------------
(***************************************************************************)
(* The history of charges and the scheduler's counter, as long as the wall *)
(* clock was never set back: a charge goes to the day its round began on,  *)
(* which is never before budget_day nor after today.                       *)
(***************************************************************************)
SpentInv ==
  /\ started <= wall
  /\ budget_day # None => budget_day <= DayOf(started)
  /\ \A d \in Days :
       IF budget_day = None \/ budget_day < d THEN spent[d] = 0
       ELSE budget_day = d => spent[d] = bytes_today

SteadySpent == step_backs = 0 => SpentInv

\* The day of an instant the model reaches.
LEMMA DayInDays == ASSUME NEW t \in Nat, t <= MaxTime PROVE DayOf(t) \in Days
<1>1. DayOf(t) \in Nat /\ DayOf(MaxTime) \in Nat /\ DayOf(t) <= DayOf(MaxTime)
  BY ClockAssumption, DayIsNat, DayMonotone
<1> QED
  BY <1>1 DEF Days

\* The days of the last start and of now, in their order.
LEMMA DaysInOrder ==
  ASSUME TypeOK, SpentInv
  PROVE  /\ DayOf(started) \in Days /\ DayOf(wall) \in Days
         /\ DayOf(started) <= DayOf(wall)
<1>1. /\ started \in Nat /\ wall \in Nat /\ started <= wall
      /\ wall <= MaxTime /\ MaxTime \in Nat
  BY ClockAssumption DEF TypeOK, SpentInv
<1>2. started <= MaxTime
  BY <1>1
<1> QED
  BY <1>1, <1>2, DayInDays, DayMonotone

\* On the day of the last start and on every later one the counter is what was
\* charged to that day.
LEMMA SpentSinceStart ==
  ASSUME TypeOK, SpentInv, NEW d \in Days, DayOf(started) <= d
  PROVE  SpentOn(d) = spent[d]
<1>1. d \in Nat /\ (budget_day # None => budget_day \in Nat)
  BY DEF Days, TypeOK, ScheduleTypeOK
<1>2. DayOf(started) \in Nat
  BY DayIsNat DEF TypeOK
<1>3. CASE budget_day = d
  BY <1>1, <1>3, NoneAssumption DEF SpentOn, SpentInv
<1>4. CASE budget_day # d
  BY <1>1, <1>2, <1>4 DEF SpentOn, SpentInv
<1> QED
  BY <1>3, <1>4

\* A start refreshes the counter of its day and changes no charge.
LEMMA BeginSpent ==
  ASSUME TypeOK, SpentInv, Begin
  PROVE  SpentInv'
<1> DEFINE today == DayOf(wall)
<1>1. /\ started' = wall /\ wall' = wall /\ spent' = spent
      /\ \/ budget_day' = today /\ bytes_today' = SpentOn(today)
         \/ UNCHANGED <<budget_day, bytes_today>>
  BY DEF Begin, RecordRoundStart
<1>2. /\ DayOf(started) \in Days /\ today \in Days /\ DayOf(started) <= today
      /\ SpentOn(today) = spent[today]
  BY DaysInOrder, SpentSinceStart
<1>3. /\ \A d \in Days : d \in Nat
      /\ budget_day # None => budget_day \in Nat
  BY DEF Days, TypeOK, ScheduleTypeOK
<1>4. wall \in Nat
  BY WallIsNat
<1>5. CASE budget_day' = today /\ bytes_today' = SpentOn(today)
  <2> HIDE DEF today
  <2>1. today # None
    BY <1>2, <1>3, NoneAssumption
  <2>2. \A d \in Days : today < d => spent[d] = 0
    BY <1>2, <1>3 DEF SpentInv
  <2>3. (\A d \in Days : IF budget_day = None \/ budget_day < d THEN spent[d] = 0
                         ELSE budget_day = d => spent[d] = bytes_today)'
    BY <1>1, <1>2, <1>3, <1>5, <2>1, <2>2 DEF Days, DayOf
  <2>4. (started <= wall)' /\ (budget_day # None => budget_day <= DayOf(started))'
    BY <1>1, <1>2, <1>3, <1>4, <1>5 DEF today, DayOf
  <2> QED
    BY <2>3, <2>4 DEF SpentInv
<1>6. CASE UNCHANGED <<budget_day, bytes_today>>
  <2>1. budget_day # None => budget_day <= today
    BY <1>2, <1>3 DEF SpentInv
  <2>2. (\A d \in Days : IF budget_day = None \/ budget_day < d THEN spent[d] = 0
                         ELSE budget_day = d => spent[d] = bytes_today)'
    BY <1>1, <1>6 DEF SpentInv, Days, DayOf
  <2>3. (started <= wall)' /\ (budget_day # None => budget_day <= DayOf(started))'
    BY <1>1, <1>4, <1>6, <2>1 DEF DayOf
  <2> QED
    BY <2>2, <2>3 DEF SpentInv
<1> QED
  BY <1>1, <1>5, <1>6

\* The end of a round charges the day it began on.
LEMMA ChargeSpent ==
  ASSUME TypeOK, SpentInv, NEW b \in Bytes,
         RecordBytes(started, b),
         spent' = [spent EXCEPT ![DayOf(started)] = SaturatingAdd(@, b)],
         UNCHANGED <<started, wall>>
  PROVE  SpentInv'
<1> DEFINE day == DayOf(started)
<1>1. day \in Days /\ SpentOn(day) = spent[day]
  BY DaysInOrder, SpentSinceStart, DayIsNat DEF Days
<1>2. /\ budget_day' = day
      /\ bytes_today' = SaturatingAdd(spent[day], b)
  BY <1>1 DEF RecordBytes
<1>3. /\ \A d \in Days : d \in Nat
      /\ budget_day # None => budget_day \in Nat /\ budget_day <= day
  BY DEF Days, TypeOK, ScheduleTypeOK, SpentInv
<1>4. \A d \in Days : spent'[d] = IF d = day THEN SaturatingAdd(spent[d], b)
                                  ELSE spent[d]
  BY DEF TypeOK
<1> HIDE DEF day
<1>5. \A d \in Days : day < d => spent[d] = 0
  BY <1>1, <1>3 DEF SpentInv
<1>6. day # None
  BY <1>1, <1>3, NoneAssumption
<1>7. (\A d \in Days : IF budget_day = None \/ budget_day < d THEN spent[d] = 0
                       ELSE budget_day = d => spent[d] = bytes_today)'
  BY <1>1, <1>2, <1>3, <1>4, <1>5, <1>6 DEF Days, DayOf
<1>8. (started <= wall)' /\ (budget_day # None => budget_day <= DayOf(started))'
  BY <1>1, <1>2, <1>3 DEF SpentInv, day, DayOf
<1> QED
  BY <1>7, <1>8 DEF SpentInv

\* Every step keeps the history of charges and the counter together.
LEMMA SpentStep ==
  TypeOK /\ TypeOK' /\ SteadySpent /\ [Next]_vars => SteadySpent'
<1> SUFFICES ASSUME TypeOK, TypeOK', [Next]_vars, step_backs = 0 => SpentInv,
                    step_backs' = 0
             PROVE  SpentInv'
  BY DEF SteadySpent
<1> DEFINE same == /\ UNCHANGED <<started, budget_day, bytes_today, spent>>
                   /\ step_backs' = step_backs
<1>0. ASSUME same, wall <= wall' PROVE SpentInv'
  <2>1. started \in Nat /\ wall \in Nat /\ wall' \in Nat
    BY WallIsNat DEF TypeOK
  <2>2. started <= wall'
    BY <1>0, <2>1 DEF SpentInv
  <2> QED
    BY <1>0, <2>2 DEF SpentInv, Days, DayOf
<1>1. CASE Begin
  BY <1>1, BeginSpent DEF Begin
<1>2. ASSUME NEW r \in O!Report, Finish(r) PROVE SpentInv'
  BY <1>2, ReportIsBytes, ChargeSpent DEF Finish
<1>3. ASSUME NEW r \in O!Report, StoreFails(r) PROVE SpentInv'
  BY <1>3, ReportIsBytes, ChargeSpent DEF StoreFails
<1>4. Wake \/ Crash \/ CtrlC => same /\ wall' = wall
  BY DEF Wake, Crash, CtrlC, Stop, scheduleVars, history
<1>5. CASE Restart
  <2>1. /\ budget_day' = None /\ started' = wall /\ wall' = wall
        /\ \A d \in Days : spent'[d] = 0
    BY <1>5 DEF Restart, ForgetSchedule
  <2> QED
    BY <2>1, WallIsNat DEF SpentInv, Days, DayOf
<1>6. Tick => same /\ wall' = wall + 1
  BY DEF Tick, MoveWall, scheduleVars, loopVars
<1>7. ASSUME NEW d \in Jumps, Jump(d) PROVE same /\ wall' = wall + d /\ d \in Nat
  BY <1>7, ClockAssumption DEF Jump, MoveWall, scheduleVars, loopVars
<1>8. ASSUME NEW d \in Jumps, StepBack(d) PROVE FALSE
  BY <1>8 DEF StepBack, TypeOK
<1>9. UNCHANGED vars => same /\ wall' = wall
  BY DEF vars, scheduleVars, loopVars, history
<1>10. wall \in Nat
  BY WallIsNat
<1>11. \A d \in Nat : wall' = wall + d => wall <= wall'
  BY <1>10
<1> HIDE DEF same
<1>12. Wake \/ Crash \/ CtrlC \/ UNCHANGED vars => SpentInv'
  BY <1>0, <1>4, <1>9, <1>10
<1>13. Tick \/ (\E d \in Jumps : Jump(d)) => SpentInv'
  BY <1>0, <1>6, <1>7, <1>11
<1> QED
  BY <1>1, <1>2, <1>3, <1>5, <1>8, <1>12, <1>13
     DEF Next, Loop, Round, LostRound, Reports, O!Reports

\* While the clock is never set back, what is left is the budget less all that
\* was charged to today, also right after midnight (LeftIsUnspent).
THEOREM LeftIsWhatIsUnspent == Spec => []LeftIsUnspent
<1>1. TypeOK /\ SteadySpent => LeftIsUnspent
  BY DaysInOrder, SpentSinceStart DEF SteadySpent, LeftIsUnspent, BudgetLeft
<1>2. Init => SteadySpent
  <2>1. Init => started = 0 /\ wall = 0 /\ budget_day = None
                /\ \A d \in Days : spent[d] = 0
    BY DEF Init, InitSchedule
  <2> QED
    BY <2>1 DEF SteadySpent, SpentInv
<1> QED
  BY <1>1, <1>2, SpentStep, TypeCorrect, PTL DEF Spec

-----------------------------------------------------------------------------
(***************************************************************************)
(* The budget of a day.  A round fits into what its day had left when it   *)
(* began, and nothing else is charged to that day until it ends.           *)
(***************************************************************************)
Budget == settings.daily_budget_bytes

\* The bytes a plan lets its round charge.
Cap(p) == IF p.kind = "ping" THEN 0 ELSE p.byte_ceiling

\* Metrics that include a throughput phase.
Attempts(metrics) == metrics.download \/ metrics.upload

\* A plan that fits on top of what day d has used.
PlanFits(p, d) ==
  /\ p.kind = "ping" => ~Attempts(p.metrics)
  /\ Cap(p) \in Bytes
  /\ spent[d] + Cap(p) <= Budget

BudgetInv ==
  /\ \A d \in Days : spent[d] <= Budget
  /\ pc = "round" => PlanFits(plan, DayOf(started))

SteadyBudget == step_backs = 0 /\ Budget # None => BudgetInv

\* A round charges no more than its ceiling, and nothing without throughput.
LEMMA ReportIsCapped ==
  ASSUME NEW m, NEW c, NEW r \in O!Reports(m, c)
  PROVE  /\ c # None => r.charged <= c
         /\ ~Attempts(m) => r.charged = 0
<1>1. r.charged \in 0 .. 2 * MaxWire
  BY DEF O!Reports, O!Report
<1>2. PICK wire \in 0 .. 2 * MaxWire, capped \in BOOLEAN :
        O!Allowed([charged |-> r.charged, wire |-> wire, read |-> r.read,
                   capped |-> capped, skipped |-> r.skipped], m, c)
  BY DEF O!Reports, O!MayReport
<1>3. r.charged <= wire /\ (~Attempts(m) => wire = 0)
  BY <1>2 DEF O!Allowed, O!Wanted, Attempts
<1>4. c # None => r.charged <= c
  BY <1>2 DEF O!Allowed
<1> QED
  BY WireAssumption, <1>1, <1>3, <1>4

\* The plan of this moment fits into what today has left.
LEMMA NextPlanFits ==
  ASSUME TypeOK, SpentInv, Budget # None, \A d \in Days : spent[d] <= Budget,
         NEW p, p = PlanNextRound(wall)
  PROVE  PlanFits(p, DayOf(wall))
<1> DEFINE today == DayOf(wall)
           left == BudgetLeft(wall)
<1>1. today \in Days /\ SpentOn(today) = spent[today]
  BY DaysInOrder, SpentSinceStart
<1>2. Budget \in Bytes /\ spent[today] \in Bytes
  BY <1>1 DEF Budget, TypeOK, ScheduleTypeOK, Settings
<1>3. left = Budget - spent[today]
  BY <1>1, <1>2 DEF BudgetLeft, SaturatingSub, Budget
<1>4. spent[today] <= Budget
  BY <1>1
<1>5. \/ p = Plan("ping", PingAlone, None, FALSE)
      \/ p = Plan("full", PingAlone, 0, TRUE)
      \/ p = Plan("full", settings.metrics, left, FALSE)
  BY DEF PlanNextRound
<1>6. ~Attempts(PingAlone)
  <2>1. settings.metrics \in MetricSelection
    BY DEF TypeOK, ScheduleTypeOK, Settings
  <2> QED
    BY <2>1 DEF Attempts, PingAlone, MetricSelection
<1>7. Cap(p) = 0 \/ Cap(p) = left
  BY <1>5 DEF Plan, Cap
<1>8. p.kind = "ping" => ~Attempts(p.metrics)
  BY <1>5, <1>6 DEF Plan
<1> HIDE DEF today, left
<1> DEFINE used == spent[today]
<1> HIDE DEF used
<1>9. used \in Bytes /\ used <= Budget /\ left = Budget - used
  BY <1>2, <1>3, <1>4 DEF used
<1>10. left \in Bytes /\ used + left <= Budget
  BY <1>2, <1>9, WidthAssumption DEF Bytes
<1>11. Cap(p) \in Bytes /\ used + Cap(p) <= Budget
  BY <1>2, <1>7, <1>9, <1>10, WidthAssumption DEF Bytes
<1> QED
  BY <1>8, <1>11 DEF PlanFits, today, used

\* Every step keeps each day, with the round in flight, within the budget.
LEMMA BudgetStep ==
  TypeInv /\ SteadySpent /\ SteadyBudget /\ [Next]_vars /\ TypeOK'
    => SteadyBudget'
<1> SUFFICES ASSUME TypeInv, TypeOK', SteadySpent, SteadyBudget, [Next]_vars,
                    step_backs' = 0, Budget' # None
             PROVE  BudgetInv'
  BY DEF SteadyBudget
<1> DEFINE same == /\ UNCHANGED <<settings, spent, started, plan>>
                   /\ pc' = "round" => pc = "round"
                   /\ step_backs' = step_backs
<1>0. ASSUME same PROVE BudgetInv'
  BY <1>0 DEF SteadyBudget, BudgetInv, PlanFits, Budget, Days, DayOf, Cap, Attempts
<1>1. CASE Begin
  <2>1. /\ UNCHANGED <<settings, spent, wall>> /\ step_backs = 0
        /\ started' = wall
    BY <1>1 DEF Begin
  <2>2. PICK p : p = PlanNextRound(wall)
    OBVIOUS
  <2>3. plan' = p
    BY <1>1, <2>2 DEF Begin
  <2>4. \A d \in Days : spent[d] <= Budget
    BY <2>1 DEF SteadyBudget, BudgetInv, Budget
  <2>5. PlanFits(p, DayOf(wall))
    BY <2>1, <2>2, <2>4, NextPlanFits DEF SteadySpent, TypeInv, Budget
  <2> QED
    BY <2>1, <2>3, <2>4, <2>5 DEF BudgetInv, PlanFits, Budget, Days, DayOf
<1>2. ASSUME NEW r \in Reports, pc = "round", pc' # "round",
             spent' = [spent EXCEPT ![DayOf(started)] = SaturatingAdd(@, r.charged)],
             UNCHANGED <<settings, step_backs>>
      PROVE  BudgetInv'
  <2> DEFINE day == DayOf(started)
             used == spent[day]
  <2>1. step_backs = 0 /\ Budget \in Bytes
    BY <1>2, WidthAssumption DEF Budget, TypeInv, TypeOK, ScheduleTypeOK, Settings
  <2>2. PlanFits(plan, day) /\ \A d \in Days : spent[d] <= Budget
    BY <1>2, <2>1 DEF SteadyBudget, BudgetInv, Budget
  <2>3. day \in Days /\ used \in Bytes
    BY <2>1, DaysInOrder DEF SteadySpent, TypeInv, TypeOK
  <2>4. r.charged \in Bytes
    BY ReportIsBytes DEF Reports, O!Reports
  <2>5. r.charged <= Cap(plan) /\ Cap(plan) \in Bytes
    <3>1. plan.kind = "ping" => ~Attempts(Selected)
      BY <2>2 DEF PlanFits, Attempts, Selected, Intersect
    <3>2. plan.kind = "ping" => r.charged = 0
      BY <3>1, ReportIsCapped DEF Reports
    <3>3. plan.byte_ceiling # None => r.charged <= plan.byte_ceiling
      BY ReportIsCapped DEF Reports
    <3>4. Cap(plan) \in Bytes /\ Cap(plan) # None
      BY <2>2, NoneAssumption DEF PlanFits, Bytes
    <3> QED
      BY <3>2, <3>3, <3>4 DEF Cap
  <2>6. \A d \in Days : spent'[d] = IF d = day THEN SaturatingAdd(used, r.charged)
                                    ELSE spent[d]
    BY <1>2 DEF TypeInv, TypeOK
  <2>7. used + Cap(plan) <= Budget
    BY <2>2 DEF PlanFits
  <2> HIDE DEF used, day
  <2>8. SaturatingAdd(used, r.charged) <= used + r.charged
    BY <2>3, <2>4, SaturatingAddBounds
  <2>9. SaturatingAdd(used, r.charged) \in Bytes
    BY <2>3, <2>4, BytesClosed
  <2>10. SaturatingAdd(used, r.charged) <= Budget
    BY <2>1, <2>3, <2>4, <2>5, <2>7, <2>8, <2>9, WidthAssumption DEF Bytes
  <2> QED
    BY <1>2, <2>2, <2>6, <2>10 DEF BudgetInv, Budget, Days, DayOf
<1>3. ASSUME NEW r \in Reports, pc = "round", Finish(r) \/ StoreFails(r)
      PROVE  BudgetInv'
  BY <1>2, <1>3 DEF Finish, StoreFails
<1>4. Wake \/ Crash \/ CtrlC => same
  BY DEF Wake, Crash, CtrlC, Stop, history
<1>5. CASE Restart
  <2>1. pc' # "round" /\ settings' = settings /\ \A d \in Days : spent'[d] = 0
    BY <1>5 DEF Restart
  <2>2. Budget \in Bytes
    BY <2>1 DEF Budget, TypeInv, TypeOK, ScheduleTypeOK, Settings
  <2>3. 0 <= Budget
    BY <2>2 DEF Bytes
  <2> QED
    BY <2>1, <2>3 DEF BudgetInv, Budget, Days, DayOf
<1>6. Tick => same
  BY DEF Tick, MoveWall, loopVars
<1>7. ASSUME NEW d \in Jumps, Jump(d) PROVE same
  BY <1>7 DEF Jump, MoveWall, loopVars
<1>8. ASSUME NEW d \in Jumps, StepBack(d) PROVE FALSE
  BY <1>8 DEF StepBack, TypeInv, TypeOK
<1>9. UNCHANGED vars => same
  BY DEF vars, loopVars, history
<1> HIDE DEF same
<1> QED
  BY <1>0, <1>1, <1>3, <1>4, <1>5, <1>6, <1>7, <1>8, <1>9
     DEF Next, Loop, Round, LostRound

\* As long as the clock is never set back, no day is ever charged more than its
\* budget by one process, over any number of rounds (BudgetKept).
THEOREM BudgetIsKept == Spec => []BudgetKept
<1>1. TypeInv => TypeOK
  BY DEF TypeInv
<1>2. SteadyBudget => BudgetKept
  BY DEF SteadyBudget, BudgetInv, BudgetKept, Budget
<1>3. Init => SteadySpent /\ SteadyBudget
  <2> SUFFICES ASSUME Init PROVE SpentInv /\ (Budget # None => BudgetInv)
    BY DEF SteadySpent, SteadyBudget
  <2>1. /\ started = 0 /\ wall = 0 /\ budget_day = None /\ pc = "begin"
        /\ \A d \in Days : spent[d] = 0
    BY DEF Init, InitSchedule
  <2>2. Budget # None => Budget \in Nat
    BY ChoicesAssumption, WidthAssumption DEF Init, Budget, Settings, Bytes
  <2> QED
    BY <2>1, <2>2 DEF SpentInv, BudgetInv
<1> QED
  BY <1>1, <1>2, <1>3, TypeInit, TypeStep, SpentStep, BudgetStep, PTL DEF Spec

-----------------------------------------------------------------------------
(***************************************************************************)
(* The rows of throughput rounds.                                          *)
(***************************************************************************)

\* While a round runs its row is still to come.  The plan of the round is that
\* of the row it leaves, and either skips it or takes the metrics as they are
\* set; what is asked for never changes.
RowInv ==
  /\ pc = "round" => row = None
  /\ pc = "round" /\ plan.kind = "full" =>
       plan.skipped \/ plan.metrics = settings.metrics
  /\ FullRowsAreExplained

\* A plan for a throughput round skips it or takes the metrics as they are set.
LEMMA FullPlanIsWhole ==
  ASSUME NEW now, PlanNextRound(now).kind = "full"
  PROVE  PlanNextRound(now).skipped \/ PlanNextRound(now).metrics = settings.metrics
BY DEF PlanNextRound, Plan

\* A round names every wanted phase it has no reading for.
LEMMA ReportExplains ==
  ASSUME NEW m, NEW c, NEW r \in O!Reports(m, c)
  PROVE  O!Wanted(m) \subseteq r.read \cup r.skipped
<1>1. PICK wire \in 0 .. 2 * MaxWire, capped \in BOOLEAN :
        O!Allowed([charged |-> r.charged, wire |-> wire, read |-> r.read,
                   capped |-> capped, skipped |-> r.skipped], m, c)
  BY DEF O!Reports, O!MayReport
<1>2. r.skipped \cap O!Phases = O!Wanted(m) \ r.read
  BY <1>1 DEF O!Allowed
<1> QED
  BY <1>2

\* The row a round leaves is explained.
LEMMA StoredIsExplained ==
  ASSUME RowInv, pc = "round", NEW r \in Reports, StoredRow(r).kind = "full"
  PROVE  \/ Asked \subseteq StoredRow(r).read \cup StoredRow(r).reasons
         \/ plan.skipped /\ StoredRow(r).reasons # {}
<1>1. CASE plan.skipped
  BY <1>1 DEF StoredRow
<1>2. CASE ~plan.skipped
  <2>1. plan.metrics = settings.metrics
    BY <1>2 DEF RowInv, StoredRow
  <2>2. Asked = O!Wanted(Selected)
    BY <2>1 DEF Asked, Selected, Intersect, O!Wanted
  <2>3. O!Wanted(Selected) \subseteq r.read \cup r.skipped
    BY ReportExplains DEF Reports
  <2> QED
    BY <1>2, <2>2, <2>3 DEF StoredRow
<1> QED
  BY <1>1, <1>2

\* Every step keeps the plan and the row together.
LEMMA RowStep == RowInv /\ [Next]_vars => RowInv'
<1> SUFFICES ASSUME RowInv, [Next]_vars PROVE RowInv'
  OBVIOUS
<1> USE DEF RowInv, FullRowsAreExplained, Asked
<1>1. CASE Begin
  <2>1. plan' = PlanNextRound(wall)
    BY <1>1 DEF Begin
  <2> QED
    BY <1>1, <2>1, FullPlanIsWhole DEF Begin
<1>2. ASSUME NEW r \in Reports, pc = "round", Finish(r) PROVE RowInv'
  <2>1. /\ UNCHANGED <<settings, args, plan>>
        /\ pc' = "sleep" /\ row' = StoredRow(r)
    BY <1>2 DEF Finish
  <2> QED
    BY <1>2, <2>1, StoredIsExplained
<1>3. ASSUME NEW r, StoreFails(r) PROVE RowInv'
  BY <1>3 DEF StoreFails
<1>4. CASE Wake \/ Crash \/ CtrlC \/ Restart
  BY <1>4 DEF Wake, Crash, CtrlC, Stop, Restart, history
<1>5. ASSUME NEW d \in Jumps, Jump(d) \/ StepBack(d) PROVE RowInv'
  BY <1>5 DEF Jump, StepBack, MoveWall, loopVars
<1>6. CASE Tick
  BY <1>6 DEF Tick, MoveWall, loopVars
<1>7. CASE UNCHANGED vars
  BY <1>7 DEF vars, loopVars, history
<1> QED
  BY <1>1, <1>2, <1>3, <1>4, <1>5, <1>6, <1>7 DEF Next, Loop, Round, LostRound

\* Whatever the settings and the command line ask for, --ping-only included, a
\* stored full round has each of the readings asked for or a reason that names
\* the missing one, or is one the budget skipped and gives a reason
\* (FullRowsAreExplained).
THEOREM FullRowsExplained == Spec => []FullRowsAreExplained
<1>1. Init => RowInv
  BY DEF Init, RowInv, FullRowsAreExplained
<1>2. RowInv => FullRowsAreExplained
  BY DEF RowInv
<1> QED
  BY <1>1, <1>2, RowStep, PTL DEF Spec
=============================================================================
