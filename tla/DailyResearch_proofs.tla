------------------------- MODULE DailyResearch_proofs -------------------------
(***************************************************************************)
(* Safety of DailyResearch for any number of runner processes, days and    *)
(* faults, with cron or without.  The inductive invariant adds to the      *)
(* types what ties the lock to the runner that holds it and the scheduler  *)
(* to the runner it waits for.                                             *)
(***************************************************************************)
EXTENDS DailyResearch, FiniteSetTheorems, TLAPS

\* Who works holds the lock, and nobody else works.
LockInv == (Working # {} => lock) /\ OneRunnerAtWork

\* The scheduler waits for a runner it started for date, and a code of 0 is
\* that runner's.
WaitInv ==
  /\ child # NoRunner => runner[child].at # "idle" /\ runner[child].day = date
  /\ pc = "record" /\ code = 0 => Handled(date)

\* A running process was started for a day.
DayInv == \A r \in Runners : runner[r].at # "idle" => runner[r].day \in Days

IInv == TypeOK /\ DayInv /\ LockInv /\ StaleLockNeedsKill /\ WaitInv /\ MarkedDayHandled

\* What the end of a runner does to the processes and the scheduler.
LEMMA ExitFacts ==
  ASSUME TypeOK, NEW r \in Runners, NEW status \in {0, 1}, Exit(r, status)
  PROVE  /\ runner' \in [Runners -> [at : {"idle", "begin", "work"},
                                     day : Days \cup {0}]]
         /\ pc' \in {"down", "poll", "wait", "record"}
         /\ child' \in Runners \cup {NoRunner} /\ code' \in {0, 1}
         /\ marked' = marked /\ date' = date
         /\ Working' = Working \ {r}
         /\ child' # NoRunner => child' = child /\ child # r /\ runner'[child] = runner[child]
         /\ r # child => pc' = pc /\ code' = code
         /\ r = child => code' = status
<1>1. Idle \in [at : {"idle", "begin", "work"}, day : Days \cup {0}] /\ Idle.at = "idle"
  BY DEF Idle
<1>2. runner' = [runner EXCEPT ![r] = Idle] /\ marked' = marked /\ date' = date
  BY DEF Exit
<1>3. Working' = Working \ {r}
  BY <1>1, <1>2 DEF Working, TypeOK
<1>4. CASE r = child
  BY <1>1, <1>2, <1>3, <1>4, ConstantsAssumption DEF Exit, TypeOK
<1>5. CASE r # child
  BY <1>1, <1>2, <1>3, <1>5, ConstantsAssumption DEF Exit, TypeOK
<1>6. QED
  BY <1>4, <1>5

\* What the start of a runner does to the processes.
LEMMA SpawnFacts ==
  ASSUME TypeOK, NEW r \in Free, NEW day \in Days, Spawn(r, day)
  PROVE  /\ runner' \in [Runners -> [at : {"idle", "begin", "work"},
                                     day : Days \cup {0}]]
         /\ runner'[r].at = "begin" /\ runner'[r].day = day
         /\ \A q \in Runners \ {r} : runner'[q] = runner[q]
         /\ Working' = Working
<1>1. r \in Runners /\ runner[r].at = "idle"
  BY DEF Free
<1>2. runner' = [runner EXCEPT ![r] = [at |-> "begin", day |-> day]]
  BY DEF Spawn
<1>3. runner' \in [Runners -> [at : {"idle", "begin", "work"}, day : Days \cup {0}]]
  BY <1>1, <1>2 DEF TypeOK
<1>4. runner'[r].at = "begin" /\ runner'[r].day = day
  BY <1>1, <1>2 DEF TypeOK
<1>5. \A q \in Runners \ {r} : runner'[q] = runner[q]
  BY <1>1, <1>2 DEF TypeOK
<1>6. Working' = Working
  BY <1>1, <1>4, <1>5 DEF Working
<1>7. QED
  BY <1>3, <1>4, <1>5, <1>6

\* The invariant holds before anything runs.
LEMMA InitInv == Init => IInv
<1> SUFFICES ASSUME Init PROVE IInv
  OBVIOUS
<1>1. TypeOK
  <2>1. runner \in [Runners -> [at : {"idle", "begin", "work"}, day : Days \cup {0}]]
    BY DEF Init, Idle
  <2>2. 1 \in Days /\ 0 \in 0 .. MaxFaults
    BY ConstantsAssumption DEF Days
  <2>3. successes \in [Days -> Nat]
    BY DEF Init
  <2>4. QED
    BY <2>1, <2>2, <2>3 DEF Init, TypeOK
<1>2. Working = {}
  BY DEF Init, Working, Idle
<1>3. QED
  BY <1>1, <1>2
  DEF Init, IInv, DayInv, Idle, LockInv, OneRunnerAtWork, StaleLockNeedsKill, WaitInv, MarkedDayHandled

\* The end of a runner, whatever it does to lock, successes and skipped:
\* what the steps below have in common.
LEMMA ExitStep ==
  ASSUME IInv, NEW r \in Runners, NEW status \in {0, 1}, Exit(r, status),
         UNCHANGED clock, faults' \in 0 .. MaxFaults, faults' >= faults,
         successes' \in [Days -> Nat], skipped' \subseteq Days, lock' \in BOOLEAN,
         \A d \in Days : successes'[d] >= successes[d], skipped \subseteq skipped',
         status = 0 /\ r = child => Handled(date)'
  PROVE  TypeOK' /\ DayInv' /\ OneRunnerAtWork' /\ WaitInv' /\ MarkedDayHandled'
<1> USE ExitFacts
<1>1. TypeOK
  BY DEF IInv
<1>2. TypeOK'
  BY <1>1 DEF TypeOK, clock
<1>3. DayInv'
  <2>1. \A q \in Runners \ {r} : runner'[q] = runner[q]
    BY <1>1 DEF Exit, TypeOK
  <2>2. runner'[r].at = "idle"
    BY <1>1 DEF Exit, Idle, TypeOK
  <2>3. QED
    BY <2>1, <2>2 DEF IInv, DayInv
<1>4. OneRunnerAtWork'
  BY <1>1 DEF IInv, LockInv, OneRunnerAtWork
<1>5. \A d \in Days : Handled(d) => Handled(d)'
  <2>1. \A d \in Days : successes[d] \in Nat /\ successes'[d] \in Nat
    BY <1>1 DEF TypeOK
  <2>2. QED
    BY <2>1 DEF Handled
<1>6. WaitInv'
  BY <1>1, <1>5 DEF IInv, WaitInv, Handled, TypeOK
<1>7. MarkedDayHandled'
  BY <1>1, <1>5 DEF IInv, MarkedDayHandled, Handled, TypeOK
<1>8. QED
  BY <1>2, <1>3, <1>4, <1>6, <1>7

\* Steps of the daily script keep it, a kill included.
LEMMA RunnerStep ==
  ASSUME IInv, NEW r \in Runners, Run(r) \/ KillRunner(r)
  PROVE  IInv'
<1> USE DEF IInv
<1>1. CASE TakeLock(r)
  <2>1. TypeOK' /\ DayInv'
    BY <1>1 DEF TakeLock, TypeOK, DayInv, clock, scheduler, history
  <2>2. Working = {} /\ Working' = {r}
    BY <1>1 DEF TakeLock, TypeOK, Working, LockInv
  <2>3. WaitInv'
    BY <1>1 DEF TakeLock, TypeOK, WaitInv, Handled, scheduler, history
  <2>4. QED
    BY <1>1, <2>1, <2>2, <2>3
    DEF TakeLock, LockInv, OneRunnerAtWork, StaleLockNeedsKill, MarkedDayHandled,
        Handled, scheduler, history
<1>2. CASE Skip(r)
  <2>1. /\ Exit(r, 0) /\ runner[r].at = "begin" /\ lock' = lock
        /\ successes' = successes /\ skipped' = skipped \cup {runner[r].day}
        /\ UNCHANGED clock /\ faults' \in 0 .. MaxFaults /\ faults' >= faults
    BY <1>2, ConstantsAssumption DEF Skip, Fault, TypeOK
  <2>2. runner[r].day \in Days
    BY <2>1 DEF DayInv
  <2>3. r = child => Handled(date)'
    BY <2>1, ExitFacts, ConstantsAssumption DEF Handled, WaitInv
  <2>4. TypeOK' /\ DayInv' /\ OneRunnerAtWork' /\ WaitInv' /\ MarkedDayHandled'
    BY <2>1, <2>2, <2>3, ExitStep DEF TypeOK
  <2>5. Working' = Working
    BY <2>1, ExitFacts DEF Working
  <2>6. QED
    BY <2>1, <2>4, <2>5 DEF LockInv, StaleLockNeedsKill, TypeOK
<1>3. CASE FailEarly(r)
  <2>1. /\ Exit(r, 1) /\ runner[r].at = "begin" /\ lock' = lock
        /\ successes' = successes /\ skipped' = skipped
        /\ UNCHANGED clock /\ faults' = faults
    BY <1>3 DEF FailEarly, history
  <2>2. TypeOK' /\ DayInv' /\ OneRunnerAtWork' /\ WaitInv' /\ MarkedDayHandled'
    BY <2>1, ExitStep DEF TypeOK
  <2>3. Working' = Working
    BY <2>1, ExitFacts DEF Working
  <2>4. QED
    BY <2>1, <2>2, <2>3 DEF LockInv, StaleLockNeedsKill
<1>4. CASE Succeed(r)
  <2>1. /\ Exit(r, 0) /\ runner[r].at = "work" /\ lock' = FALSE
        /\ successes' = [successes EXCEPT ![runner[r].day] = @ + 1]
        /\ skipped' = skipped /\ UNCHANGED clock /\ faults' = faults
    BY <1>4 DEF Succeed
  <2>2. runner[r].day \in Days
    BY <2>1 DEF DayInv
  <2>3. /\ successes' \in [Days -> Nat] /\ successes'[runner[r].day] > 0
        /\ \A d \in Days : successes'[d] >= successes[d]
    BY <2>1, <2>2 DEF TypeOK
  <2>4. r = child => Handled(date)'
    BY <2>1, <2>3, ExitFacts, ConstantsAssumption DEF Handled, WaitInv
  <2>5. lock' \in BOOLEAN
    BY <2>1
  <2>6. TypeOK' /\ DayInv' /\ OneRunnerAtWork' /\ WaitInv' /\ MarkedDayHandled'
    BY <2>1, <2>3, <2>4, <2>5, ExitStep DEF TypeOK
  <2>7. Working' = {}
    BY <2>1, ExitFacts DEF Working, LockInv, OneRunnerAtWork
  <2>8. QED
    BY <2>1, <2>6, <2>7 DEF LockInv, StaleLockNeedsKill
<1>5. CASE Fail(r)
  <2>1. /\ Exit(r, 1) /\ runner[r].at = "work" /\ lock' = FALSE
        /\ successes' = successes /\ skipped' = skipped
        /\ UNCHANGED clock /\ faults' = faults
    BY <1>5 DEF Fail, history
  <2>2. lock' \in BOOLEAN
    BY <2>1
  <2>3. TypeOK' /\ DayInv' /\ OneRunnerAtWork' /\ WaitInv' /\ MarkedDayHandled'
    BY <2>1, <2>2, ExitStep DEF TypeOK
  <2>4. Working' = {}
    BY <2>1, ExitFacts DEF Working, LockInv, OneRunnerAtWork
  <2>5. QED
    BY <2>1, <2>3, <2>4 DEF LockInv, StaleLockNeedsKill
<1>6. CASE KillRunner(r)
  <2>1. /\ Exit(r, 1) /\ lock' = lock /\ successes' = successes
        /\ skipped' = skipped /\ UNCHANGED clock
        /\ faults' \in 0 .. MaxFaults /\ faults' > 0 /\ faults' >= faults
    BY <1>6, ConstantsAssumption DEF KillRunner, Fault, TypeOK, history
  <2>2. TypeOK' /\ DayInv' /\ OneRunnerAtWork' /\ WaitInv' /\ MarkedDayHandled'
    BY <2>1, ExitStep DEF TypeOK
  <2>3. Working' \subseteq Working
    BY <2>1, ExitFacts
  <2>4. QED
    BY <2>1, <2>2, <2>3 DEF LockInv, StaleLockNeedsKill
<1>7. QED
  BY <1>1, <1>2, <1>3, <1>4, <1>5, <1>6 DEF Run

\* Steps of the scheduler keep it, its stop and its start included.
LEMMA SchedulerStep ==
  ASSUME IInv, Schedule \/ StopScheduler \/ StartScheduler
  PROVE  IInv'
<1> USE DEF IInv
<1>1. CASE Poll
  <2>1. PICK r \in Free : Spawn(r, today) /\ child' = r
    BY <1>1 DEF Poll, RunDate
  <2>2. /\ date' = today /\ pc' = "wait" /\ today \in Days /\ r \in Runners
        /\ UNCHANGED <<clock, lock, marked, code, faults, history>>
    BY <1>1, <2>1 DEF Poll, RunDate, TypeOK, Free
  <2>3. TypeOK' /\ DayInv'
    BY <2>1, <2>2, SpawnFacts DEF TypeOK, DayInv, clock, history
  <2>4. Working' = Working
    BY <2>1, <2>2, SpawnFacts
  <2>5. WaitInv'
    BY <2>1, <2>2, SpawnFacts DEF WaitInv
  <2>6. QED
    BY <2>2, <2>3, <2>4, <2>5
    DEF LockInv, OneRunnerAtWork, StaleLockNeedsKill, MarkedDayHandled, Handled, history
<1>2. CASE Record
  <2>1. /\ marked' = Done \/ marked' = marked
        /\ pc = "record" /\ pc' = "poll"
        /\ faults' \in 0 .. MaxFaults /\ faults' >= faults
        /\ UNCHANGED <<clock, lock, runner, child, date, code, history>>
    BY <1>2, ConstantsAssumption DEF Record, Fault, TypeOK
  <2>2. TypeOK' /\ DayInv' /\ WaitInv'
    BY <2>1 DEF TypeOK, DayInv, WaitInv, Done, clock, history
  <2>3. MarkedDayHandled'
    BY <2>1 DEF MarkedDayHandled, WaitInv, Handled, Done, history
  <2>4. Working' = Working
    BY <2>1 DEF Working
  <2>5. QED
    BY <2>1, <2>2, <2>3, <2>4 DEF LockInv, OneRunnerAtWork, StaleLockNeedsKill, TypeOK
<1>3. CASE StopScheduler \/ StartScheduler
  <2>1. /\ child' \in {child, NoRunner} /\ pc' \in {"down", "poll"}
        /\ faults' \in 0 .. MaxFaults /\ faults' >= faults
        /\ UNCHANGED <<clock, lock, runner, marked, date, code, history>>
    BY <1>3, ConstantsAssumption DEF StopScheduler, StartScheduler, Fault, TypeOK
  <2>2. TypeOK' /\ DayInv' /\ WaitInv'
    BY <2>1 DEF TypeOK, DayInv, WaitInv, clock, history
  <2>3. Working' = Working
    BY <2>1 DEF Working
  <2>4. QED
    BY <2>1, <2>2, <2>3
    DEF LockInv, OneRunnerAtWork, StaleLockNeedsKill, MarkedDayHandled, Handled,
        TypeOK, history
<1>4. QED
  BY <1>1, <1>2, <1>3 DEF Schedule

\* cron's time and midnight keep it.
LEMMA ClockStep ==
  ASSUME IInv, TimeComes \/ Midnight
  PROVE  IInv'
<1> USE DEF IInv
<1>1. /\ UNCHANGED <<lock, scheduler, faults, history>>
      /\ today' \in Days /\ due' \in BOOLEAN
  <2>1. UNCHANGED <<lock, scheduler, faults, history>>
    BY DEF TimeComes, Midnight
  <2>2. today' \in Days
    BY ConstantsAssumption DEF TimeComes, Midnight, TypeOK, Days
  <2>3. due' \in BOOLEAN
    BY Zenon DEF TimeComes, Midnight
  <2>4. QED
    BY <2>1, <2>2, <2>3
<1>2. CASE UNCHANGED runner
  BY <1>1, <1>2
  DEF TypeOK, DayInv, LockInv, OneRunnerAtWork, Working, StaleLockNeedsKill, WaitInv,
      MarkedDayHandled, Handled, scheduler, history
<1>3. CASE TimeComes /\ \E r \in Free : Spawn(r, today)
  <2>1. PICK r \in Free : Spawn(r, today)
    BY <1>3
  <2>2. today \in Days /\ r \in Runners /\ runner[r].at = "idle"
    BY <2>1 DEF TypeOK, Free
  <2>3. TypeOK' /\ DayInv'
    BY <1>1, <2>1, <2>2, SpawnFacts DEF TypeOK, DayInv, scheduler, history
  <2>4. Working' = Working
    BY <2>1, <2>2, SpawnFacts
  <2>5. child # NoRunner => child \in Runners \ {r} /\ runner'[child] = runner[child]
    BY <2>1, <2>2, SpawnFacts DEF WaitInv, TypeOK
  <2>6. WaitInv'
    BY <1>1, <2>5 DEF WaitInv, Handled, scheduler, history
  <2>7. QED
    BY <1>1, <2>3, <2>4, <2>6
    DEF LockInv, OneRunnerAtWork, StaleLockNeedsKill, MarkedDayHandled, Handled,
        scheduler, history
<1>4. QED
  BY <1>2, <1>3 DEF TimeComes, Midnight

\* Every step keeps it.
LEMMA StepInv == IInv /\ [Next]_vars => IInv'
<1> SUFFICES ASSUME IInv, [Next]_vars PROVE IInv'
  OBVIOUS
<1>1. CASE \E r \in Runners : Run(r) \/ KillRunner(r)
  BY <1>1, RunnerStep
<1>2. CASE Schedule \/ StopScheduler \/ StartScheduler
  BY <1>2, SchedulerStep
<1>3. CASE TimeComes \/ Midnight
  BY <1>3, ClockStep
<1>4. CASE UNCHANGED vars
  BY <1>4
  DEF IInv, TypeOK, DayInv, LockInv, OneRunnerAtWork, Working, StaleLockNeedsKill,
      WaitInv, MarkedDayHandled, Handled, vars, clock, scheduler, history
<1>5. QED
  BY <1>1, <1>2, <1>3, <1>4 DEF Next

\* The inductive invariant holds in every reachable state.
THEOREM Invariance == Spec => []IInv
BY InitInv, StepInv, PTL DEF Spec

\* The variables of scheduler, runners, lock and clock keep their types.
THEOREM TypeCorrect == Spec => []TypeOK
BY Invariance, PTL DEF IInv

\* The lock directory excludes two runners at work, whoever starts them and
\* however many processes are killed or orphaned.
THEOREM MutualExclusion == Spec => []OneRunnerAtWork
BY Invariance, PTL DEF IInv, LockInv

\* Without a kill or a failing call the lock always has a runner that will
\* release it.
THEOREM LockReleased == Spec => []StaleLockNeedsKill
BY Invariance, PTL DEF IInv

\* The scheduler marks no day for which no runner ended with status 0.
THEOREM MarkedHandled == Spec => []MarkedDayHandled
BY Invariance, PTL DEF IInv

(***************************************************************************)
(* How often a day is researched.  A complete run of day d is one of a     *)
(* runner nobody waits for (Others), each of which cron or a fault has     *)
(* made, or the one the scheduler may still wait for (May).                *)
(***************************************************************************)
Others(d) ==
  {r \in Runners : runner[r].at # "idle" /\ runner[r].day = d /\ r # child}

May(d) ==
  \/ child # NoRunner /\ date = d
  \/ today <= d /\ marked # d /\ ~(pc = "record" /\ code = 0 /\ date = d)

\* cron has started its runner of day d.
CronDone(d) == Cron /\ (d < today \/ (d = today /\ due))

Num(b) == IF b THEN 1 ELSE 0

CountInv(d) ==
  successes[d] + Cardinality(Others(d)) + Num(May(d)) <= 1 + faults + Num(CronDone(d))

\* The scheduler goes forward in time, and only waits with a child.
OrderInv ==
  marked <= date /\ date <= today /\ (child # NoRunner => pc = "wait")

RunsInv == IInv /\ OrderInv /\ \A d \in Days : CountInv(d)

\* The numbers that the count of a day is made of.
LEMMA Counts ==
  ASSUME TypeOK, NEW d \in Days
  PROVE  /\ IsFiniteSet(Others(d)) /\ Cardinality(Others(d)) \in Nat
         /\ successes[d] \in Nat /\ faults \in Nat
         /\ Num(May(d)) \in {0, 1} /\ Num(CronDone(d)) \in {0, 1}
<1>1. Others(d) \subseteq Runners /\ IsFiniteSet(Runners)
  BY ConstantsAssumption DEF Others
<1>2. IsFiniteSet(Others(d)) /\ Cardinality(Others(d)) \in Nat
  BY <1>1, FS_Subset, FS_CardinalityType
<1>3. successes[d] \in Nat /\ faults \in Nat
  BY ConstantsAssumption DEF TypeOK
<1>4. QED
  BY <1>2, <1>3 DEF Num

\* The count of a day after the end of a runner.
LEMMA ExitCount ==
  ASSUME RunsInv, NEW r \in Runners, NEW status \in {0, 1}, Exit(r, status),
         runner[r].at # "idle", UNCHANGED clock, TypeOK', faults' >= faults, NEW d \in Days,
         \/ successes'[d] = successes[d]
         \/ successes'[d] = successes[d] + 1 /\ runner[r].day = d /\ status = 0
  PROVE  CountInv(d)'
<1>1. TypeOK /\ WaitInv /\ OrderInv /\ CountInv(d)
  BY DEF RunsInv, IInv
<1>2. PICK old, now : old = Others(d) /\ now = Others(d)'
  OBVIOUS
<1>3. /\ runner' = [runner EXCEPT ![r] = Idle] /\ marked' = marked /\ date' = date
      /\ today' = today /\ due' = due /\ Idle.at = "idle"
  BY DEF Exit, clock, Idle
<1>4. /\ IsFiniteSet(old) /\ Cardinality(old) \in Nat /\ successes[d] \in Nat /\ faults \in Nat
      /\ Num(May(d)) \in {0, 1} /\ Num(CronDone(d)) \in {0, 1}
      /\ successes[d] + Cardinality(old) + Num(May(d)) <= 1 + faults + Num(CronDone(d))
  BY <1>1, <1>2, Counts DEF CountInv
<1>5. Num(CronDone(d))' = Num(CronDone(d)) /\ faults' \in Nat
  BY <1>3, ConstantsAssumption DEF CronDone, Num, TypeOK
<1>6. CASE r = child
  <2>1. child' = NoRunner /\ pc' = "record" /\ code' = status /\ r # NoRunner
    BY <1>6, ConstantsAssumption DEF Exit
  <2>2. pc = "wait" /\ runner[r].day = date
    BY <1>1, <1>6, <2>1 DEF OrderInv, WaitInv
  <2>3. now = old
    BY <1>1, <1>2, <1>3, <1>6, <2>1, ConstantsAssumption DEF Others, TypeOK
  <2>4. May(d)' => May(d)
    BY <1>3, <2>1, <2>2 DEF May
  <2>5. CASE successes'[d] = successes[d]
    <3>1. Num(May(d))' <= Num(May(d))
      BY <2>4 DEF Num
    <3>2. Num(May(d))' \in {0, 1}
      BY DEF Num
    <3>3. QED
      BY <1>2, <1>4, <1>5, <2>3, <2>5, <3>1, <3>2 DEF CountInv
  <2>6. CASE successes'[d] = successes[d] + 1 /\ runner[r].day = d /\ status = 0
    <3>1. May(d) /\ ~May(d)'
      BY <1>3, <1>6, <2>1, <2>2, <2>6 DEF May
    <3>2. Num(May(d)) = 1 /\ Num(May(d))' = 0
      BY <3>1 DEF Num
    <3>3. QED
      BY <1>2, <1>4, <1>5, <2>3, <2>6, <3>2 DEF CountInv
  <2>7. QED
    BY <2>5, <2>6
<1>7. CASE r # child
  <2>1. child' = child /\ pc' = pc /\ code' = code
    BY <1>7 DEF Exit
  <2>2. now = old \ {r}
    BY <1>1, <1>2, <1>3, <2>1 DEF Others, TypeOK
  <2>3. Num(May(d))' = Num(May(d))
    BY <1>3, <2>1 DEF May, Num
  <2>4. CASE r \in old
    <3>1. Cardinality(now) = Cardinality(old) - 1
      BY <1>4, <2>2, <2>4, FS_RemoveElement
    <3>2. QED
      BY <1>2, <1>4, <1>5, <2>3, <3>1 DEF CountInv
  <2>5. CASE r \notin old
    <3>1. now = old
      BY <2>2, <2>5
    <3>2. successes'[d] = successes[d]
      BY <1>2, <1>7, <2>5 DEF Others
    <3>3. QED
      BY <1>2, <1>4, <1>5, <2>3, <3>1, <3>2 DEF CountInv
  <2>6. QED
    BY <2>4, <2>5
<1>8. QED
  BY <1>6, <1>7

\* A step that leaves the runners, what they have done and the clock alone, and
\* the scheduler but for what May asks.
LEMMA SameOthers ==
  ASSUME TypeOK, NEW d \in Days, CountInv(d), Others(d)' = Others(d), TypeOK',
         successes' = successes, UNCHANGED clock,
         \/ faults' >= faults /\ (May(d)' => May(d))
         \/ faults' = faults + 1
  PROVE  CountInv(d)'
<1>1. PICK n : n = Cardinality(Others(d))
  OBVIOUS
<1>2. /\ n \in Nat /\ successes[d] \in Nat /\ faults \in Nat
      /\ Num(May(d)) \in {0, 1} /\ Num(CronDone(d)) \in {0, 1}
      /\ successes[d] + n + Num(May(d)) <= 1 + faults + Num(CronDone(d))
  BY <1>1, Counts DEF CountInv
<1>3. Num(CronDone(d))' = Num(CronDone(d)) /\ faults' \in Nat
  BY ConstantsAssumption DEF CronDone, Num, clock, TypeOK
<1>4. Cardinality(Others(d))' = n
  BY <1>1
<1>5. Num(May(d))' \in {0, 1} /\ ((May(d)' => May(d)) => Num(May(d))' <= Num(May(d)))
  BY DEF Num
<1>6. QED
  BY <1>2, <1>3, <1>4, <1>5 DEF CountInv

\* No step of a runner makes a run more than its day has room for.
LEMMA RunnerCount ==
  ASSUME RunsInv, IInv', NEW r \in Runners, Run(r) \/ KillRunner(r)
  PROVE  OrderInv' /\ \A d \in Days : CountInv(d)'
<1>1. TypeOK /\ TypeOK' /\ OrderInv /\ \A d \in Days : CountInv(d)
  BY DEF RunsInv, IInv
<1>2. CASE TakeLock(r)
  <2>1. /\ runner' = [runner EXCEPT ![r].at = "work"] /\ runner[r].at = "begin"
        /\ UNCHANGED <<clock, scheduler, faults, history>>
    BY <1>2 DEF TakeLock
  <2>2. /\ \A q \in Runners : runner'[q].day = runner[q].day
        /\ \A q \in Runners : runner'[q].at # "idle" <=> runner[q].at # "idle"
    BY <1>1, <2>1 DEF TypeOK
  <2>3. ASSUME NEW d \in Days PROVE CountInv(d)'
    <3>1. Others(d)' = Others(d)
      BY <2>1, <2>2 DEF Others, scheduler
    <3>2. /\ May(d)' => May(d)
          /\ faults' >= faults /\ successes' = successes /\ UNCHANGED clock
      BY <1>1, <2>1, ConstantsAssumption DEF May, scheduler, clock, history, TypeOK
    <3>3. QED
      BY <1>1, <3>1, <3>2, SameOthers
  <2>4. OrderInv'
    BY <1>1, <2>1 DEF OrderInv, scheduler, clock
  <2>5. QED
    BY <2>3, <2>4
<1>3. CASE ~TakeLock(r)
  <2>1. \E status \in {0, 1} :
          /\ Exit(r, status) /\ runner[r].at # "idle" /\ UNCHANGED clock /\ faults' >= faults
          /\ \/ successes' = successes
             \/ status = 0 /\ successes' = [successes EXCEPT ![runner[r].day] = @ + 1]
    <3>1. CASE Skip(r)
      BY <1>1, <3>1, ConstantsAssumption DEF Skip, Fault, TypeOK
    <3>2. CASE FailEarly(r) \/ Fail(r)
      BY <1>1, <3>2, ConstantsAssumption DEF FailEarly, Fail, history, TypeOK
    <3>3. CASE Succeed(r)
      BY <1>1, <3>3, ConstantsAssumption DEF Succeed, TypeOK
    <3>4. CASE KillRunner(r)
      BY <1>1, <3>4, ConstantsAssumption DEF KillRunner, Fault, history, TypeOK
    <3>5. QED
      BY <1>3, <3>1, <3>2, <3>3, <3>4 DEF Run
  <2>2. PICK status \in {0, 1} :
          /\ Exit(r, status) /\ runner[r].at # "idle" /\ UNCHANGED clock /\ faults' >= faults
          /\ \/ successes' = successes
             \/ status = 0 /\ successes' = [successes EXCEPT ![runner[r].day] = @ + 1]
    BY <2>1
  <2>3. ASSUME NEW d \in Days PROVE CountInv(d)'
    <3>1. \/ successes'[d] = successes[d]
          \/ successes'[d] = successes[d] + 1 /\ runner[r].day = d /\ status = 0
      BY <1>1, <2>2 DEF TypeOK
    <3>2. QED
      BY <1>1, <2>2, <3>1, ExitCount
  <2>4. OrderInv'
    BY <1>1, <2>2 DEF OrderInv, Exit, clock
  <2>5. QED
    BY <2>3, <2>4
<1>4. QED
  BY <1>2, <1>3

\* Nor does a step of the scheduler: what it starts, it may wait for, and what
\* it forgets is a fault.
LEMMA SchedulerCount ==
  ASSUME RunsInv, IInv', Schedule \/ StopScheduler \/ StartScheduler
  PROVE  OrderInv' /\ \A d \in Days : CountInv(d)'
<1>1. /\ TypeOK /\ TypeOK' /\ WaitInv /\ OrderInv /\ \A d \in Days : CountInv(d)
      /\ today \in Nat /\ date \in Nat /\ marked \in Nat /\ faults \in Nat
  <2>1. TypeOK /\ TypeOK' /\ WaitInv /\ OrderInv /\ \A d \in Days : CountInv(d)
    BY DEF RunsInv, IInv
  <2>2. today \in Nat /\ date \in Nat /\ marked \in Nat /\ faults \in Nat
    BY <2>1, ConstantsAssumption DEF TypeOK, Days
  <2>3. QED
    BY <2>1, <2>2
<1>2. CASE Poll
  <2>1. PICK r \in Free : Spawn(r, today) /\ child' = r
    BY <1>2 DEF Poll, RunDate
  <2>2. /\ date' = today /\ pc' = "wait" /\ today \in Days /\ r \in Runners
        /\ pc = "poll" /\ marked # today /\ child = NoRunner /\ runner[r].at = "idle"
        /\ UNCHANGED <<clock, lock, marked, code, faults, history>>
    BY <1>1, <1>2, <2>1 DEF Poll, ShouldRun, RunDate, TypeOK, Free, OrderInv
  <2>3. OrderInv'
    BY <1>1, <2>2 DEF OrderInv, clock
  <2>4. ASSUME NEW d \in Days PROVE CountInv(d)'
    <3>1. /\ runner'[r].day = today
          /\ \A q \in Runners \ {r} : runner'[q] = runner[q]
      BY <1>1, <2>1, <2>2, SpawnFacts
    <3>2. Others(d)' = Others(d)
      BY <2>1, <2>2, <3>1, ConstantsAssumption DEF Others
    <3>3. May(d)' => May(d)
      BY <1>1, <2>2 DEF May, clock
    <3>4. faults' >= faults /\ successes' = successes /\ UNCHANGED clock
      BY <1>1, <2>2 DEF history
    <3>5. QED
      BY <1>1, <3>2, <3>3, <3>4, SameOthers
  <2>5. QED
    BY <2>3, <2>4
<1>3. CASE Record
  <2>1. /\ pc = "record" /\ pc' = "poll" /\ child = NoRunner
        /\ UNCHANGED <<clock, lock, runner, child, date, code, history>>
        /\ \/ marked' = Done /\ faults' = faults
           \/ marked' = marked /\ faults' = faults + 1
    BY <1>1, <1>3 DEF Record, Fault, OrderInv
  <2>2. OrderInv'
    BY <1>1, <2>1 DEF OrderInv, Done, clock
  <2>3. ASSUME NEW d \in Days PROVE CountInv(d)'
    <3>1. Others(d)' = Others(d)
      BY <2>1 DEF Others
    <3>2. \/ faults' >= faults /\ (May(d)' => May(d))
          \/ faults' = faults + 1
      <4>1. CASE marked' = Done /\ faults' = faults
        <5>1. CASE code = 0
          <6>1. marked' = date
            BY <4>1, <5>1 DEF Done
          <6>2. date = d => ~May(d)'
            BY <2>1, <6>1 DEF May
          <6>3. date # d /\ today <= d => marked # d
            BY <1>1 DEF OrderInv, Days
          <6>4. date # d => (May(d)' => May(d))
            BY <2>1, <6>3 DEF May, clock
          <6>5. faults' >= faults
            BY <1>1, <4>1
          <6>6. QED
            BY <6>2, <6>4, <6>5
        <5>2. CASE code # 0
          BY <1>1, <2>1, <4>1, <5>2 DEF Done, May, clock
        <5>3. QED
          BY <5>1, <5>2
      <4>2. QED
        BY <2>1, <4>1
    <3>3. successes' = successes /\ UNCHANGED clock
      BY <2>1 DEF history
    <3>4. QED
      BY <1>1, <3>1, <3>2, <3>3, SameOthers
  <2>4. QED
    BY <2>2, <2>3
<1>4. CASE StartScheduler
  <2>1. /\ pc = "down" /\ pc' = "poll" /\ child = NoRunner
        /\ UNCHANGED <<clock, lock, runner, marked, child, date, code, faults, history>>
    BY <1>1, <1>4 DEF StartScheduler, OrderInv
  <2>2. OrderInv'
    BY <1>1, <2>1 DEF OrderInv, clock
  <2>3. ASSUME NEW d \in Days PROVE CountInv(d)'
    <3>1. Others(d)' = Others(d) /\ (May(d)' => May(d))
      BY <2>1 DEF Others, May, clock
    <3>2. faults' >= faults /\ successes' = successes /\ UNCHANGED clock
      BY <1>1, <2>1 DEF history
    <3>3. QED
      BY <1>1, <3>1, <3>2, SameOthers
  <2>4. QED
    BY <2>2, <2>3
<1>5. CASE StopScheduler
  <2>1. /\ pc' = "down" /\ child' = NoRunner /\ faults' = faults + 1
        /\ UNCHANGED <<clock, lock, runner, marked, date, code, history>>
    BY <1>5 DEF StopScheduler, Fault
  <2>2. OrderInv'
    BY <1>1, <2>1 DEF OrderInv, clock
  <2>3. ASSUME NEW d \in Days PROVE CountInv(d)'
    <3>1. CASE child # NoRunner /\ date = d
      <4>1. PICK old, now : old = Others(d) /\ now = Others(d)'
        OBVIOUS
      <4>2. now = old \cup {child} /\ child \notin old
        BY <1>1, <2>1, <3>1, <4>1, ConstantsAssumption DEF Others, WaitInv, TypeOK
      <4>3. /\ IsFiniteSet(old) /\ Cardinality(old) \in Nat /\ successes[d] \in Nat
            /\ Num(May(d)) = 1 /\ Num(CronDone(d)) \in {0, 1}
            /\ successes[d] + Cardinality(old) + Num(May(d)) <= 1 + faults + Num(CronDone(d))
        <5>1. May(d)
          BY <3>1 DEF May
        <5>2. Num(May(d)) = 1
          BY <5>1 DEF Num
        <5>3. QED
          BY <1>1, <4>1, <5>2, Counts DEF CountInv
      <4>4. Cardinality(now) = Cardinality(old) + 1
        BY <4>2, <4>3, FS_AddElement
      <4>5. /\ Num(CronDone(d))' = Num(CronDone(d)) /\ successes'[d] = successes[d]
            /\ Num(May(d))' \in {0, 1}
        BY <2>1 DEF CronDone, Num, clock, history
      <4>6. QED
        BY <1>1, <2>1, <4>1, <4>3, <4>4, <4>5 DEF CountInv
    <3>2. CASE child = NoRunner \/ date # d
      <4>1. Others(d)' = Others(d)
        BY <1>1, <2>1, <3>2, ConstantsAssumption DEF Others, WaitInv, TypeOK
      <4>2. successes' = successes /\ UNCHANGED clock
        BY <2>1 DEF history
      <4>3. QED
        BY <1>1, <2>1, <4>1, <4>2, SameOthers
    <3>3. QED
      BY <3>1, <3>2
  <2>4. QED
    BY <2>2, <2>3
<1>6. QED
  BY <1>2, <1>3, <1>4, <1>5 DEF Schedule

\* Nor does the clock: cron starts one runner a day.
LEMMA ClockCount ==
  ASSUME RunsInv, IInv', TimeComes \/ Midnight
  PROVE  OrderInv' /\ \A d \in Days : CountInv(d)'
<1>1. /\ TypeOK /\ TypeOK' /\ WaitInv /\ OrderInv /\ \A d \in Days : CountInv(d)
      /\ today \in Nat /\ date \in Nat /\ marked \in Nat /\ faults \in Nat
  BY ConstantsAssumption DEF RunsInv, IInv, TypeOK, Days
<1>2. /\ UNCHANGED <<lock, scheduler, faults, history>>
      /\ today' \in Nat /\ today <= today' /\ (today' = today \/ due)
      /\ today' = today => due'
  BY <1>1 DEF TimeComes, Midnight
<1>3. OrderInv'
  BY <1>1, <1>2 DEF OrderInv, scheduler
<1>4. ASSUME NEW d \in Days PROVE CountInv(d)'
  <2>1. PICK old, now : old = Others(d) /\ now = Others(d)'
    OBVIOUS
  <2>2. /\ IsFiniteSet(old) /\ Cardinality(old) \in Nat /\ successes[d] \in Nat
        /\ Num(May(d)) \in {0, 1} /\ Num(CronDone(d)) \in {0, 1}
        /\ successes[d] + Cardinality(old) + Num(May(d)) <= 1 + faults + Num(CronDone(d))
    BY <1>1, <2>1, Counts DEF CountInv
  <2>3. /\ successes' = successes /\ faults' = faults /\ child' = child
        /\ Num(May(d))' <= Num(May(d)) /\ Num(May(d))' \in {0, 1}
    <3>1. successes' = successes /\ faults' = faults /\ child' = child
      BY <1>2 DEF history, scheduler
    <3>2. d \in Nat
      BY DEF Days
    <3>3. May(d)' => May(d)
      BY <1>1, <1>2, <3>2 DEF May, scheduler
    <3>4. QED
      BY <3>1, <3>3 DEF Num
  <2>4. CronDone(d) => CronDone(d)'
    BY <1>1, <1>2 DEF CronDone, Days
  <2>5. Num(CronDone(d))' \in {0, 1} /\ Num(CronDone(d)) <= Num(CronDone(d))'
    BY <2>4 DEF Num
  <2>6. CASE UNCHANGED runner
    <3>1. now = old
      BY <2>1, <2>3, <2>6 DEF Others
    <3>2. QED
      BY <1>1, <2>1, <2>2, <2>3, <2>5, <3>1 DEF CountInv
  <2>7. CASE TimeComes /\ Cron /\ \E r \in Free : Spawn(r, today)
    <3>1. PICK r \in Free : Spawn(r, today)
      BY <2>7
    <3>2. /\ today \in Days /\ r \in Runners /\ runner[r].at = "idle"
          /\ today' = today /\ ~due /\ due' = TRUE
      BY <1>1, <2>7, <3>1 DEF TypeOK, Free, TimeComes
    <3>3. /\ runner'[r].at = "begin" /\ runner'[r].day = today
          /\ \A q \in Runners \ {r} : runner'[q] = runner[q]
      BY <1>1, <3>1, <3>2, SpawnFacts
    <3>4. r # child
      BY <1>1, <3>2, ConstantsAssumption DEF WaitInv
    <3>5. CASE d = today
      <4>1. now = old \cup {r} /\ r \notin old
        BY <2>1, <2>3, <3>2, <3>3, <3>4, <3>5 DEF Others
      <4>2. Cardinality(now) = Cardinality(old) + 1
        BY <2>2, <4>1, FS_AddElement
      <4>3. CronDone(d)' /\ ~CronDone(d)
        BY <1>1, <2>7, <3>2, <3>5 DEF CronDone
      <4>4. Num(CronDone(d))' = 1 /\ Num(CronDone(d)) = 0
        BY <4>3 DEF Num
      <4>5. QED
        BY <1>1, <2>1, <2>2, <2>3, <4>2, <4>4 DEF CountInv
    <3>6. CASE d # today
      <4>1. now = old
        BY <2>1, <2>3, <3>2, <3>3, <3>6 DEF Others
      <4>2. QED
        BY <1>1, <2>1, <2>2, <2>3, <2>5, <4>1 DEF CountInv
    <3>7. QED
      BY <3>5, <3>6
  <2>8. QED
    BY <2>6, <2>7 DEF TimeComes, Midnight
<1>5. QED
  BY <1>3, <1>4

\* Every step keeps the counts.
LEMMA RunsStep == RunsInv /\ [Next]_vars => RunsInv'
<1> SUFFICES ASSUME RunsInv, [Next]_vars PROVE RunsInv'
  OBVIOUS
<1>1. IInv'
  BY StepInv DEF RunsInv
<1>2. CASE \E r \in Runners : Run(r) \/ KillRunner(r)
  BY <1>1, <1>2, RunnerCount DEF RunsInv, Days
<1>3. CASE Schedule \/ StopScheduler \/ StartScheduler
  BY <1>1, <1>3, SchedulerCount DEF RunsInv, Days
<1>4. CASE TimeComes \/ Midnight
  BY <1>1, <1>4, ClockCount DEF RunsInv, Days
<1>5. CASE UNCHANGED vars
  BY <1>1, <1>5
  DEF RunsInv, OrderInv, CountInv, Others, May, CronDone, vars, clock, scheduler, history
<1>6. QED
  BY <1>2, <1>3, <1>4, <1>5 DEF Next

\* A day is researched once, once more for cron, and once more for every fault.
THEOREM RunsBounded == Spec => []SuccessesBounded
<1>1. Init => RunsInv
  <2>1. SUFFICES ASSUME Init PROVE OrderInv /\ \A d \in Days : CountInv(d)
    BY InitInv DEF RunsInv
  <2>2. TypeOK
    BY <2>1, InitInv DEF IInv
  <2>3. OrderInv
    BY <2>1 DEF Init, OrderInv
  <2>4. ASSUME NEW d \in Days PROVE CountInv(d)
    <3>1. Others(d) = {}
      BY <2>1 DEF Init, Others, Idle
    <3>2. Cardinality(Others(d)) = 0
      BY <3>1, FS_EmptySet
    <3>3. successes[d] = 0 /\ faults = 0
      BY <2>1 DEF Init
    <3>4. Num(May(d)) \in {0, 1} /\ Num(CronDone(d)) \in {0, 1}
      BY <2>2, Counts
    <3>5. QED
      BY <3>2, <3>3, <3>4 DEF CountInv
  <2>5. QED
    BY <2>3, <2>4
<1>2. RunsInv => SuccessesBounded
  <2>1. SUFFICES ASSUME RunsInv, NEW d \in Days
                 PROVE  successes[d] <= 1 + faults + (IF Cron THEN 1 ELSE 0)
    BY DEF SuccessesBounded
  <2>2. PICK n : n = Cardinality(Others(d))
    OBVIOUS
  <2>3. /\ n \in Nat /\ successes[d] \in Nat /\ faults \in Nat
        /\ Num(May(d)) \in {0, 1} /\ Num(CronDone(d)) \in {0, 1}
        /\ successes[d] + n + Num(May(d)) <= 1 + faults + Num(CronDone(d))
    BY <2>1, <2>2, Counts DEF RunsInv, IInv, CountInv
  <2>4. Num(CronDone(d)) <= (IF Cron THEN 1 ELSE 0)
    BY DEF Num, CronDone
  <2>5. QED
    BY <2>3, <2>4
<1>3. QED
  BY <1>1, <1>2, RunsStep, PTL DEF Spec
=============================================================================
