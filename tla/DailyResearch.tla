---------------------------- MODULE DailyResearch ----------------------------
(***************************************************************************)
(* The daily research run: the Termux scheduler                            *)
(* (app/research/daily_scheduler.py) and cron both start                   *)
(* scripts/run_phase562_daily.sh, which holds a lock directory while it    *)
(* works and releases it in an EXIT trap.  The scheduler takes an exit     *)
(* status of 0 for a day that is done.                                     *)
(*                                                                         *)
(* The four mandatory stages of a runner are one step that succeeds or     *)
(* fails: set -e ends the script at the first that fails.  The alert after *)
(* them cannot fail the script and is left out.                            *)
(***************************************************************************)
EXTENDS Naturals, FiniteSets

CONSTANTS
  Cron,     \* install_phase562_daily_cron.sh was run as well
  Runners,  \* bound: runner processes alive at one time
  NoRunner, \* no process
  MaxDays,  \* bound: days
  MaxFaults \* bound: killed processes, failing writes and mkdirs

Days == 1 .. MaxDays

ASSUME ConstantsAssumption ==
  /\ Cron \in BOOLEAN /\ IsFiniteSet(Runners) /\ NoRunner \notin Runners
  /\ MaxDays \in Nat \ {0} /\ MaxFaults \in Nat

VARIABLES
  today,  \* the local date
  due,    \* the scheduled time of today has passed
  lock,   \* the lock directory exists
  runner, \* runner[r]: where the process is, and the day it was started for
  marked, \* last_run_local_date of the scheduler's state file, 0: none
  pc,     \* the scheduler: "down", "poll", "wait" or "record"
  child,  \* the runner the scheduler waits for
  date,   \* current.date(), taken before the runner starts
  code,   \* the return code of the runner
  faults, \* faults so far
  successes, \* history: successes[d], complete runs started for day d
  skipped    \* history: days for which a runner gave way to the lock

clock     == <<today, due>>
scheduler == <<marked, pc, child, date, code>>
history   == <<successes, skipped>>
vars == <<clock, lock, runner, scheduler, faults, history>>

Idle == [at |-> "idle", day |-> 0]

Free == {r \in Runners : runner[r].at = "idle"}

Working == {r \in Runners : runner[r].at = "work"}

Init ==
  /\ today = 1 /\ due = FALSE
  /\ lock = FALSE
  /\ runner = [r \in Runners |-> Idle]
  /\ marked = 0
  /\ pc = "poll" /\ child = NoRunner /\ date = 1 /\ code = 0
  /\ faults = 0
  /\ successes = [d \in Days |-> 0] /\ skipped = {}

Fault == faults < MaxFaults /\ faults' = faults + 1

Spawn(r, day) == runner' = [runner EXCEPT ![r] = [at |-> "begin", day |-> day]]

\* A runner ends; the scheduler gets the status of its own child only.
Exit(r, status) ==
  /\ runner' = [runner EXCEPT ![r] = Idle]
  /\ IF r = child
     THEN pc' = "record" /\ child' = NoRunner /\ code' = status
     ELSE UNCHANGED <<pc, child, code>>
  /\ UNCHANGED <<marked, date>>

(***************************************************************************)
(* The runner script.                                                      *)
(***************************************************************************)
TakeLock(r) ==
  /\ runner[r].at = "begin" /\ ~lock
  /\ lock' = TRUE
  /\ runner' = [runner EXCEPT ![r].at = "work"]
  /\ UNCHANGED <<clock, scheduler, faults, history>>

\* Mutant: the trap is set before the lock is taken.
SkipReleases(r) ==
  /\ runner[r].at = "begin" /\ lock
  /\ lock' = FALSE
  /\ Exit(r, 0)
  /\ skipped' = skipped \cup {runner[r].day}
  /\ UNCHANGED <<clock, faults, successes>>

\* mkdir fails, because the lock exists or for any other reason.
Skip(r) ==
  /\ runner[r].at = "begin"
  /\ \/ lock /\ UNCHANGED faults
     \/ Fault
  /\ Exit(r, 0)
  /\ skipped' = skipped \cup {runner[r].day}
  /\ UNCHANGED <<clock, lock, successes>>

\* The config is missing or the log directory cannot be made.
FailEarly(r) ==
  /\ runner[r].at = "begin"
  /\ Exit(r, 1)
  /\ UNCHANGED <<clock, lock, faults, history>>

Succeed(r) ==
  /\ runner[r].at = "work"
  /\ lock' = FALSE
  /\ successes' = [successes EXCEPT ![runner[r].day] = @ + 1]
  /\ Exit(r, 0)
  /\ UNCHANGED <<clock, faults, skipped>>

\* Mutant: the lock is released at the end of the script only.
FailKeepsLock(r) ==
  /\ runner[r].at = "work"
  /\ Exit(r, 1)
  /\ UNCHANGED <<clock, lock, faults, history>>

\* A stage fails; the trap releases the lock.
Fail(r) ==
  /\ runner[r].at = "work"
  /\ lock' = FALSE
  /\ Exit(r, 1)
  /\ UNCHANGED <<clock, faults, history>>

\* SIGKILL or an out-of-memory kill: no trap runs.
KillRunner(r) ==
  /\ runner[r].at # "idle" /\ Fault
  /\ Exit(r, 1)
  /\ UNCHANGED <<clock, lock, history>>

(***************************************************************************)
(* The scheduler.                                                          *)
(***************************************************************************)
\* Mutant: a day that is done is not remembered.
ShouldRunAgain == due

ShouldRun == due /\ marked # today

\* Mutant: the date of the next schedule.
RunDateNext == today + 1

RunDate == today

Poll ==
  /\ pc = "poll" /\ ShouldRun
  /\ \E r \in Free : Spawn(r, RunDate) /\ child' = r
  /\ date' = RunDate
  /\ pc' = "wait"
  /\ UNCHANGED <<clock, lock, marked, code, faults, history>>

\* Mutant: the day the run ended on is marked.
DoneToday == IF code = 0 THEN today ELSE marked

\* Mutant: an attempt is enough.
DoneAttempted == date

Done == IF code = 0 THEN date ELSE marked

\* write_state, or its failure, which run_forever only logs.
Record ==
  /\ pc = "record"
  /\ \/ marked' = Done /\ UNCHANGED faults
     \/ Fault /\ UNCHANGED marked
  /\ pc' = "poll"
  /\ UNCHANGED <<clock, lock, runner, child, date, code, history>>

\* termux_stop, or the process dies; a runner it started goes on.
StopScheduler ==
  /\ pc # "down" /\ Fault
  /\ pc' = "down" /\ child' = NoRunner
  /\ UNCHANGED <<clock, lock, runner, marked, date, code, history>>

StartScheduler ==
  /\ pc = "down"
  /\ pc' = "poll"
  /\ UNCHANGED <<clock, lock, runner, marked, child, date, code, faults, history>>

(***************************************************************************)
(* The clock, and the crontab entry of the same time.                      *)
(***************************************************************************)
TimeComes ==
  /\ ~due /\ due' = TRUE
  /\ \/ UNCHANGED runner
     \/ Cron /\ \E r \in Free : Spawn(r, today)
  /\ UNCHANGED <<today, lock, scheduler, faults, history>>

Midnight ==
  /\ due /\ today < MaxDays
  /\ today' = today + 1 /\ due' = FALSE
  /\ UNCHANGED <<lock, runner, scheduler, faults, history>>

Run(r) == TakeLock(r) \/ Skip(r) \/ FailEarly(r) \/ Succeed(r) \/ Fail(r)

Schedule == Poll \/ Record

Next ==
  \/ \E r \in Runners : Run(r) \/ KillRunner(r)
  \/ Schedule \/ StopScheduler \/ StartScheduler
  \/ TimeComes \/ Midnight

Spec == Init /\ [][Next]_vars

\* Running processes go on; a stage ends, its requests have timeouts.
FairSpec ==
  Spec /\ WF_vars(Schedule) /\ \A r \in Runners : WF_vars(Run(r))
-----------------------------------------------------------------------------
\* Every variable stays in the set its file, process or clock ranges over.
TypeOK ==
  /\ today \in Days /\ due \in BOOLEAN /\ lock \in BOOLEAN
  /\ runner \in [Runners -> [at : {"idle", "begin", "work"}, day : Days \cup {0}]]
  /\ marked \in Days \cup {0}
  /\ pc \in {"down", "poll", "wait", "record"}
  /\ child \in Runners \cup {NoRunner}
  /\ date \in Days /\ code \in {0, 1}
  /\ faults \in 0 .. MaxFaults
  /\ successes \in [Days -> Nat] /\ skipped \subseteq Days

\* The stages, which append to one evidence store, never run twice at once:
\* not from cron and scheduler, nor from an orphan of a stopped scheduler.
OneRunnerAtWork == \A r, q \in Working : r = q

\* Only a kill leaves a lock that nobody will release.
StaleLockNeedsKill == lock /\ Working = {} => faults > 0

Handled(d) == successes[d] > 0 \/ d \in skipped

\* A marked day had its own complete run or a runner that met the lock, also
\* when the run ended after midnight or the file was written late.
MarkedDayHandled == marked # 0 => Handled(marked)

\* A day is researched once, plus once for cron and once for every fault
\* that hides a finished run from the scheduler.
SuccessesBounded ==
  \A d \in Days : successes[d] <= 1 + faults + (IF Cron THEN 1 ELSE 0)

\* daily_scheduler.py: "A failed attempt remains eligible for retry on the
\* next poll", as long as the day and the scheduler last.
FailedAttemptRetried ==
  \A d \in Days :
    (pc = "record" /\ code # 0 /\ date = d /\ today = d)
      ~> (child # NoRunner /\ date = d) \/ today # d \/ pc = "down"

\* daily_scheduler.py: "Mark a day complete only after a successful runner."
MarkedDaySucceeded == marked # 0 => successes[marked] > 0
=============================================================================
