------------------------------ MODULE ForwardOos ------------------------------
(***************************************************************************)
(* The files of the forward out-of-sample research and the daily script    *)
(* that moves them on (scripts/run_phase562_daily.sh): the accumulation of *)
(* trades and its checkpoint, the integrity audit, the promotion gate, the *)
(* milestone history and the LINE alert, each a process of its own that    *)
(* reads the files the earlier ones left.                                  *)
(*                                                                         *)
(* Cron and the scheduler start the script, and the scheduler writes what  *)
(* became of it into its own state afterwards.  Beside them: an operator   *)
(* who appends by hand while a script runs, and restores, removes or       *)
(* freezes files between two runs; an exchange that fills a gap in its     *)
(* candles; stages, scripts and a scheduler that die; and the dashboard    *)
(* that reads the files (app/research/research_operations.py).             *)
(***************************************************************************)
EXTENDS OosValidation, FiniteSets

CONSTANTS
  Markets,    \* possible markets: the trades a replay finds, by its view
  Milestones, \* MILESTONES: the signal counts whose evidence is recorded
  StaleAfter, \* stale_after_seconds, in hours
  Settings,   \* what a replay is told: warm-up, fees, symbol
  MaxHours,   \* bound: hours after the boundary
  Budgets     \* bound: how often each kind of disturbance may happen

CanonicalStrategies == <<"breakout", "short">>

Hours == 1 .. MaxHours

\* A trade: the strategy, the hours whose candles decided and closed it (hour
\* 0 stands for those before the boundary), and its row in the validation.
Trades ==
  [strategy : {"breakout", "short"}, entered : 0 .. MaxHours,
   closed : 0 .. MaxHours, row : Rows]

\* The store knows a trade by its order_id.
Id(t) == <<t.strategy, t.entered>>

\* A replay sees the candles with the exchange's gap or without it.  The
\* averages start at its first candle and no state crosses a gap, so which
\* trades there are depends on the setting and on the gap.
Views == Settings \X BOOLEAN

\* Appends by hand, files restored or removed, manifests frozen anew, a gap
\* that is filled, and faults.
Disturbances == {"append", "files", "freeze", "gap", "fault"}

ASSUME ForwardAssumption ==
  /\ "daily" \in Settings
  /\ \A m \in Markets :
       /\ DOMAIN m = Views /\ IsFiniteSet(UNION {m[v] : v \in Views})
       /\ \A v \in Views :
            m[v] \subseteq Trades /\ \A s, t \in m[v] : Id(s) = Id(t) => s = t
  /\ Milestones \subseteq Nat
  /\ StaleAfter \in Nat /\ MaxHours \in Nat \ {0}
  /\ Budgets \subseteq [Disturbances -> Nat]

VARIABLES
  now,        \* the last closed hour
  market,     \* what the strategies do in this history
  filled,     \* whether the exchange has filled the gap
  earliest,   \* of each frozen manifest: the first hour after its cutoff
  store,      \* the out-of-sample store
  checkpoint, \* the automation's checkpoint
  audited,    \* the auditor's state: what it passed last
  integrity,  \* the integrity report
  gate,       \* the pin of the gate's manifest, 0: not frozen yet
  promotion,  \* the promotion report
  history,    \* the milestone entries recorded
  candidate,  \* candidate_pin of the history, 0: no file
  notified,   \* the alert's state
  told,       \* the last change the LINE group was told of
  lock,       \* the script's lock directory
  pc,         \* the stage of the running script
  run,        \* what the stages of the running script have in memory
  scheduler,  \* the scheduler: polling, waiting, or holding an exit code
  result,     \* last_result of the scheduler's state
  heard,      \* whether result is that of the last script: no, awaited, yes
  hand,       \* the append by hand under way
  byHand,     \* what appends by hand did to the store: added, dropped
  left        \* what is left of the budget of disturbances

files   == <<store, checkpoint, audited, integrity, gate, promotion>>
records == <<history, candidate>>
alerts  == <<notified, told>>
world   == <<market, filled, earliest>>
script  == <<lock, pc, run>>
daemon  == <<scheduler, result, heard>>
manual  == <<hand, byHand>>
vars == <<now, world, files, records, alerts, script, daemon, manual, left>>

NoCheckpoint ==
  [until |-> 0, count |-> 0, runs |-> 0, pin |-> 0, state |-> "NONE"]
NoLineage    == [trades |-> {}, until |-> 0, runs |-> 0]
NoReport     == [state |-> "MISSING", health |-> "MISSING", count |-> 0]
NoPromotion  == [state |-> "MISSING", signals |-> 0, at |-> 0, pin |-> 0]
Torn         == [state |-> "INVALID", signals |-> 0, at |-> 0, pin |-> 0]
NoSnapshot   == [signals |-> 0, state |-> "NONE", health |-> "NONE"]
NoRun        == [until |-> 0, next |-> 1, filled |-> FALSE, trades |-> {}]
NoHand       == [todo |-> << >>, loaded |-> FALSE, copy |-> {}]

Init ==
  /\ now = 1 /\ market \in Markets /\ filled = FALSE /\ earliest = <<0>>
  /\ store = {} /\ checkpoint = NoCheckpoint
  /\ audited = NoLineage /\ integrity = NoReport
  /\ gate = 0 /\ promotion = NoPromotion
  /\ history = {} /\ candidate = 0
  /\ notified = NoSnapshot /\ told = NoSnapshot
  /\ lock = FALSE /\ pc = "idle" /\ run = NoRun
  /\ scheduler = "polls" /\ result = "MISSING" /\ heard = "no"
  /\ hand = NoHand /\ byHand = {}
  /\ left \in Budgets

Spends(kind) == left[kind] > 0 /\ left' = [left EXCEPT ![kind] = @ - 1]

-------------------------------------------------------------------------------
(***************************************************************************)
(* Replay and store.                                                       *)
(***************************************************************************)
Replay(strategy, until, setting, full) ==
  {t \in market[<<setting, full>>] : t.strategy = strategy /\ t.closed <= until}

\* The manifest in use is the one frozen last.
pin == Len(earliest)

\* append_immutable_replay skips what was decided before the boundary or up to
\* the discovery cutoff.
Kept(trades, boundary) ==
  {t \in trades : t.entered >= Larger(boundary, earliest[pin])}

Ids(trades) == {Id(t) : t \in trades}

\* It raises for an order_id it has with another content.
Conflict(new) == \E t \in new, s \in store : Id(t) = Id(s) /\ t # s

\* What it loads, with the new trades: written back whole.
Appended(new) == store \cup new

\* validate refuses a store without rows, or with one up to the cutoff.
Admissible(trades) ==
  /\ trades # {}
  /\ \A t \in trades : t.entered >= earliest[pin]

\* The rows validate sorts by the time of their features and their order_id.
InOrder ==
  [i \in 1 .. 2 * (MaxHours + 1) |->
     <<CanonicalStrategies[2 - (i % 2)], (i - 1) \div 2>>]

RowsOf(trades) ==
  LET order == SelectSeq(InOrder, LAMBDA id : id \in Ids(trades))
  IN  [i \in 1 .. Len(order) |-> (CHOOSE t \in trades : Id(t) = order[i]).row]

-------------------------------------------------------------------------------
(***************************************************************************)
(* Who starts the script, and what becomes of its exit code.  Whoever      *)
(* finds the lock taken exits 0.                                           *)
(***************************************************************************)
ScriptStarts ==
  /\ pc = "idle" /\ ~lock
  /\ pc' = "resolve" /\ lock' = TRUE /\ run' = NoRun

SchedulerStarts ==
  /\ scheduler = "polls"
  /\ ScriptStarts
  /\ scheduler' = "waits" /\ heard' = "awaited"
  /\ UNCHANGED <<now, world, files, records, alerts, result, manual, left>>

CronStarts ==
  /\ ScriptStarts
  /\ heard' = "no"
  /\ UNCHANGED <<now, world, files, records, alerts, scheduler, result, manual, left>>

\* The runner that skips is back at once, and its 0 is written down.
SchedulerSkips ==
  /\ scheduler = "polls" /\ lock
  /\ result' = "SUCCESS" /\ heard' = "no"
  /\ UNCHANGED <<now, world, files, records, alerts, script, scheduler, manual, left>>

\* The script ends with an exit code: the trap releases the lock, and the
\* scheduler gets the code if it is the one that waits.
Ends(code) ==
  /\ pc' = "idle" /\ lock' = FALSE /\ run' = NoRun
  /\ scheduler' = IF scheduler = "waits" THEN code ELSE scheduler
  /\ UNCHANGED <<result, heard>>

Fails == Ends("failed")

Succeeds == Ends("succeeded")

\* write_state, after subprocess.run has returned.
StateWritten ==
  /\ scheduler \in {"succeeded", "failed"}
  /\ result' = IF scheduler = "failed" THEN "FAILED" ELSE "SUCCESS"
  /\ heard' = IF heard = "awaited" THEN "yes" ELSE "no"
  /\ scheduler' = "polls"
  /\ UNCHANGED <<now, world, files, records, alerts, script, manual, left>>

-------------------------------------------------------------------------------
(***************************************************************************)
(* The daily script.  set -e ends it at the first stage that fails.        *)
(***************************************************************************)
PinDiffers == checkpoint # NoCheckpoint /\ checkpoint.pin # pin

\* Mutant: the hour that has begun counts as closed.
BegunHour == now + 1

LastClosedHour == now

\* run: nothing to do when this hour has been processed.
NoNewData ==
  /\ pc = "resolve" /\ ~PinDiffers
  /\ LastClosedHour <= checkpoint.until
  /\ pc' = "audit"
  /\ UNCHANGED <<now, world, files, records, alerts, lock, run, daemon, manual, left>>

Fetches ==
  /\ pc = "resolve" /\ ~PinDiffers
  /\ LastClosedHour > checkpoint.until
  /\ pc' = "append"
  /\ run' = [until |-> LastClosedHour, next |-> 1, filled |-> filled, trades |-> {}]
  /\ UNCHANGED <<now, world, files, records, alerts, lock, daemon, manual, left>>

PinRefused ==
  /\ pc = "resolve" /\ PinDiffers
  /\ Fails
  /\ UNCHANGED <<now, world, files, records, alerts, manual, left>>

RunReplay ==
  Kept(Replay(CanonicalStrategies[run.next], run.until, "daily", run.filled), 1)

\* One strategy at a time: the store is loaded, then replaced as a whole.
Loads ==
  /\ pc = "append" /\ run.next <= Len(CanonicalStrategies)
  /\ ~Conflict(RunReplay)
  /\ run' = [run EXCEPT !.trades = Appended(RunReplay)]
  /\ pc' = "write"
  /\ UNCHANGED <<now, world, files, records, alerts, lock, daemon, manual, left>>

Writes ==
  /\ pc = "write"
  /\ store' = run.trades
  /\ run' = [run EXCEPT !.next = @ + 1, !.trades = {}]
  /\ pc' = "append"
  /\ UNCHANGED <<now, world, checkpoint, audited, integrity, gate, promotion,
                 records, alerts, lock, daemon, manual, left>>

AppendRefused ==
  /\ pc = "append" /\ run.next <= Len(CanonicalStrategies)
  /\ Conflict(RunReplay)
  /\ Fails
  /\ UNCHANGED <<now, world, files, records, alerts, manual, left>>

\* What was appended is validated; then the checkpoint is replaced.
Checkpoints ==
  /\ pc = "append" /\ run.next > Len(CanonicalStrategies)
  /\ Admissible(store)
  /\ checkpoint' = [until |-> run.until, count |-> Cardinality(store),
                    runs |-> checkpoint.runs + 1, pin |-> pin,
                    state |-> EvidenceState(RowsOf(store))]
  /\ pc' = "audit" /\ run' = NoRun
  /\ UNCHANGED <<now, world, store, audited, integrity, gate, promotion, records,
                 alerts, lock, daemon, manual, left>>

ValidationRefused ==
  /\ pc = "append" /\ run.next > Len(CanonicalStrategies)
  /\ ~Admissible(store)
  /\ Fails
  /\ UNCHANGED <<now, world, files, records, alerts, manual, left>>

-------------------------------------------------------------------------------
(***************************************************************************)
(* The audit writes its report, fails the script unless every check holds, *)
(* and only then moves its own state on to the store it has read.          *)
(***************************************************************************)
AfterBoundary(trades) == \A t \in trades : t.entered >= 1

\* Mutant: the store is not counted against the checkpoint.
IntegrityOkUncounted ==
  /\ checkpoint.pin = pin
  /\ Cardinality(Ids(store)) = Cardinality(store)
  /\ AfterBoundary(store)
  /\ audited.trades \subseteq store
  /\ audited.until <= checkpoint.until /\ audited.runs <= checkpoint.runs

IntegrityOk ==
  /\ checkpoint.pin = pin
  /\ checkpoint.count = Cardinality(store)
  /\ Cardinality(Ids(store)) = Cardinality(store)
  /\ AfterBoundary(store)
  /\ audited.trades \subseteq store
  /\ audited.until <= checkpoint.until /\ audited.runs <= checkpoint.runs

AuditReport(state) ==
  [state  |-> state,
   health |-> IF now - checkpoint.until <= StaleAfter THEN "HEALTHY" ELSE "STALE",
   count  |-> Cardinality(store)]

AuditPasses ==
  /\ pc = "audit" /\ IntegrityOk
  /\ integrity' = AuditReport("PASS")
  /\ run' = [run EXCEPT !.trades = store]
  /\ pc' = "audited"
  /\ UNCHANGED <<now, world, store, checkpoint, audited, gate, promotion, records,
                 alerts, lock, daemon, manual, left>>

AuditFails ==
  /\ pc = "audit" /\ ~IntegrityOk
  /\ integrity' = AuditReport("FAIL")
  /\ Fails
  /\ UNCHANGED <<now, world, store, checkpoint, audited, gate, promotion, records,
                 alerts, manual, left>>

AuditSaves ==
  /\ pc = "audited"
  /\ audited' = [trades |-> run.trades, until |-> checkpoint.until,
                 runs |-> checkpoint.runs]
  /\ pc' = "gate"
  /\ UNCHANGED <<now, world, store, checkpoint, integrity, gate, promotion, records,
                 alerts, lock, run, daemon, manual, left>>

(***************************************************************************)
(* The gate validates the store as it finds it, freezes its manifest on    *)
(* the first run and refuses another one later, and writes its report.     *)
(***************************************************************************)
\* Mutant: a frozen manifest is taken as it is.
GateAgreesAlways == TRUE

GateAgrees == gate \in {0, pin}

LoadedOrFrozen == IF gate = 0 THEN pin ELSE gate

GateFreezes ==
  /\ pc = "gate" /\ Admissible(store) /\ GateAgrees
  /\ gate' = LoadedOrFrozen
  /\ run' = [run EXCEPT !.trades = store]
  /\ pc' = "frozen"
  /\ UNCHANGED <<now, world, store, checkpoint, audited, integrity, promotion,
                 records, alerts, lock, daemon, manual, left>>

GateRefused ==
  /\ pc = "gate" /\ (~Admissible(store) \/ ~GateAgrees)
  /\ Fails
  /\ UNCHANGED <<now, world, files, records, alerts, manual, left>>

GateReports ==
  /\ pc = "frozen"
  /\ promotion' = [state   |-> Decision(RowsOf(run.trades)),
                   signals |-> Cardinality(run.trades), at |-> now, pin |-> gate]
  /\ pc' = "milestones" /\ run' = NoRun
  /\ UNCHANGED <<now, world, store, checkpoint, audited, integrity, gate, records,
                 alerts, lock, daemon, manual, left>>

\* The report is written in place: a kill leaves it torn.
GateTears ==
  /\ pc = "frozen"
  /\ Spends("fault")
  /\ promotion' = Torn
  /\ Fails
  /\ UNCHANGED <<now, world, store, checkpoint, audited, integrity, gate, records,
                 alerts, manual>>

-------------------------------------------------------------------------------
(***************************************************************************)
(* The milestone history: append-only, pinned to one candidate.  Each      *)
(* entry names its milestone, so their order in the list says no more.     *)
(***************************************************************************)
Recorded == {entry.milestone : entry \in history}

\* Mutant: a milestone is due only while it is exact.
DueExact(signals) == {m \in Milestones : signals = m /\ m \notin Recorded}

Due(signals) == {m \in Milestones : signals >= m /\ m \notin Recorded}

\* The pin is that of the checkpoint whose hour the entry names; the file
\* has it from the manifest in the promotion report alone (candidate).
Entry(m) ==
  [milestone |-> m, observed |-> promotion.signals,
   mode |-> IF promotion.signals = m THEN "EXACT" ELSE "BACKFILL",
   until |-> checkpoint.until, pin |-> checkpoint.pin]

Blocked == integrity.state # "PASS" \/ integrity.health # "HEALTHY"

RecordsMilestones ==
  /\ pc = "milestones"
  /\ ~Blocked /\ candidate \in {0, promotion.pin}
  /\ history' = history \cup {Entry(m) : m \in Due(promotion.signals)}
  /\ candidate' = promotion.pin
  /\ pc' = "alert"
  /\ UNCHANGED <<now, world, files, alerts, lock, run, daemon, manual, left>>

MilestonesBlocked ==
  /\ pc = "milestones" /\ Blocked
  /\ pc' = "alert"
  /\ UNCHANGED <<now, world, files, records, alerts, lock, run, daemon, manual, left>>

MilestonesRefused ==
  /\ pc = "milestones" /\ ~Blocked /\ candidate \notin {0, promotion.pin}
  /\ Fails
  /\ UNCHANGED <<now, world, files, records, alerts, manual, left>>

-------------------------------------------------------------------------------
(***************************************************************************)
(* The alert tells of a change before it remembers it; without a change it *)
(* sends a heartbeat.  Its failure does not fail the script.               *)
(***************************************************************************)
Snapshot ==
  [signals |-> promotion.signals, state |-> promotion.state,
   health |-> integrity.health]

AlertSends ==
  /\ pc = "alert" /\ Snapshot # notified
  /\ told' = Snapshot
  /\ pc' = "sent"
  /\ UNCHANGED <<now, world, files, records, notified, lock, run, daemon, manual, left>>

AlertSaves ==
  /\ pc = "sent"
  /\ notified' = Snapshot
  /\ Succeeds
  /\ UNCHANGED <<now, world, files, records, told, manual, left>>

Heartbeat ==
  /\ pc = "alert" /\ Snapshot = notified
  /\ Succeeds
  /\ UNCHANGED <<now, world, files, records, alerts, manual, left>>

\* LINE is down, or the alert's process dies before its state is written.
AlertFails ==
  /\ pc \in {"alert", "sent"}
  /\ Spends("fault")
  /\ Succeeds
  /\ UNCHANGED <<now, world, files, records, alerts, manual>>

-------------------------------------------------------------------------------
(***************************************************************************)
(* What dies.                                                              *)
(***************************************************************************)
\* A stage raises, or is killed between two of its writes: the candles cannot
\* be fetched or do not reach until, a file cannot be replaced.
StageDies ==
  /\ pc \notin {"idle", "alert", "sent"}
  /\ Spends("fault")
  /\ Fails
  /\ UNCHANGED <<now, world, files, records, alerts, manual>>

\* The script itself is killed: no trap runs and its lock stays.
Killed ==
  /\ pc # "idle"
  /\ Spends("fault")
  /\ pc' = "idle" /\ run' = NoRun
  /\ scheduler' = IF scheduler = "waits" THEN "failed" ELSE scheduler
  /\ UNCHANGED <<now, world, files, records, alerts, lock, result, heard, manual>>

\* The scheduler dies and starts again, with its script or without it: the
\* code it waited for, or had not written down yet, is lost.
SchedulerDies ==
  /\ scheduler # "polls"
  /\ Spends("fault")
  /\ scheduler' = "polls"
  /\ heard' = IF heard = "awaited" THEN "no" ELSE heard
  /\ \/ UNCHANGED <<pc, run>>
     \/ scheduler = "waits" /\ pc' = "idle" /\ run' = NoRun
  /\ UNCHANGED <<now, world, files, records, alerts, lock, result, manual>>

LockRemoved ==
  /\ pc = "idle" /\ lock
  /\ lock' = FALSE
  /\ UNCHANGED <<now, world, files, records, alerts, pc, run, daemon, manual, left>>

-------------------------------------------------------------------------------
(***************************************************************************)
(* The append by hand (scripts/update_phase561_forward_oos.py) knows       *)
(* neither the lock nor the checkpoint: it may run at any time, with any   *)
(* setting and boundary, and up to the candle that has just begun, whose   *)
(* opening price is final.  todo holds what it has still to append, copy   *)
(* the store it is about to write.                                         *)
(***************************************************************************)
Loaded(new, todo) == [todo |-> todo, loaded |-> TRUE, copy |-> Appended(new)]

HandStarts ==
  /\ hand = NoHand
  /\ Spends("append")
  /\ \E until \in 1 .. now + 1, setting \in Settings, boundary \in {0, 1} :
       LET New(strategy) == Kept(Replay(strategy, until, setting, filled), boundary)
       IN  /\ ~Conflict(New("breakout"))
           /\ hand' = Loaded(New("breakout"), <<New("short")>>)
  /\ UNCHANGED <<now, world, files, records, alerts, script, daemon, byHand>>

HandLoads ==
  /\ hand.todo # << >> /\ ~hand.loaded
  /\ ~Conflict(Head(hand.todo))
  /\ hand' = Loaded(Head(hand.todo), Tail(hand.todo))
  /\ UNCHANGED <<now, world, files, records, alerts, script, daemon, byHand, left>>

HandWrites ==
  /\ hand.loaded
  /\ store' = hand.copy
  /\ hand' = [hand EXCEPT !.loaded = FALSE, !.copy = {}]
  /\ byHand' = byHand \cup (IF hand.copy \subseteq store THEN {} ELSE {"added"})
                      \cup (IF store \subseteq hand.copy THEN {} ELSE {"dropped"})
  /\ UNCHANGED <<now, world, checkpoint, audited, integrity, gate, promotion,
                 records, alerts, script, daemon, left>>

\* It raises at a conflict, or is interrupted.
HandStops ==
  /\ hand # NoHand
  /\ hand' = NoHand
  /\ UNCHANGED <<now, world, files, records, alerts, script, daemon, byHand, left>>

-------------------------------------------------------------------------------
(***************************************************************************)
(* The rest of the world.  The operator restores, removes and freezes      *)
(* files between two runs.                                                 *)
(***************************************************************************)
Tick ==
  /\ now < MaxHours
  /\ now' = now + 1
  /\ UNCHANGED <<world, files, records, alerts, script, daemon, manual, left>>

GapFilled ==
  /\ ~filled
  /\ Spends("gap")
  /\ filled' = TRUE
  /\ UNCHANGED <<now, market, earliest, files, records, alerts, script, daemon,
                 manual>>

\* run_phase56_frozen_oos_validation.py --manifest-output, for any discovery
\* data: its last row is the cutoff.
Refreezes ==
  /\ pc = "idle"
  /\ Spends("freeze")
  /\ \E hour \in 0 .. now : earliest' = Append(earliest, hour)
  /\ UNCHANGED <<now, market, filled, files, records, alerts, script, daemon,
                 manual>>

\* An older store is brought back, from a backup or another host.
StoreRestored ==
  /\ pc = "idle"
  /\ Spends("files")
  /\ store' \in SUBSET store
  /\ UNCHANGED <<now, world, checkpoint, audited, integrity, gate, promotion,
                 records, alerts, script, daemon, manual>>

\* The files that refuse the manifest, or one of them, are removed:
\* load_checkpoint and load_or_freeze_gate_manifest take a missing file for a
\* first run.
PinRemoved ==
  /\ pc = "idle"
  /\ Spends("files")
  /\ checkpoint' \in {checkpoint, NoCheckpoint} /\ gate' \in {gate, 0}
  /\ UNCHANGED <<now, world, store, audited, integrity, promotion, records, alerts,
                 script, daemon, manual>>

-------------------------------------------------------------------------------
Stage ==
  \/ NoNewData \/ Fetches \/ PinRefused \/ Loads \/ Writes \/ AppendRefused
  \/ Checkpoints \/ ValidationRefused \/ AuditPasses \/ AuditFails \/ AuditSaves
  \/ GateFreezes \/ GateRefused \/ GateReports \/ RecordsMilestones
  \/ MilestonesBlocked \/ MilestonesRefused \/ AlertSends \/ AlertSaves \/ Heartbeat

Faults == GateTears \/ AlertFails \/ StageDies \/ Killed \/ SchedulerDies

Operator ==
  \/ HandStarts \/ HandLoads \/ HandWrites \/ HandStops
  \/ Refreezes \/ StoreRestored \/ PinRemoved \/ LockRemoved

Next ==
  \/ SchedulerStarts \/ CronStarts \/ SchedulerSkips \/ StateWritten
  \/ Stage \/ Faults \/ Operator \/ Tick \/ GapFilled

Spec == Init /\ [][Next]_vars

\* The clock goes on, the scheduler polls (see DailyResearch) and writes what
\* it heard, and no stage hangs: a stage is enabled whenever a script runs, so
\* that a script that takes its steps comes back to idle.
FairSpec ==
  /\ Spec
  /\ WF_vars(Tick) /\ WF_vars(SchedulerStarts) /\ WF_vars(StateWritten)
  /\ []<>(pc = "idle")

-------------------------------------------------------------------------------
(***************************************************************************)
(* The dashboard's operational state.                                      *)
(***************************************************************************)
PromotionHealth ==
  CASE promotion \in {NoPromotion, Torn} -> promotion.state
    [] now - promotion.at > StaleAfter -> "STALE"
    [] OTHER -> "HEALTHY"

IntegrityHealth == IF integrity.state = "FAIL" THEN "FAIL" ELSE integrity.health

\* Mutant: a failed run counts as one that was made.
SchedulerHealthLenient == IF result = "MISSING" THEN result ELSE "HEALTHY"

SchedulerHealth == IF result = "SUCCESS" THEN "HEALTHY" ELSE result

FileHealth(exists) == IF exists THEN "HEALTHY" ELSE "MISSING"

OverallState(states) ==
  CASE "INVALID" \in states -> "INVALID"
    [] states \cap {"FAIL", "FAILED"} # {} -> "DEGRADED"
    [] "MISSING" \in states -> "MISSING"
    [] "STALE" \in states -> "STALE"
    [] OTHER -> "HEALTHY"

Dashboard ==
  OverallState({PromotionHealth, IntegrityHealth, SchedulerHealth,
                FileHealth(checkpoint # NoCheckpoint), FileHealth(candidate # 0)})

-------------------------------------------------------------------------------
(***************************************************************************)
(* Properties.                                                             *)
(***************************************************************************)
\* The trades any replay of this market may find.
AllTrades == UNION {market[v] : v \in Views}

Modes == {"EXACT", "BACKFILL"}

\* Every variable keeps its type, the stores hold trades of the market, no run
\* reaches past the last closed hour, and the counts of the reports are counts.
TypeOK ==
  /\ now \in Hours /\ market \in Markets /\ filled \in BOOLEAN
  /\ earliest \in Seq(0 .. MaxHours) /\ earliest # << >>
  /\ store \subseteq AllTrades
  /\ audited \in [trades : SUBSET AllTrades, until : 0 .. now, runs : Nat]
  /\ checkpoint \in [until : 0 .. now, count : Nat, runs : Nat,
                     pin : 0 .. Len(earliest),
                     state : {"NONE", "TOO_EARLY", "PASS", "EVALUATE", "FAIL"}]
  /\ integrity \in [state : {"MISSING", "PASS", "FAIL"},
                    health : {"MISSING", "HEALTHY", "STALE"}, count : Nat]
  /\ gate \in 0 .. Len(earliest) /\ candidate \in 0 .. Len(earliest)
  /\ promotion \in [state : {"MISSING", "INVALID", "TOO_EARLY", "REJECT",
                             "CONTINUE_ACCUMULATING", "ACCEPT"},
                    signals : Nat, at : 0 .. now, pin : 0 .. Len(earliest)]
  /\ history \subseteq [milestone : Milestones, observed : Nat, mode : Modes,
                        until : 1 .. now, pin : 1 .. Len(earliest)]
  /\ lock \in BOOLEAN /\ (pc # "idle" => lock)
  /\ pc \in {"idle", "resolve", "append", "write", "audit", "audited", "gate",
             "frozen", "milestones", "alert", "sent"}
  /\ run \in [until : 0 .. now, next : 1 .. Len(CanonicalStrategies) + 1,
              filled : BOOLEAN, trades : SUBSET AllTrades]
  /\ scheduler \in {"polls", "waits", "succeeded", "failed"}
  /\ result \in {"MISSING", "SUCCESS", "FAILED"}
  /\ heard \in {"no", "awaited", "yes"}
  /\ hand \in [todo : Seq(SUBSET AllTrades), loaded : BOOLEAN, copy : SUBSET AllTrades]
  /\ byHand \subseteq {"added", "dropped"}
  /\ left \in [Disturbances -> Nat]

\* The trades the daily replay has to keep up to an hour, for a manifest.
Fresh(full, until, manifest) ==
  {t \in market[<<"daily", full>>] :
     t.closed <= until /\ t.entered >= Larger(1, earliest[manifest])}

\* A milestone entry stands for the trades the daily replay finds up to the
\* hour it names, with the candles of before or after a filled gap: none of
\* them is missing unless an append by hand has replaced a store it had loaded
\* before, and none is too many unless such an append has added trades.
\* Whatever fails, is restored, removed or frozen anew, nothing appended
\* halfway or left over is ever recorded with another run's checkpoint.
MilestoneAudited ==
  \A entry \in history :
    LET Expected(full) == Fresh(full, entry.until, entry.pin)
    IN  /\ entry.observed >= entry.milestone
        /\ "dropped" \notin byHand =>
             \E full \in {FALSE, filled} : Cardinality(Expected(full)) <= entry.observed
        /\ byHand = {} =>
             entry.observed <= Cardinality(Expected(FALSE) \cup Expected(filled))

\* Every milestone is judged with the manifest its history is pinned to, also
\* when another manifest is frozen and the files that refuse it are removed.
OneFrozenContract == \A entry \in history : entry.pin = candidate

\* Between two runs a dashboard that says HEALTHY shows the files of one run:
\* the signals of the gate, the checkpoint and the audit agree, whichever
\* stage of which run failed before.  It needs the scheduler to have written
\* down what became of the last script, which a skip, cron's script or a death
\* in between leave out, and no append by hand between two stages.
HealthyIsConsistent ==
  pc = "idle" /\ heard = "yes" /\ byHand = {} /\ Dashboard = "HEALTHY" =>
    /\ promotion.signals = checkpoint.count
    /\ integrity.count = checkpoint.count

Undisturbed ==
  /\ ~filled /\ Len(earliest) = 1 /\ byHand = {}
  /\ checkpoint.count <= Cardinality(store) /\ audited.runs <= checkpoint.runs

StaleLock == lock /\ pc = "idle"

\* While the exchange's past, the manifest and the files stay and nobody
\* appends by hand, every milestone the market passes is recorded in the end
\* and its group is told of at least as many signals, whatever stage fails or
\* dies on the way, unless a killed script's lock stays.
EvidenceRecorded ==
  \A m \in Milestones :
    [](Cardinality(Fresh(FALSE, now, 1)) >= m =>
         <>((m \in Recorded /\ told.signals >= m) \/ StaleLock \/ ~Undisturbed))

\* A candidate the gate accepts has passed the validation it was judged by, so
\* the checkpoint of the same trades says PASS.
AcceptedIsValidated ==
  promotion.state = "ACCEPT" /\ promotion.signals = checkpoint.count
    => checkpoint.state = "PASS"

=============================================================================
