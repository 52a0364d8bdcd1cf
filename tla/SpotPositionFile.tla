--------------------------- MODULE SpotPositionFile ---------------------------
(***************************************************************************)
(* The spot position file under all its writers: the trading process       *)
(* (engine, trade-path observer, fill reconciler, in this order in every   *)
(* round), the TP/SL monitor and the manual scripts.  No writer takes a    *)
(* lock: a store method loads the file in one step and replaces it in a    *)
(* later one, so a save can undo what another process saved in between.    *)
(* `clobbered' remembers the rows such a save undid.  Next to the trading  *)
(* process one of the two others runs, the scripts against the entries of  *)
(* the baseline trader and of the order script, the monitor against a      *)
(* legacy position and the entries of the triple EMA trader: a bound.      *)
(***************************************************************************)
EXTENDS PositionStore, FiniteSets

CONSTANTS
  Baseline,     \* entries of the baseline trader (fixed TP and SL)
  Triple,       \* entries of the triple EMA trader (no take profit)
  Manual,       \* BUYs of the order script (baseline, fixed TP and SL)
  Legacy,       \* baseline positions whose levels the monitor still watches
  Hits,         \* the levels a price may hit
  Attempts,     \* tries of the fill reconciler per position and round
  MaxScripts,   \* bound: runs of the manual scripts
  MaxHits,      \* bound: level hits the monitor records
  MaxCrashes   \* bound: crashes of the trading process

ASSUME FileAssumption ==
  /\ Hits \subseteq {"TP_HIT", "SL_HIT"}
  /\ Attempts \in Nat \ {0}
  /\ MaxScripts \in Nat
  /\ MaxHits \in Nat
  /\ MaxCrashes \in Nat

Ids == Baseline \cup Triple \cup Manual \cup Legacy

Strategy(id) == IF id \in Triple THEN 2 ELSE 1

FixedLevels(id) == id \in Baseline \cup Manual

Procs == {"trader", "script", "monitor"}

VARIABLES
  file,       \* the rows of the position file
  copy,       \* the rows a process loaded for the call in progress
  call,       \* the store method a process is in
  pc,         \* where each process is
  at,         \* the position each process works on
  rows,       \* the rows a script loaded before its work
  exits,      \* the exit orders the fill sweep loaded with its positions
  left,       \* the positions the loops of trader and monitor still visit
  tries,      \* attempts made by the fill reconciler for this position
  bought,     \* entries executed by the exchange
  sold,       \* how the exchange sold the coins of an entry
  protected,  \* entries with an active protective order list
  filled,     \* filled protective lists in the exchange's history: 0, 1, several
  lost,       \* entries the exchange forgot in a Testnet reset
  unfinished, \* the order journal holds an unfinished attempt
  told,       \* level hits that were sent to LINE
  refused,    \* BUYs the store refused to add
  clobbered,  \* rows undone by the save of a stale copy
  runs        \* script runs, restarts

exchange == <<bought, sold, protected, filled, lost>>
ghosts == <<told, refused, clobbered>>
loops == <<rows, exits, left, tries>>
vars == <<file, copy, call, pc, at, loops, exchange, unfinished, ghosts, runs>>

NoRows == [id \in {} |-> NoPosition]
NoId == "none"
NoCall == [method |-> "none", id |-> NoId, arg |-> "NONE", fees |-> FALSE]
Call(method, id, arg) == [NoCall EXCEPT !.method = method, !.id = id, !.arg = arg]

Rows == [Ids -> Positions({1, 2})]

TypeOK ==
  /\ file \in Rows
  /\ copy \in [Procs -> Rows \cup {NoRows}]
  /\ rows \in Rows \cup {NoRows}
  /\ exits \in [Ids -> ExitKinds]
  /\ at \in [Procs -> Ids \cup {NoId}]
  /\ left \in [Procs -> SUBSET Ids]
  /\ tries \in 0..Attempts
  /\ sold \in [Ids -> ExitKinds] /\ filled \in [Ids -> 0..2]
  /\ {bought, protected, lost, told, refused, clobbered} \subseteq SUBSET Ids
  /\ unfinished \in BOOLEAN
  /\ runs \in [script : 0..MaxScripts, hit : 0..MaxHits, crash : 0..MaxCrashes]

MonitorRuns == pc["monitor"] # "off"

Init ==
  /\ \E other \in {"script", "monitor"} :
       pc = [p \in Procs |-> CASE p = "trader" -> "engine"
                               [] p = other -> "idle"
                               [] OTHER -> "off"]
  /\ file = [id \in Ids |->
               IF id \in Legacy /\ MonitorRuns
               THEN [NoPosition EXCEPT !.status = "OPEN", !.strategy = Strategy(id),
                                       !.rec = "PENDING"]
               ELSE NoPosition]
  /\ copy = [p \in Procs |-> NoRows]
  /\ call = [p \in Procs |-> NoCall]
  /\ at = [p \in Procs |-> NoId]
  /\ rows = NoRows
  /\ exits = [id \in Ids |-> "NONE"]
  /\ left = [p \in Procs |-> {}]
  /\ tries = 0
  /\ bought = IF MonitorRuns THEN Legacy ELSE {}
  /\ sold = [id \in Ids |-> "NONE"]
  /\ protected = {}
  /\ filled = [id \in Ids |-> 0]
  /\ lost = {}
  /\ unfinished = FALSE
  /\ told = {}
  /\ refused = {}
  /\ clobbered = {}
  /\ runs = [script |-> 0, hit |-> 0, crash |-> 0]

-----------------------------------------------------------------------------
(* A call of the store: Load reads the file, Save replaces it.             *)

\* Mutant: the quarantine trusts the audit and does not look again.
RaisesTrusting(c, old) ==
  CASE c.method = "add" -> AddRefused(old, c.id, Strategy(c.id))
    [] c.method = "reconcile" -> ReconcileRefused(old[c.id], c.arg)
    [] c.method \in {"quarantine", "observe"} -> FALSE
    [] OTHER -> ~Tracked(old, c.id)

\* Which calls raise instead of saving, on the rows they loaded.
Raises(c, old) ==
  CASE c.method = "add" -> AddRefused(old, c.id, Strategy(c.id))
    [] c.method = "quarantine" -> ~MayQuarantine(old[c.id])
    [] c.method = "reconcile" -> \/ ~Tracked(old, c.id)
                                 \/ ReconcileRefused(old[c.id], c.arg)
    [] c.method = "observe" -> FALSE
    [] OTHER -> ~Tracked(old, c.id)

\* The rows a call saves.  The observer's samples and the reconciler's
\* attempt count are not kept: their saves put back the rows they loaded.
Saved(c, old) ==
  CASE c.method = "add" -> AddPosition(old, c.id, Strategy(c.id))
    [] c.method = "close" -> MarkClosed(old, c.id, c.arg)
    [] c.method = "trigger" -> MarkTriggered(old, c.id, c.arg)
    [] c.method = "sent" -> MarkNotificationSent(old, c.id)
    [] c.method = "quarantine" -> MarkExchangeHistoryLost(old, c.id)
    [] c.method = "error" -> MarkReconciliationError(old, c.id)
    [] c.method = "reconcile" -> ReconcileFills(old, c.id, c.arg, c.fees)
    [] OTHER -> old

Begin(p, c, label) ==
  /\ call' = [call EXCEPT ![p] = c]
  /\ pc' = [pc EXCEPT ![p] = label]
  /\ at' = [at EXCEPT ![p] = c.id]

\* A call whose decision needs nothing of the file that could change before
\* it loads: both are one step.
BeginLoaded(p, c, label) ==
  /\ Begin(p, c, label)
  /\ copy' = [copy EXCEPT ![p] = file]

Load(p) ==
  /\ call[p] # NoCall /\ copy[p] = NoRows
  /\ copy' = [copy EXCEPT ![p] = file]
  /\ UNCHANGED <<file, call, pc, at, loops, exchange, unfinished, ghosts, runs>>

\* The rows whose newer content a save of rows based on `old' undoes.
Undone(old) == {id \in Ids : old[id] # file[id]}

Return(p) ==
  /\ copy' = [copy EXCEPT ![p] = NoRows]
  /\ call' = [call EXCEPT ![p] = NoCall]

\* The position is kept only while the process is not done with it.
Goes(p, next) ==
  /\ pc' = [pc EXCEPT ![p] = next]
  /\ at' = [at EXCEPT ![p] =
              IF next \in {"fetching", "failed", "retrying", "restoring"}
              THEN @ ELSE NoId]

InCall(p, label) == pc[p] = label /\ copy[p] # NoRows

\* The call ends: it saves and the process goes on at `next', or it raises.
Save(p, label, next) ==
  /\ InCall(p, label)
  /\ ~Raises(call[p], copy[p])
  /\ file' = Saved(call[p], copy[p])
  /\ clobbered' = clobbered \cup Undone(copy[p])
  /\ Goes(p, next)
  /\ Return(p)
  /\ UNCHANGED <<exchange, told, refused, runs>>

Raise(p, label, next) ==
  /\ InCall(p, label)
  /\ Raises(call[p], copy[p])
  /\ Goes(p, next)
  /\ Return(p)
  /\ UNCHANGED <<file, exchange, told, clobbered, runs>>

-----------------------------------------------------------------------------
(* The exchange.                                                           *)

\* A list the operator attached to a position that is sold already sells
\* other coins of the account.
FillProtective(id) ==
  /\ id \in protected
  /\ sold' = [sold EXCEPT ![id] = "PROTECTIVE"]
  /\ protected' = protected \ {id}
  /\ filled' = [filled EXCEPT ![id] = IF @ = 0 THEN 1 ELSE 2]
  /\ UNCHANGED <<file, copy, call, pc, at, loops, bought, lost, unfinished, ghosts, runs>>

\* A Testnet reset forgets every order.  The model has at most one, and
\* none next to the monitor, which asks the exchange only for a price.
Reset ==
  /\ lost = {} /\ bought # {} /\ ~MonitorRuns
  /\ lost' = bought
  /\ protected' = {} /\ filled' = [id \in Ids |-> 0]
  /\ UNCHANGED <<file, copy, call, pc, at, loops, bought, sold, unfinished, ghosts, runs>>

-----------------------------------------------------------------------------
(* The trading process: one engine step, the observer, the fill sweep.     *)

Held(strategy) == UnresolvedPositions(file, strategy)

TraderAt(label) == pc["trader"] = label

TraderGoes(next) ==
  /\ pc' = [pc EXCEPT !["trader"] = next]
  /\ UNCHANGED <<file, copy, call, at, exchange, unfinished, ghosts, runs>>

EngineAt == TraderAt("engine") /\ ~unfinished

\* Nothing to do, or a check that fails before any order.
EngineIdle ==
  /\ EngineAt
  /\ BeginLoaded("trader", Call("observe", NoId, "NONE"), "observing")
  /\ UNCHANGED <<file, loops, exchange, unfinished, ghosts, runs>>

EngineBuy(id) ==
  /\ EngineAt
  /\ id \in (IF MonitorRuns THEN Triple ELSE Baseline) \ bought
  /\ Held(Strategy(id)) = {}
  /\ bought' = bought \cup {id}
  /\ unfinished' = TRUE
  /\ Begin("trader", Call("add", id, "NONE"), "adding")
  /\ UNCHANGED <<file, copy, loops, sold, protected, filled, lost, ghosts, runs>>

\* The dynamic exit of the triple EMA trader: it sells what the file holds,
\* again when a stale save has brought the row back.
EngineSell(id) ==
  /\ EngineAt
  /\ id \in Triple /\ Held(2) = {id}
  /\ sold' = [sold EXCEPT ![id] = "SOFTWARE"]
  /\ unfinished' = TRUE
  /\ Begin("trader", Call("close", id, "SOFTWARE"), "selling")
  /\ UNCHANGED <<file, copy, loops, bought, protected, filled, lost, ghosts, runs>>

ExitFound(id) == filled[id] = 1

\* The guard records the protective exit it finds filled ...
EngineSettle(id) ==
  /\ EngineAt
  /\ Held(1) = {id} /\ file[id].status = "OPEN" /\ ExitFound(id)
  /\ Begin("trader", Call("close", id, "PROTECTIVE"), "settling")
  /\ UNCHANGED <<file, copy, loops, exchange, unfinished, ghosts, runs>>

\* ... protects an open position without orders ...
EngineProtect(id) ==
  /\ EngineAt
  /\ Held(1) = {id} /\ file[id].status = "OPEN"
  /\ filled[id] = 0 /\ id \notin protected
  /\ protected' = protected \cup {id}
  /\ pc' = [pc EXCEPT !["trader"] = "observe"]
  /\ UNCHANGED <<file, copy, call, at, loops, bought, sold, filled, lost, unfinished, ghosts,
                 runs>>

\* ... and halts on one whose level hit the monitor has recorded, or that
\* several lists have sold.  Several unresolved positions, or an unfinished
\* attempt in the order journal, halt the engine before the guard is asked.
EngineHalts ==
  /\ TraderAt("engine")
  /\ \/ unfinished
     \/ Cardinality(Held(1)) > 1
     \/ \E id \in Held(1) : file[id].status # "OPEN" \/ filled[id] > 1
  /\ TraderGoes("stopped") /\ UNCHANGED loops

EngineSaves ==
  /\ \/ Save("trader", "adding", "capture")
     \/ Save("trader", "selling", "capture")
     \/ Save("trader", "settling", "observe")
  /\ unfinished' = FALSE
  /\ UNCHANGED loops

\* A BUY the store refuses, or a sold position whose row is gone, ends the
\* check with the attempt unfinished; in the guard it halts at once.
EngineFails ==
  /\ \/ Raise("trader", "adding", "observe") /\ refused' = refused \cup {at["trader"]}
     \/ Raise("trader", "selling", "observe") /\ UNCHANGED refused
     \/ Raise("trader", "settling", "stopped") /\ UNCHANGED refused
  /\ UNCHANGED <<loops, unfinished>>

Observe ==
  /\ pc["trader"] \in {"capture", "observe"}
  /\ BeginLoaded("trader", Call("observe", NoId, "NONE"),
           IF TraderAt("capture") THEN "capturing" ELSE "observing")
  /\ UNCHANGED <<file, loops, exchange, unfinished, ghosts, runs>>

ObserverSaves ==
  /\ \/ Save("trader", "capturing", "observe")
     \/ Save("trader", "observing", "sweep")
  /\ UNCHANGED <<loops, unfinished>>

IsTerminal(position) ==
  CASE position.status = "CLOSED" -> position.rec \in {"RECONCILED", "PARTIAL"}
    [] position.status = "ORPHANED" -> position.rec = "EXCHANGE_HISTORY_LOST"
    [] OTHER -> position.rec = "ENTRY_RECONCILED"

\* reconcile_all works on the rows it loads here, whatever happens to the
\* file during its retries.
SweepStarts ==
  /\ TraderAt("sweep")
  /\ LET due == {id \in Ids : Tracked(file, id) /\ ~IsTerminal(file[id])}
     IN /\ left' = [left EXCEPT !["trader"] = due]
        /\ exits' = [id \in Ids |-> IF id \in due /\ file[id].status = "CLOSED"
                                    THEN file[id].exit ELSE "NONE"]
  /\ TraderGoes("sweeping") /\ UNCHANGED <<rows, tries>>

SweepVisits(id) ==
  /\ TraderAt("sweeping") /\ id \in left["trader"]
  /\ left' = [left EXCEPT !["trader"] = @ \ {id}]
  /\ tries' = 0
  /\ BeginLoaded("trader", Call("attempt", id, "NONE"), "attempting")
  /\ UNCHANGED <<file, rows, exits, exchange, unfinished, ghosts, runs>>

AttemptSaved == Save("trader", "attempting", "fetching") /\ UNCHANGED <<loops, unfinished>>

FetchSucceeds(feesComplete) ==
  LET id == at["trader"]
  IN /\ TraderAt("fetching") /\ id \notin lost
     /\ Begin("trader", [Call("reconcile", id, exits[id]) EXCEPT !.fees = feesComplete],
              "reconciling")
     /\ UNCHANGED <<file, copy, loops, exchange, unfinished, ghosts, runs>>

FetchFails ==
  /\ pc["trader"] \in {"fetching", "failed"}
  /\ BeginLoaded("trader", Call("error", at["trader"], "NONE"), "erroring")
  /\ UNCHANGED <<file, loops, exchange, unfinished, ghosts, runs>>

FillsSaved == Save("trader", "reconciling", "sweeping") /\ UNCHANGED <<loops, unfinished>>

FillsRefused ==
  /\ Raise("trader", "reconciling", "failed")
  /\ UNCHANGED <<refused, loops, unfinished>>

ErrorSaved ==
  /\ Save("trader", "erroring", IF tries + 1 < Attempts THEN "retrying" ELSE "sweeping")
  /\ tries' = tries + 1
  /\ UNCHANGED <<rows, exits, left, unfinished>>

Retry ==
  /\ TraderAt("retrying")
  /\ BeginLoaded("trader", Call("attempt", at["trader"], "NONE"), "attempting")
  /\ UNCHANGED <<file, loops, exchange, unfinished, ghosts, runs>>

\* A row that vanished raises outside the try block of the reconciler, or
\* in its handler: the process ends.
SweepDies ==
  /\ Raise("trader", "attempting", "down") \/ Raise("trader", "erroring", "down")
  /\ UNCHANGED <<refused, loops, unfinished>>

SweepEnds ==
  /\ TraderAt("sweeping") /\ left["trader"] = {}
  /\ exits' = [id \in Ids |-> "NONE"]
  /\ tries' = 0
  /\ TraderGoes("engine") /\ UNCHANGED <<rows, left>>

\* A process ends; what it had in memory is gone.
Forget(p, label) ==
  /\ copy' = [copy EXCEPT ![p] = NoRows]
  /\ call' = [call EXCEPT ![p] = NoCall]
  /\ left' = [left EXCEPT ![p] = {}]
  /\ at' = [at EXCEPT ![p] = NoId]
  /\ pc' = [pc EXCEPT ![p] = label]
  /\ rows' = IF p = "script" THEN NoRows ELSE rows
  /\ exits' = IF p = "trader" THEN [id \in Ids |-> "NONE"] ELSE exits
  /\ tries' = IF p = "trader" THEN 0 ELSE tries

Crash(p) ==
  /\ pc[p] \notin {"stopped", "down", "idle", "off"}
  /\ runs.crash < MaxCrashes
  /\ runs' = [runs EXCEPT !.crash = @ + 1]
  /\ Forget(p, IF p = "trader" THEN "down" ELSE "idle")
  /\ UNCHANGED <<file, exchange, unfinished, ghosts>>

Restart ==
  /\ TraderAt("down") /\ Forget("trader", "engine")
  /\ UNCHANGED <<file, exchange, unfinished, ghosts, runs>>

TraderStep ==
  \/ EngineIdle \/ EngineHalts \/ EngineSaves \/ EngineFails
  \/ \E id \in Ids : \/ EngineBuy(id) \/ EngineSell(id) \/ EngineSettle(id)
                     \/ EngineProtect(id) \/ SweepVisits(id)
  \/ Observe \/ ObserverSaves
  \/ SweepStarts \/ AttemptSaved \/ FetchFails
  \/ \E fees \in BOOLEAN : FetchSucceeds(fees)
  \/ FillsSaved \/ FillsRefused \/ ErrorSaved \/ Retry \/ SweepDies \/ SweepEnds
  \/ Restart \/ Load("trader")

-----------------------------------------------------------------------------
(* The manual scripts, one run at a time.                                  *)

ScriptAt(label) == pc["script"] = label

\* A run starts by loading the rows and finding the position.
ScriptLoads(id, label) ==
  /\ ScriptAt("idle") /\ runs.script < MaxScripts
  /\ Tracked(file, id)
  /\ label = "protecting" => file[id].status = "OPEN" /\ id \notin Triple
  /\ runs' = [runs EXCEPT !.script = @ + 1]
  /\ rows' = IF label \in {"apply", "protecting"} THEN NoRows ELSE file
  /\ at' = [at EXCEPT !["script"] = id]
  /\ pc' = [pc EXCEPT !["script"] = label]
  /\ UNCHANGED <<file, copy, call, exits, left, tries, exchange, unfinished, ghosts>>

\* The order script buys and only then asks the store; an exception of the
\* store is reported next to the order and otherwise swallowed.
ManualBuy(id) ==
  /\ ScriptAt("idle") /\ runs.script < MaxScripts
  /\ id \in Manual \ bought
  /\ runs' = [runs EXCEPT !.script = @ + 1]
  /\ bought' = bought \cup {id}
  /\ Begin("script", Call("add", id, "NONE"), "adding")
  /\ UNCHANGED <<file, copy, loops, sold, protected, filled, lost, unfinished, ghosts>>

ManualRefused ==
  /\ Raise("script", "adding", "idle")
  /\ refused' = refused \cup {at["script"]}
  /\ UNCHANGED <<loops, unfinished>>

\* The protection script attaches an order list to a position that was open
\* when it looked; it asks the exchange only for lists that are active.
ManualProtect ==
  /\ ScriptAt("protecting")
  /\ protected' = protected \cup {at["script"]}
  /\ Forget("script", "idle")
  /\ UNCHANGED <<file, bought, sold, filled, lost, unfinished, ghosts, runs>>

\* The orphan audit: the row it loaded and what the exchange answers now.
AuditEligible(row, id) ==
  /\ MayQuarantine(row) /\ FixedLevels(id)
  /\ id \in lost /\ id \notin protected /\ filled[id] = 0

Audited ==
  /\ ScriptAt("auditing")
  /\ IF AuditEligible(rows[at["script"]], at["script"])
     THEN /\ pc' = [pc EXCEPT !["script"] = "eligible"]
          /\ rows' = NoRows
          /\ UNCHANGED <<copy, call, at, exits, left, tries>>
     ELSE Forget("script", "idle")
  /\ UNCHANGED <<file, exchange, unfinished, ghosts, runs>>

\* With the audit of a moment ago in hand, after the backup copy.
Quarantine ==
  /\ ScriptAt("eligible")
  /\ Begin("script", Call("quarantine", at["script"], "NONE"), "quarantining")
  /\ UNCHANGED <<file, copy, loops, exchange, unfinished, ghosts, runs>>

\* The reconcile script: a dry run closes the position like --apply and
\* then puts back the rows it loaded before.
ScriptReconciles(from, label) ==
  LET id == at["script"]
  IN /\ ScriptAt(from)
     /\ IF Unresolved(file, id) /\ ExitFound(id)
        THEN /\ BeginLoaded("script", Call("close", id, "PROTECTIVE"), label)
             /\ UNCHANGED loops
        ELSE Forget("script", "idle")
     /\ UNCHANGED <<file, exchange, unfinished, ghosts, runs>>

DryRunRestores ==
  /\ ScriptAt("restoring")
  /\ file' = rows
  /\ clobbered' = clobbered
       \cup Undone(MarkClosed(rows, at["script"], "PROTECTIVE"))
  /\ Forget("script", "idle")
  /\ UNCHANGED <<exchange, unfinished, told, refused, runs>>

ScriptSaves ==
  /\ \/ Save("script", "adding", "idle")
     \/ Save("script", "quarantining", "idle")
     \/ Save("script", "applying", "idle")
     \/ Save("script", "closing", "restoring")
  /\ UNCHANGED <<loops, unfinished>>

ScriptFails ==
  /\ \/ Raise("script", "quarantining", "idle")
     \/ Raise("script", "applying", "idle")
  /\ UNCHANGED <<refused, loops, unfinished>>

ScriptStep ==
  \/ \E id \in Ids : \/ ManualBuy(id)
                     \/ \E label \in {"protecting", "auditing", "apply", "dry"} :
                          ScriptLoads(id, label)
  \/ ManualProtect \/ ManualRefused \/ Audited \/ Quarantine
  \/ ScriptReconciles("apply", "applying") \/ ScriptReconciles("dry", "closing")
  \/ DryRunRestores \/ ScriptSaves \/ ScriptFails \/ Load("script")

-----------------------------------------------------------------------------
(* The TP/SL monitor.  Its container restarts it when it raises.           *)

MonitorAt(label) == pc["monitor"] = label

TripleOpen == \E id \in Triple : file[id].status = "OPEN"

\* The list is scanned in its order: the legacy positions, older than any
\* triple EMA one, then float(None) for an open triple EMA position.
MonitorLoads ==
  /\ MonitorAt("idle")
  /\ left' = [left EXCEPT !["monitor"] = {id \in Legacy : file[id].status = "OPEN"}]
  /\ pc' = [pc EXCEPT !["monitor"] = IF TripleOpen THEN "doomed" ELSE "scanning"]
  /\ UNCHANGED <<file, copy, call, at, rows, exits, tries, exchange, unfinished, ghosts, runs>>

Scanning == pc["monitor"] \in {"scanning", "doomed"}

MonitorHit(id, event) ==
  /\ Scanning /\ id \in left["monitor"] /\ runs.hit < MaxHits
  /\ runs' = [runs EXCEPT !.hit = @ + 1]
  /\ left' = [left EXCEPT !["monitor"] = @ \ {id}]
  /\ BeginLoaded("monitor", Call("trigger", id, event),
                 IF MonitorAt("doomed") THEN "triggering_doomed" ELSE "triggering")
  /\ UNCHANGED <<file, rows, exits, tries, exchange, unfinished, ghosts>>

MonitorNoHit(id) ==
  /\ Scanning /\ id \in left["monitor"]
  /\ left' = [left EXCEPT !["monitor"] = @ \ {id}]
  /\ UNCHANGED <<file, copy, call, pc, at, rows, exits, tries, exchange, unfinished, ghosts, runs>>

\* The open triple EMA position ends the process before the notifications.
MonitorRaises ==
  /\ MonitorAt("doomed") /\ left["monitor"] = {}
  /\ Forget("monitor", "idle")
  /\ UNCHANGED <<file, exchange, unfinished, ghosts, runs>>

MonitorScanned ==
  /\ MonitorAt("scanning") /\ left["monitor"] = {}
  /\ left' = [left EXCEPT !["monitor"] =
                {id \in PendingNotifications(file) : ~FixedLevels(id)}]
  /\ pc' = [pc EXCEPT !["monitor"] = "notifying"]
  /\ UNCHANGED <<file, copy, call, at, rows, exits, tries, exchange, unfinished, ghosts, runs>>

\* LINE takes the message; only then the row is marked.
MonitorTells(id) ==
  /\ MonitorAt("notifying") /\ id \in left["monitor"]
  /\ left' = [left EXCEPT !["monitor"] = @ \ {id}]
  /\ told' = told \cup {id}
  /\ BeginLoaded("monitor", Call("sent", id, "NONE"), "marking")
  /\ UNCHANGED <<file, rows, exits, tries, exchange, unfinished, refused, clobbered, runs>>

\* The snapshot or LINE raises: the process ends.
MonitorFails ==
  /\ MonitorAt("notifying") /\ left["monitor"] # {}
  /\ Forget("monitor", "idle")
  /\ UNCHANGED <<file, exchange, unfinished, ghosts, runs>>

MonitorSaves ==
  /\ \/ Save("monitor", "triggering", "scanning")
     \/ Save("monitor", "triggering_doomed", "doomed")
     \/ Save("monitor", "marking", "notifying")
  /\ UNCHANGED <<loops, unfinished>>

MonitorEnds ==
  /\ MonitorAt("notifying") /\ left["monitor"] = {}
  /\ Forget("monitor", "idle")
  /\ UNCHANGED <<file, exchange, unfinished, ghosts, runs>>

MonitorStep ==
  \/ MonitorLoads \/ MonitorRaises \/ MonitorScanned \/ MonitorSaves
  \/ MonitorFails \/ MonitorEnds
  \/ \E id \in Ids : MonitorTells(id) \/ MonitorNoHit(id)
  \/ \E id \in Ids, event \in Hits : MonitorHit(id, event)

-----------------------------------------------------------------------------
Next ==
  \/ TraderStep \/ ScriptStep \/ MonitorStep \/ Reset
  \/ \E id \in Ids : FillProtective(id)
  \/ \E p \in Procs : Crash(p)

Spec == Init /\ [][Next]_vars

-----------------------------------------------------------------------------
\* What a row says of an exit, of the PnL or of a lost history is so, and a
\* row counts as reconciled only with its exit and its PnL, in every
\* interleaving: a lost update brings back an older row, and a method
\* looks at the row it loads itself, so that no row is ever made up.  The
\* quarantine acts on an audit made before, and still never hides an exit.
BooksMatchExchange ==
  \A id \in Ids :
    /\ file[id].exit # "NONE" => file[id].exit = sold[id]
    /\ file[id].status = "CLOSED" \/ file[id].pnl => file[id].exit # "NONE"
    /\ file[id].rec \in {"RECONCILED", "PARTIAL"} => file[id].pnl
    /\ file[id].status = "ORPHANED" => id \in lost /\ file[id].exit = "NONE"

\* Coins bought are in the file, unless their BUY is being recorded, was
\* refused by the store, was lost with its process, or another process put
\* back a list loaded before it; the trading process then has an unfinished
\* attempt in its journal, unless the row was undone.
BoughtIsTracked ==
  \A id \in bought :
    \/ Tracked(file, id) \/ id \in clobbered
    \/ id \in Baseline \cup Triple /\ unfinished
    \/ id \in Manual /\ (id \in refused \/ runs.crash > 0 \/ call["script"].id = id)

\* Once closed, a position stays closed: only the save of a stale list, the
\* end of a dry run and the monitor's mark on a legacy position reopen it.
ClosedIsFinal ==
  [][\A id \in Ids :
       file[id].status = "CLOSED" =>
         \/ file'[id].status = "CLOSED"
         \/ id \in clobbered'
         \/ ScriptAt("restoring") /\ id = at["script"]
         \/ pc["monitor"] \in {"triggering", "triggering_doomed"} /\ id \in Legacy]_vars

\* A row marked as notified was told to LINE first, whatever dies between.
ToldBeforeMarked ==
  \A id \in Ids :
    file[id].status \in {"TP_HIT", "SL_HIT"} /\ file[id].notified => id \in told
=============================================================================
