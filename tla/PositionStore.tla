---------------------------- MODULE PositionStore ----------------------------
(***************************************************************************)
(* The tracked-position file (app/monitoring/position_store.py): a list of *)
(* records found by entry order id, here a function from order ids to      *)
(* records, NoPosition where the file has none.  A method loads the list,  *)
(* changes one record and replaces the file, so it is an operator from the *)
(* old store to the new one; where the method can raise before it saves,   *)
(* the condition is an operator of its own.  Prices, quantities, fees and  *)
(* time stamps are abstracted: of the exit the model keeps which order     *)
(* closed the position, of the PnL whether it is known.                    *)
(***************************************************************************)
EXTENDS Naturals

NoPosition ==
  [status |-> "ABSENT", strategy |-> 0, exit |-> "NONE", rec |-> "NONE",
   pnl |-> FALSE, notified |-> FALSE]

UnresolvedStatuses == {"OPEN", "TP_HIT", "SL_HIT"}

Statuses == UnresolvedStatuses \cup {"ABSENT", "CLOSED", "ORPHANED"}

ExitKinds == {"NONE", "SOFTWARE", "PROTECTIVE"}

RecStatuses ==
  {"NONE", "PENDING", "ENTRY_RECONCILED", "RECONCILED", "PARTIAL",
   "EXCHANGE_HISTORY_LOST"}

Positions(Strategies) ==
  [status : Statuses, strategy : Strategies \cup {0}, exit : ExitKinds,
   rec : RecStatuses, pnl : BOOLEAN, notified : BOOLEAN]

Tracked(store, id) == store[id].status # "ABSENT"

Unresolved(store, id) == store[id].status \in UnresolvedStatuses

ActivePositions(store, strategy) ==
  {id \in DOMAIN store : /\ store[id].status = "OPEN"
                         /\ store[id].strategy = strategy}

UnresolvedPositions(store, strategy) ==
  {id \in DOMAIN store : Unresolved(store, id) /\ store[id].strategy = strategy}

\* _add_position raises when the strategy has an unresolved position and
\* returns the stored record when the order id is known.
AddRefused(store, id, strategy) ==
  ~Tracked(store, id) /\ UnresolvedPositions(store, strategy) # {}

\* Mutant: resolved rows are pruned when a position is added.
AddPositionPruning(store, id, strategy) ==
  [other \in DOMAIN store |->
     IF other = id
     THEN [NoPosition EXCEPT !.status = "OPEN", !.strategy = strategy,
                             !.rec = "PENDING"]
     ELSE IF store[other].status \in UnresolvedStatuses
          THEN store[other] ELSE NoPosition]

AddPosition(store, id, strategy) ==
  IF Tracked(store, id) \/ AddRefused(store, id, strategy)
  THEN store
  ELSE [store EXCEPT ![id] = [NoPosition EXCEPT !.status = "OPEN",
                                                !.strategy = strategy,
                                                !.rec = "PENDING"]]

\* mark_closed takes any tracked record to CLOSED, whatever its status.
Closed(position, exit) ==
  [position EXCEPT !.status = "CLOSED", !.exit = exit, !.notified = TRUE,
                   !.rec = IF @ = "RECONCILED" THEN @ ELSE "PENDING"]

MarkClosed(store, id, exit) == [store EXCEPT ![id] = Closed(@, exit)]

\* Mutant: the event is stored as it was given, in lower case.
MarkTriggeredAsGiven(store, id, event) ==
  [store EXCEPT ![id].status = "tp_hit", ![id].notified = FALSE]

\* Mutant: the notification flag of an earlier close is not reset.
MarkTriggeredKeepsFlag(store, id, event) == [store EXCEPT ![id].status = event]

\* mark_triggered sets the level hit whatever the status is.
MarkTriggered(store, id, event) ==
  [store EXCEPT ![id].status = event, ![id].notified = FALSE]

MarkNotificationSent(store, id) == [store EXCEPT ![id].notified = TRUE]

PendingNotifications(store) ==
  {id \in DOMAIN store : /\ store[id].status \in {"TP_HIT", "SL_HIT"}
                         /\ ~store[id].notified}

\* Mutant: a closed position may be quarantined as long as its PnL is open.
MayQuarantineClosed(position) ==
  position.status \notin {"ABSENT", "ORPHANED"} /\ ~position.pnl

\* mark_exchange_history_lost looks at the row it has just loaded: only an
\* unresolved position without exit and PnL may be quarantined.
MayQuarantine(position) ==
  /\ position.status \in UnresolvedStatuses
  /\ position.exit = "NONE"
  /\ ~position.pnl

MarkExchangeHistoryLost(store, id) ==
  [store EXCEPT ![id].status = "ORPHANED",
                ![id].rec = "EXCHANGE_HISTORY_LOST",
                ![id].notified = TRUE]

MarkReconciliationError(store, id) ==
  [store EXCEPT ![id].rec =
     IF @ \in {"RECONCILED", "PARTIAL"} THEN @ ELSE "PENDING"]

\* reconcile_fills: exitFills names the exit order whose fills were fetched,
\* NONE without one; the fees are complete when every commission could be
\* valued in the quote asset.
ReconcileRefused(position, exitFills) ==
  /\ position.status = "CLOSED"
  /\ exitFills # "NONE"
  /\ exitFills # position.exit

ReconciledRow(position, exitFills, feesComplete) ==
  IF position.status # "CLOSED"
  THEN [position EXCEPT !.rec = "ENTRY_RECONCILED"]
  ELSE IF exitFills = "NONE"
       THEN [position EXCEPT !.rec = "PENDING"]
       ELSE [position EXCEPT !.pnl = TRUE,
                             !.rec = IF feesComplete THEN "RECONCILED"
                                                     ELSE "PARTIAL"]

ReconcileFills(store, id, exitFills, feesComplete) ==
  [store EXCEPT ![id] = ReconciledRow(@, exitFills, feesComplete)]
=============================================================================
