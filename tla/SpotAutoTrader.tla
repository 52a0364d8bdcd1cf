---------------------------- MODULE SpotAutoTrader ----------------------------
(***************************************************************************)
(* The Spot Testnet automation: one process (run_binance_testnet_auto.py)  *)
(* that calls run_once on each trader in turn (app/auto_trading/engine.py),*)
(* the guard that keeps an exchange-side OCO behind each position of a     *)
(* guarded trader, and the exchange.  A step is what happens between two   *)
(* points where the process can die or the exchange can move: one write of *)
(* a file or one call to the exchange, with the computation around it.     *)
(*                                                                         *)
(* Durable state: one AutoTradeStateStore record per trader and the        *)
(* PositionStore they share.  Lost in a crash: pc, turn, candle, hold and  *)
(* job.  The supervisor restarts the process whenever it is down.          *)
(*                                                                         *)
(* Abstracted: prices (a comparison with a level may go either way), sizes,*)
(* the signal (any action the strategy may emit), LINE messages (a failed  *)
(* one is swallowed) and, at the end of a round, the trade-path and fill   *)
(* observations, which write only fields of a position nothing here reads. *)
(***************************************************************************)
EXTENDS Naturals, FiniteSets, AutoTradeStateStore, PositionStore

CONSTANTS
  NTraders,  \* traders of the process, in the order the loop calls them
  Fixed,     \* traders whose exit_mode is fixed_tp_sl
  Guarded,   \* traders with a protection guard
  MaxOrders, \* bound: BUY orders the exchange executes
  MaxCandle, \* bound: closed candles
  MaxFaults  \* bound: crashes, failed writes and failed reads together

Traders  == 1 .. NTraders
OrderIds == 1 .. MaxOrders
Candles  == 1 .. MaxCandle

ASSUME ConstantsAssumption ==
  /\ NTraders \in Nat \ {0}
  /\ MaxOrders \in Nat /\ MaxCandle \in Nat \ {0} /\ MaxFaults \in Nat
  /\ Fixed \subseteq Traders
  /\ Guarded \subseteq Fixed

VARIABLES
  state,     \* state[t]: the state file of trader t
  positions, \* the tracked-position file
  orders,    \* orders[id]: what the exchange knows of BUY order id
  nextId,    \* the id the exchange gives to the next executed BUY
  clock,     \* the latest closed candle
  faults,    \* faults so far
  pc,        \* the step the process is at, "down" when it is not running
  turn,      \* the trader whose run_once is executing
  candle,    \* candle_ms of this run_once, 0 before the fetch
  hold,      \* entry order id of the position at hand, 0 for None
  job        \* the order under way: "BUY", "SELL" or "NONE"

durable  == <<state, positions>>
exchange == <<orders, nextId>>
local    == <<turn, candle, hold, job>>
vars     == <<durable, exchange, clock, faults, pc, local>>

(***************************************************************************)
(* The exchange.  sells counts the executed orders that sold the quantity  *)
(* of this BUY; oco is the protective order list opened for it.            *)
(***************************************************************************)
OcoStates == {"NONE", "ACTIVE", "FILLED", "CANCELED"}

Unused == [owner |-> 0, candle |-> 0, sells |-> 0, oco |-> "NONE"]

Bought(t, ms) == [Unused EXCEPT !.owner = t, !.candle = ms]

Sold(order) == [order EXCEPT !.sells = @ + 1]

WithOco(order, oco) == [order EXCEPT !.oco = oco]

Owned(t) == {id \in OrderIds : orders[id].owner = t}

\* A BUY of t whose quantity nothing has sold yet.
Exposed(t) == {id \in Owned(t) : orders[id].sells = 0}

\* The verdicts of BinanceSpotProtectionReconciler.reconcile that its callers
\* tell apart; in any other case it raises or returns PROTECTION_INCOMPLETE,
\* which stops them in the same way.  EXCHANGE_EXIT_ALREADY_RECORDED needs
\* another writer of the file: the callers ask only about an open position.
ExitToRecord(id) == orders[id].oco = "FILLED" /\ Unresolved(positions, id)

IsProtected(id) == orders[id].oco = "ACTIVE" /\ positions[id].status = "OPEN"

IsUnprotected(id) == orders[id].oco = "NONE"

\* The store reconcile leaves behind: a filled exit is recorded.
Reconciled(id) ==
  IF ExitToRecord(id) THEN MarkClosed(positions, id, "PROTECTIVE") ELSE positions

SafeToSoftwareExit(id) == IsUnprotected(id) /\ positions[id].status = "OPEN"

Init ==
  /\ state = [t \in Traders |-> Default]
  /\ positions = [id \in OrderIds |-> NoPosition]
  /\ orders = [id \in OrderIds |-> Unused]
  /\ nextId = 1
  /\ clock = 1
  /\ faults = 0
  /\ pc = "down"
  /\ turn = 1
  /\ candle = 0
  /\ hold = 0
  /\ job = "NONE"

(***************************************************************************)
(* Control of the process.                                                 *)
(***************************************************************************)
Goto(next) == pc' = next /\ UNCHANGED local

Forget == candle' = 0 /\ hold' = 0 /\ job' = "NONE"

\* The process ends: a crash, or SystemExit after AutoTradingHalted.
Die == pc' = "down" /\ turn' = 1 /\ Forget

\* Mutant: the loop runs past its last trader.
EndTurnPastLast == Forget /\ turn' = turn + 1 /\ pc' = "check"

\* run_once returns, or raises an error the loop reports and survives.
EndTurn ==
  /\ Forget
  /\ IF turn < NTraders
     THEN turn' = turn + 1 /\ pc' = "check"
     ELSE turn' = 1 /\ pc' = "sweep"

Fault == faults < MaxFaults /\ faults' = faults + 1

Write(newState) == state' = [state EXCEPT ![turn] = newState]

\* What run_once does with a position once its protection is settled.
AfterProtection ==
  IF job = "BUY" THEN "snapshot" ELSE "price"

\* Where a failed guard leads: on entry the attempt is finalized first.
GuardFailed == Goto(IF job = "BUY" THEN "unwind" ELSE "halt")

Start ==
  /\ pc = "down"
  /\ pc' = "check" /\ turn' = 1
  /\ Forget
  /\ UNCHANGED <<durable, exchange, clock, faults>>

\* The observations at the end of a round, then the next round.
Sweep ==
  /\ pc = "sweep"
  /\ Goto("check")
  /\ UNCHANGED <<durable, exchange, clock, faults>>

Check ==
  /\ pc = "check"
  /\ Write(AssertReady(state[turn]))
  /\ IF Ready(state[turn]) THEN Goto("fetch") ELSE Die
  /\ UNCHANGED <<positions, exchange, clock, faults>>

\* Mutant: the guard is called after an entry only, not on a later round.
FetchUnguarded ==
  /\ pc = "fetch"
  /\ candle' = clock
  /\ LET open == UnresolvedPositions(positions, turn)
     IN  \/ open = {} /\ hold' = 0 /\ pc' = "decide"
         \/ Cardinality(open) > 1 /\ hold' = 0 /\ pc' = "halt"
         \/ /\ Cardinality(open) = 1
            /\ hold' \in open
            /\ pc' = IF turn \in Fixed THEN "price" ELSE "decide"
  /\ UNCHANGED <<durable, exchange, clock, faults, turn, job>>

\* fetch_closed_candles, then _active_position and the protection guard.
Fetch ==
  /\ pc = "fetch"
  /\ candle' = clock
  /\ LET open == UnresolvedPositions(positions, turn)
     IN  \/ open = {} /\ hold' = 0 /\ pc' = "decide"
         \/ Cardinality(open) > 1 /\ hold' = 0 /\ pc' = "halt"
         \/ /\ Cardinality(open) = 1
            /\ hold' \in open
            /\ pc' = IF turn \in Guarded THEN "protect"
                     ELSE IF turn \in Fixed THEN "price" ELSE "decide"
  /\ UNCHANGED <<durable, exchange, clock, faults, turn, job>>

\* A read of the exchange fails outside every guard: the loop goes on.
ReadFails ==
  /\ pc \in {"fetch", "price", "decide", "snapshot"}
  /\ Fault
  /\ EndTurn
  /\ UNCHANGED <<durable, exchange, clock>>

(***************************************************************************)
(* The guard: ensure_protected, in run_once and again after a BUY.         *)
(***************************************************************************)
Protect ==
  /\ pc = "protect"
  /\ \/ positions[hold].status # "OPEN" /\ GuardFailed /\ UNCHANGED positions
     \/ /\ positions[hold].status = "OPEN"
        /\ positions' = Reconciled(hold)
        /\ \/ ExitToRecord(hold) /\ Goto(IF job = "BUY" THEN "snapshot" ELSE "mark")
           \/ IsProtected(hold) /\ Goto(AfterProtection)
           \/ IsUnprotected(hold) /\ Goto("place")
           \/ /\ ~(ExitToRecord(hold) \/ IsProtected(hold) \/ IsUnprotected(hold))
              /\ GuardFailed
  /\ UNCHANGED <<state, exchange, clock, faults>>

\* place_oco succeeds, or the list opens and its acknowledgement is lost.
PlaceOco ==
  /\ pc = "place"
  /\ orders[hold].oco # "ACTIVE"
  /\ orders' = [orders EXCEPT ![hold] = WithOco(@, "ACTIVE")]
  /\ Goto(AfterProtection) \/ GuardFailed
  /\ UNCHANGED <<durable, nextId, clock, faults>>

\* Mutant: an error of the guard is reported and run_once goes on.
GuardRaisesIgnored ==
  /\ \/ pc \in {"protect", "place"} /\ Goto(AfterProtection)
     \/ pc = "exit" /\ turn \in Guarded /\ GuardFailed
  /\ UNCHANGED <<durable, exchange, clock, faults>>

\* A call of the guard fails, or place_oco refuses: protective orders are
\* open already, or the price has left (stop-loss, take-profit).
GuardRaises ==
  /\ \/ pc \in {"protect", "place"}
     \/ pc = "exit" /\ turn \in Guarded
  /\ GuardFailed
  /\ UNCHANGED <<durable, exchange, clock, faults>>

\* finalize_order_attempt before the halt of a failed entry guard.
Unwind ==
  /\ pc = "unwind"
  /\ Write(FinalizeOrderAttempt(state[turn]))
  /\ Goto("halt")
  /\ UNCHANGED <<positions, exchange, clock, faults>>

HaltTrader ==
  /\ pc = "halt"
  /\ Write(Halt(state[turn]))
  /\ Die
  /\ UNCHANGED <<positions, exchange, clock, faults>>

(***************************************************************************)
(* Decisions of run_once.                                                  *)
(***************************************************************************)
\* The live price against take_profit and stop_loss.
LivePrice ==
  /\ pc = "price"
  /\ Goto("decide") \/ Goto("exit")
  /\ UNCHANGED <<durable, exchange, clock, faults>>

\* The candle was handled before: WAIT_NEXT_CANDLE.
WaitNextCandle ==
  /\ pc = "decide"
  /\ state[turn].last = candle
  /\ EndTurn
  /\ UNCHANGED <<durable, exchange, clock, faults>>

\* analyze with a position at hand: keep it or leave it.  A dynamic stop is
\* moved first, which raises unless the position is OPEN.
DecideHeld ==
  /\ pc = "decide" /\ hold # 0
  /\ state[turn].last # candle
  /\ IF turn \notin Fixed /\ positions[hold].status # "OPEN"
     THEN EndTurn
     ELSE Goto("mark") \/ Goto("exit")
  /\ UNCHANGED <<durable, exchange, clock, faults>>

\* Mutant: an entry signal is followed whether a position is held or not.
DecideFlatPyramids ==
  /\ pc = "decide"
  /\ state[turn].last # candle
  /\ \/ Goto("mark")
     \/ /\ nextId \in OrderIds
        /\ pc' = "begin" /\ job' = "BUY"
        /\ UNCHANGED <<turn, candle, hold>>
  /\ UNCHANGED <<durable, exchange, clock, faults>>

\* analyze without a position; for a BUY the account snapshot, the risk
\* engine and the size checks decide whether the entry goes ahead.
DecideFlat ==
  /\ pc = "decide" /\ hold = 0
  /\ state[turn].last # candle
  /\ \/ Goto("mark")
     \/ /\ nextId \in OrderIds
        /\ pc' = "begin" /\ job' = "BUY"
        /\ UNCHANGED <<turn, candle, hold>>
  /\ UNCHANGED <<durable, exchange, clock, faults>>

\* Mutant: the software SELL does not look at the protective orders.
ExitPositionUnchecked ==
  /\ pc = "exit"
  /\ pc' = "begin" /\ job' = "SELL"
  /\ UNCHANGED <<durable, exchange, clock, faults, turn, candle, hold>>

\* _exit_position: assert_software_exit_safe for a guarded trader.
ExitPosition ==
  /\ pc = "exit"
  /\ IF turn \in Guarded
     THEN /\ positions' = Reconciled(hold)
          /\ IF SafeToSoftwareExit(hold)
             THEN pc' = "begin" /\ job' = "SELL"
             ELSE pc' = "halt" /\ UNCHANGED job
     ELSE pc' = "begin" /\ job' = "SELL" /\ UNCHANGED positions
  /\ UNCHANGED <<state, exchange, clock, faults, turn, candle, hold>>

MarkCandle ==
  /\ pc = "mark"
  /\ Write(MarkCandleProcessed(state[turn], candle))
  /\ EndTurn
  /\ UNCHANGED <<positions, exchange, clock, faults>>

(***************************************************************************)
(* The order attempt: journal, submit, journal the outcome, record it.     *)
(***************************************************************************)
\* Mutant: the attempt is checked but not journaled before the submission.
BeginUnjournaled ==
  /\ pc = "begin"
  /\ Write(AssertReady(state[turn]))
  /\ IF Ready(state[turn]) THEN Goto("submit") ELSE Die
  /\ UNCHANGED <<positions, exchange, clock, faults>>

Begin ==
  /\ pc = "begin"
  /\ Write(BeginOrderAttempt(state[turn]))
  /\ IF Ready(state[turn]) THEN Goto("submit") ELSE Die
  /\ UNCHANGED <<positions, exchange, clock, faults>>

\* The BUY executes; its acknowledgement arrives complete or not.
SubmitBuy ==
  /\ pc = "submit" /\ job = "BUY"
  /\ nextId \in OrderIds
  /\ orders' = [orders EXCEPT ![nextId] = Bought(turn, candle)]
  /\ nextId' = nextId + 1
  /\ hold' = nextId
  /\ pc' \in {"confirm", "uncertain"}
  /\ UNCHANGED <<durable, clock, faults, turn, candle, job>>

SubmitSell ==
  /\ pc = "submit" /\ job = "SELL"
  /\ orders' = [orders EXCEPT ![hold] = Sold(@)]
  /\ Goto("confirm") \/ Goto("uncertain")
  /\ UNCHANGED <<durable, nextId, clock, faults>>

\* Mutant: an order that did not execute passes for a confirmed SELL.
SubmitFailsIgnored ==
  /\ pc = "submit"
  /\ Goto(IF job = "SELL" THEN "confirm" ELSE "uncertain")
  /\ UNCHANGED <<durable, exchange, clock, faults>>

\* A check before the POST raises, or the exchange rejects the order.
SubmitFails ==
  /\ pc = "submit"
  /\ Goto("uncertain")
  /\ UNCHANGED <<durable, exchange, clock, faults>>

\* Mutant: the attempt is finalized before the position is recorded.
ConfirmFinalizes ==
  /\ pc = "confirm"
  /\ Write(FinalizeOrderAttempt(state[turn]))
  /\ Goto("record")
  /\ UNCHANGED <<positions, exchange, clock, faults>>

Confirm ==
  /\ pc = "confirm"
  /\ Write(MarkOrderAcknowledged(state[turn]))
  /\ Goto("record")
  /\ UNCHANGED <<positions, exchange, clock, faults>>

\* Mutant: an ambiguous outcome closes the attempt and the loop goes on.
UncertainForgotten ==
  /\ pc = "uncertain"
  /\ Write(FinalizeOrderAttempt(state[turn]))
  /\ EndTurn
  /\ UNCHANGED <<positions, exchange, clock, faults>>

Uncertain ==
  /\ pc = "uncertain"
  /\ Write(MarkOrderUncertain(state[turn]))
  /\ Die
  /\ UNCHANGED <<positions, exchange, clock, faults>>

\* add_long_position, refused when the strategy has an unresolved position.
RecordEntry ==
  /\ pc = "record" /\ job = "BUY"
  /\ positions' = AddPosition(positions, hold, turn)
  /\ IF AddRefused(positions, hold, turn) THEN EndTurn
     ELSE Goto(IF turn \in Guarded THEN "protect" ELSE "snapshot")
  /\ UNCHANGED <<state, exchange, clock, faults>>

RecordExit ==
  /\ pc = "record" /\ job = "SELL"
  /\ positions' = MarkClosed(positions, hold, "SOFTWARE")
  /\ Goto("snapshot")
  /\ UNCHANGED <<state, exchange, clock, faults>>

\* account_snapshot and the LINE message.
Snapshot ==
  /\ pc = "snapshot"
  /\ Goto("finalize")
  /\ UNCHANGED <<durable, exchange, clock, faults>>

Finalize ==
  /\ pc = "finalize"
  /\ Write(FinalizeOrderAttempt(state[turn]))
  /\ Goto("mark")
  /\ UNCHANGED <<positions, exchange, clock, faults>>

(***************************************************************************)
(* Faults and the rest of the world.                                       *)
(***************************************************************************)
\* Writing a store fails: the file keeps its old contents, the exception
\* leaves run_once and the loop goes on.
WriteFails ==
  /\ pc \in {"check", "begin", "confirm", "uncertain", "record", "finalize",
             "mark", "unwind", "halt"}
  /\ pc = "check" => Unfinished(state[turn]) /\ ~state[turn].halted
  /\ Fault
  /\ EndTurn
  /\ UNCHANGED <<durable, exchange, clock>>

Crash ==
  /\ pc # "down"
  /\ Fault
  /\ Die
  /\ UNCHANGED <<durable, exchange, clock>>

CandleCloses ==
  /\ clock < MaxCandle
  /\ clock' = clock + 1
  /\ UNCHANGED <<durable, exchange, faults, pc, local>>

\* One leg of an open order list fills and the other expires.
OcoFills(id) ==
  /\ orders[id].oco = "ACTIVE"
  /\ orders' = [orders EXCEPT ![id] = WithOco(Sold(@), "FILLED")]
  /\ UNCHANGED <<durable, nextId, clock, faults, pc, local>>

\* Someone cancels the list at the exchange.
OcoCanceled(id) ==
  /\ orders[id].oco = "ACTIVE"
  /\ orders' = [orders EXCEPT ![id] = WithOco(@, "CANCELED")]
  /\ UNCHANGED <<durable, nextId, clock, faults, pc, local>>

Process ==
  \/ Start \/ Sweep \/ Check \/ Fetch
  \/ Protect \/ PlaceOco \/ GuardRaises \/ Unwind \/ HaltTrader
  \/ LivePrice \/ WaitNextCandle \/ DecideHeld \/ DecideFlat
  \/ ExitPosition \/ MarkCandle
  \/ Begin \/ SubmitBuy \/ SubmitSell \/ SubmitFails \/ Confirm \/ Uncertain
  \/ RecordEntry \/ RecordExit \/ Snapshot \/ Finalize

Environment ==
  \/ ReadFails \/ WriteFails \/ Crash \/ CandleCloses
  \/ \E id \in OrderIds : OcoFills(id) \/ OcoCanceled(id)

Next == Process \/ Environment

Spec == Init /\ [][Next]_vars

\* The supervisor restarts the process and the process keeps running.
Fairness == WF_vars(Process)

FairSpec == Spec /\ Fairness
-----------------------------------------------------------------------------
(***************************************************************************)
(* What the automation promises.                                           *)
(***************************************************************************)
Steps ==
  {"down", "sweep", "check", "fetch", "protect", "place", "unwind", "halt",
   "price", "decide", "exit", "mark", "begin", "submit", "confirm",
   "uncertain", "record", "snapshot", "finalize"}

OrderRecords ==
  [owner : Traders \cup {0}, candle : Candles \cup {0}, sells : Nat,
   oco : OcoStates]

\* Every variable stays in the set its file, its counter or its local
\* variable of the code ranges over.
TypeOK ==
  /\ state \in [Traders -> States(Candles)]
  /\ positions \in [OrderIds -> Positions(Traders)]
  /\ orders \in [OrderIds -> OrderRecords]
  /\ nextId \in 1 .. MaxOrders + 1
  /\ clock \in Candles
  /\ faults \in 0 .. MaxFaults
  /\ pc \in Steps
  /\ turn \in Traders
  /\ candle \in Candles \cup {0}
  /\ hold \in OrderIds \cup {0}
  /\ job \in {"NONE", "BUY", "SELL"}

\* assert_ready will not let this trader do anything.
Blocked(t) == ~Ready(state[t])

\* Coins an automatic BUY left in the account are either a position the
\* engine will see again, or their trader is blocked until an operator has
\* looked: no crash, lost acknowledgement or failed write loses track of them.
TrackedOrBlocked ==
  \A t \in Traders : \A id \in Exposed(t) :
    Unresolved(positions, id) \/ Blocked(t)

\* The books never claim coins that are gone, nor an exit that did not
\* happen: a sold quantity still tracked is a protective exit waiting to be
\* reconciled or belongs to a blocked trader, and CLOSED means sold.
BooksTellTheTruth ==
  \A t \in Traders : \A id \in Owned(t) :
    /\ (orders[id].sells > 0 /\ Unresolved(positions, id))
         => (orders[id].oco = "FILLED" \/ Blocked(t))
    /\ positions[id].status = "CLOSED" => orders[id].sells > 0

\* The coins of one entry are sold at most once, by the software SELL or by
\* the protective order list, never by both and never by a repeated SELL.
NeverSoldTwice == \A id \in OrderIds : orders[id].sells <= 1

\* A trader never holds two entries on the exchange, tracked or not.
OneExposurePerTrader ==
  \A t \in Traders : Cardinality(Exposed(t)) <= 1

\* No trading decision on a guarded position before an order list exists for
\* it, also when the process died between the BUY and the list.
ProtectedBeforeDecision ==
  (pc \in {"price", "decide"} /\ turn \in Guarded /\ hold # 0)
    => orders[hold].oco # "NONE"

\* In this step an order of the engine on entry id reaches the exchange.
Submitted(id) ==
  \/ orders[id].owner = 0 /\ orders'[id].owner # 0
  \/ /\ orders'[id].sells > orders[id].sells
     /\ orders'[id].oco = orders[id].oco

InJournal(id) ==
  LET t == orders'[id].owner
  IN  state[t].attempt = "SUBMITTING" /\ ~state[t].halted

\* README: "Before an order is submitted, local state is written as
\* SUBMITTING".  Any order of the engine that reaches the exchange finds its
\* attempt already on disk and its trader not halted.
JournaledBeforeSubmit ==
  [][\A id \in OrderIds : Submitted(id) => InJournal(id)]_vars

\* Someone ahead of t in the loop has tripped the breaker, which ends the
\* process before t is called.
CutOff(t) == \E u \in 1 .. t : state[u].halted

\* An order attempt does not stay open: it is finalized, or a restart turns
\* it into a halt that asks for reconciliation.
AttemptResolved ==
  \A t \in Traders :
    Unfinished(state[t]) ~> (state[t].attempt = "FINALIZED" \/ CutOff(t))

\* A guarded position without protection gets an order list, or automation
\* stops; crashing between the BUY and the list does not leave it naked.
ProtectionEstablished ==
  \A t \in Guarded : \A id \in OrderIds :
    (/\ positions[id].status = "OPEN" /\ positions[id].strategy = t
     /\ orders[id].oco = "NONE")
      ~> (orders[id].oco # "NONE" \/ CutOff(t))

(***************************************************************************)
(* The process implements one fail-closed trader per strategy.             *)
(***************************************************************************)
ModeOf(t) ==
  IF state[t].halted THEN "blocked"
  ELSE IF Unfinished(state[t]) THEN "busy" ELSE "ready"

ExposureOf(t) ==
  IF Exposed(t) # {} THEN "held"
  ELSE IF \E id \in Owned(t) : /\ orders[id].oco = "FILLED"
                               /\ Unresolved(positions, id)
       THEN "exited" ELSE "flat"

TrackedOf(t) == UnresolvedPositions(positions, t) # {}

FailClosed ==
  INSTANCE FailClosedTrader
    WITH mode     <- [t \in Traders |-> ModeOf(t)],
         exposure <- [t \in Traders |-> ExposureOf(t)],
         tracked  <- [t \in Traders |-> TrackedOf(t)]

\* Seen from outside, a trader only buys when flat and untracked, only sells
\* a tracked holding, goes back to work only when its books match what it
\* holds, and once blocked changes nothing ever again.
ImplementsFailClosed == FailClosed!Spec

(***************************************************************************)
(* What the README says and the code does not keep.                        *)
(***************************************************************************)
\* README: "The same candle cannot submit the same BUY repeatedly."
OneBuyPerCandle ==
  \A t \in Traders : \A i, j \in Owned(t) :
    orders[i].candle = orders[j].candle => i = j

\* README: "If the process dies or the order result becomes uncertain,
\* automation halts" and "requires manual Binance Testnet reconciliation
\* before automation can resume".  No order of any trader while an attempt
\* of another is unfinished or has tripped its breaker.
AutomationHaltsAsAWhole ==
  [][\A id \in OrderIds :
       Submitted(id) => \A t \in Traders \ {orders'[id].owner} : ~Blocked(t)]_vars
=============================================================================
