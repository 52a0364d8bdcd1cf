-------------------------- MODULE FuturesShortTrader --------------------------
(***************************************************************************)
(* The Futures demo automation: one process that calls run_once of one     *)
(* trader (app/auto_trading/futures_short_engine.py), with a state file    *)
(* and a position file of its own, and the exchange.  A step ends at a     *)
(* write of a file or a call to the exchange, as in SpotAutoTrader.        *)
(*                                                                         *)
(* What differs from the spot traders: the exchange nets the orders of the *)
(* account into one short; a close is reduceOnly, so it is rejected when   *)
(* nothing is short; the exchange may liquidate; quantities matter, since  *)
(* an entry is tracked with what it executed and a close asks for that.    *)
(*                                                                         *)
(* Abstracted: prices, the signal, LINE messages, the observations at the  *)
(* end of a round, the moves of the stop (which no decision here reads).   *)
(***************************************************************************)
EXTENDS Naturals, FiniteSets, AutoTradeStateStore, PositionStore

CONSTANTS
  Lot,       \* most units one entry can execute
  Leftovers, \* units an executed market close may leave open
  MaxOrders, \* bound: entries the exchange executes
  MaxCandle, \* bound: closed candles
  MaxFaults  \* bound: crashes, failed writes and failed reads together

OrderIds == 1 .. MaxOrders
Candles  == 1 .. MaxCandle

ASSUME ConstantsAssumption ==
  /\ Lot \in Nat \ {0} /\ MaxOrders \in Nat
  /\ MaxCandle \in Nat \ {0} /\ MaxFaults \in Nat
  /\ 0 \in Leftovers /\ Leftovers \subseteq 0 .. Lot

VARIABLES
  state,      \* the state file
  positions,  \* the tracked-position file
  filled,     \* filled[id]: units entry order id executed, its tracked quantity
  short,      \* units the account is short
  liquidated, \* the last short was closed by the exchange
  nextId,     \* the id the exchange gives to the next executed entry
  clock,      \* the latest closed candle
  faults,     \* faults so far
  pc,         \* the step the process is at, "down" when it is not running
  candle,     \* candle_ms of this run_once, 0 before the fetch
  hold,       \* entry order id of the position at hand, 0 for None
  job         \* the order under way: "SHORT", "BUY_TO_CLOSE" or "NONE"

durable  == <<state, positions>>
exchange == <<filled, short, liquidated, nextId>>
local    == <<candle, hold, job>>
vars     == <<durable, exchange, clock, faults, pc, local>>

\* strategy_id of TripleEMAShortStrategy.
Strategy == 1

Init ==
  /\ state = Default
  /\ positions = [id \in OrderIds |-> NoPosition]
  /\ filled = [id \in OrderIds |-> 0]
  /\ short = 0
  /\ liquidated = FALSE
  /\ nextId = 1
  /\ clock = 1
  /\ faults = 0
  /\ pc = "down"
  /\ candle = 0
  /\ hold = 0
  /\ job = "NONE"

Goto(next) == pc' = next /\ UNCHANGED local

\* run_once is left for step next: a return, an error or the process's end.
Leave(next) == pc' = next /\ candle' = 0 /\ hold' = 0 /\ job' = "NONE"

Fault == faults < MaxFaults /\ faults' = faults + 1

(***************************************************************************)
(* The process and its decisions.                                          *)
(***************************************************************************)
Start ==
  /\ pc = "down"
  /\ Leave("check")
  /\ UNCHANGED <<durable, exchange, clock, faults>>

\* Observations and fill reconciliation, then the next round.
Sweep ==
  /\ pc = "sweep"
  /\ Leave("check")
  /\ UNCHANGED <<durable, exchange, clock, faults>>

Check ==
  /\ pc = "check"
  /\ state' = AssertReady(state)
  /\ IF Ready(state) THEN Goto("fetch") ELSE Leave("down")
  /\ UNCHANGED <<positions, exchange, clock, faults>>

\* fetch_closed_candles and _active_position, which sees OPEN records only
\* and raises AutoTradingHalted without writing it when there are several.
Fetch ==
  /\ pc = "fetch"
  /\ LET open == ActivePositions(positions, Strategy)
     IN  IF Cardinality(open) > 1 THEN Leave("down")
         ELSE /\ candle' = clock
              /\ \/ open = {} /\ hold' = 0 /\ pc' = "decide"
                 \/ hold' \in open /\ pc' = "price"
              /\ UNCHANGED job
  /\ UNCHANGED <<durable, exchange, clock, faults>>

\* Mutant: the close is journaled under the spot engine's name.
ExitMislabelled == pc' = "begin" /\ job' = "SELL" /\ UNCHANGED <<candle, hold>>

Exit == pc' = "begin" /\ job' = "BUY_TO_CLOSE" /\ UNCHANGED <<candle, hold>>

\* The live price against stop_loss and take_profit.
LivePrice ==
  /\ pc = "price"
  /\ Goto("decide") \/ Exit
  /\ UNCHANGED <<durable, exchange, clock, faults>>

WaitNextCandle ==
  /\ pc = "decide"
  /\ state.last = candle
  /\ Leave("sweep")
  /\ UNCHANGED <<durable, exchange, clock, faults>>

\* With a short at hand: hold it, or leave on a close above EMA50.
DecideHeld ==
  /\ pc = "decide" /\ hold # 0
  /\ state.last # candle
  /\ Goto("mark") \/ Exit
  /\ UNCHANGED <<durable, exchange, clock, faults>>

\* Without one: the signal, the risk engine, the minimum notional and the
\* order plan decide whether an entry goes ahead.
DecideFlat ==
  /\ pc = "decide" /\ hold = 0
  /\ state.last # candle
  /\ \/ Goto("mark")
     \/ /\ nextId \in OrderIds
        /\ pc' = "begin" /\ job' = "SHORT"
        /\ UNCHANGED <<candle, hold>>
  /\ UNCHANGED <<durable, exchange, clock, faults>>

MarkCandle ==
  /\ pc = "mark"
  /\ state' = MarkCandleProcessed(state, candle)
  /\ Leave("sweep")
  /\ UNCHANGED <<positions, exchange, clock, faults>>

(***************************************************************************)
(* The order attempt.                                                      *)
(***************************************************************************)
\* Mutant: the attempt is checked but not journaled before the submission.
BeginUnjournaled ==
  /\ pc = "begin"
  /\ state' = AssertReady(state)
  /\ IF Ready(state) THEN Goto("submit") ELSE Leave("down")
  /\ UNCHANGED <<positions, exchange, clock, faults>>

Begin ==
  /\ pc = "begin"
  /\ state' = BeginOrderAttempt(state)
  /\ IF Ready(state) THEN Goto("submit") ELSE Leave("down")
  /\ UNCHANGED <<positions, exchange, clock, faults>>

\* The SELL executes some or all of its quantity; its acknowledgement
\* arrives complete or not.
SubmitShort ==
  /\ pc = "submit" /\ job = "SHORT"
  /\ nextId \in OrderIds
  /\ \E units \in 1 .. Lot :
       /\ filled' = [filled EXCEPT ![nextId] = units]
       /\ short' = short + units
  /\ liquidated' = FALSE
  /\ nextId' = nextId + 1
  /\ hold' = nextId
  /\ pc' \in {"confirm", "uncertain"}
  /\ UNCHANGED <<durable, clock, faults, candle, job>>

\* The reduceOnly BUY executes up to a leftover.  _order_result puts the
\* reference price where avgPrice is missing, so an acknowledgement passes
\* for a complete close whatever it executed.
SubmitClose ==
  /\ pc = "submit" /\ job = "BUY_TO_CLOSE"
  /\ short > 0
  /\ \E left \in Leftovers :
       LET bought == filled[hold] - left
       IN  /\ left <= filled[hold]
           /\ short' = IF bought < short THEN short - bought ELSE 0
  /\ Goto("confirm") \/ Goto("uncertain")
  /\ UNCHANGED <<durable, filled, liquidated, nextId, clock, faults>>

\* Mutant: a rejected order passes for an acknowledged close.
SubmitFailsIgnored ==
  /\ pc = "submit"
  /\ Goto(IF job = "SHORT" THEN "uncertain" ELSE "confirm")
  /\ UNCHANGED <<durable, exchange, clock, faults>>

\* A check before the POST raises, the exchange rejects the order, or the
\* SELL expires without a fill, which the engine does notice.
SubmitFails ==
  /\ pc = "submit"
  /\ Goto("uncertain")
  /\ UNCHANGED <<durable, exchange, clock, faults>>

Confirm ==
  /\ pc = "confirm"
  /\ state' = MarkOrderAcknowledged(state)
  /\ Goto("record")
  /\ UNCHANGED <<positions, exchange, clock, faults>>

\* Mutant: an ambiguous outcome closes the attempt and the loop goes on.
UncertainForgotten ==
  /\ pc = "uncertain"
  /\ state' = FinalizeOrderAttempt(state)
  /\ Leave("sweep")
  /\ UNCHANGED <<positions, exchange, clock, faults>>

Uncertain ==
  /\ pc = "uncertain"
  /\ state' = MarkOrderUncertain(state)
  /\ Leave("down")
  /\ UNCHANGED <<positions, exchange, clock, faults>>

\* add_short_position, or mark_closed.
Record ==
  /\ pc = "record"
  /\ positions' = IF job = "SHORT" THEN AddPosition(positions, hold, Strategy)
                  ELSE MarkClosed(positions, hold, "SOFTWARE")
  /\ IF job = "SHORT" /\ AddRefused(positions, hold, Strategy)
     THEN Leave("sweep") ELSE Goto("snapshot")
  /\ UNCHANGED <<state, exchange, clock, faults>>

\* account_snapshot and the LINE message.
Snapshot ==
  /\ pc = "snapshot"
  /\ Goto("finalize")
  /\ UNCHANGED <<durable, exchange, clock, faults>>

Finalize ==
  /\ pc = "finalize"
  /\ state' = FinalizeOrderAttempt(state)
  /\ Goto("mark")
  /\ UNCHANGED <<positions, exchange, clock, faults>>

(***************************************************************************)
(* Faults and the rest of the world.                                       *)
(***************************************************************************)
ReadFails ==
  /\ pc \in {"fetch", "price", "decide", "snapshot"}
  /\ Fault
  /\ Leave("sweep")
  /\ UNCHANGED <<durable, exchange, clock>>

WriteFails ==
  /\ pc \in {"check", "begin", "confirm", "uncertain", "record", "finalize", "mark"}
  /\ pc = "check" => Unfinished(state) /\ ~state.halted
  /\ Fault
  /\ Leave("sweep")
  /\ UNCHANGED <<durable, exchange, clock>>

Crash ==
  /\ pc # "down"
  /\ Fault
  /\ Leave("down")
  /\ UNCHANGED <<durable, exchange, clock>>

CandleCloses ==
  /\ clock < MaxCandle
  /\ clock' = clock + 1
  /\ UNCHANGED <<durable, exchange, faults, pc, local>>

Liquidation ==
  /\ short > 0
  /\ short' = 0
  /\ liquidated' = TRUE
  /\ UNCHANGED <<durable, filled, nextId, clock, faults, pc, local>>

Process ==
  \/ Start \/ Sweep \/ Check \/ Fetch
  \/ LivePrice \/ WaitNextCandle \/ DecideHeld \/ DecideFlat \/ MarkCandle
  \/ Begin \/ SubmitShort \/ SubmitClose \/ SubmitFails \/ Confirm
  \/ Uncertain \/ Record \/ Snapshot \/ Finalize

Environment == ReadFails \/ WriteFails \/ Crash \/ CandleCloses \/ Liquidation

Next == Process \/ Environment

Spec == Init /\ [][Next]_vars

\* The supervisor restarts the process and the process keeps running.
FairSpec == Spec /\ WF_vars(Process)
-----------------------------------------------------------------------------
(***************************************************************************)
(* What the automation promises.                                           *)
(***************************************************************************)
\* Every variable stays in the set its file, its counter or its local
\* variable of the code ranges over.
TypeOK ==
  /\ state \in States(Candles)
  /\ positions \in [OrderIds -> Positions({Strategy})]
  /\ filled \in [OrderIds -> 0 .. Lot]
  /\ short \in Nat
  /\ liquidated \in BOOLEAN
  /\ nextId \in 1 .. MaxOrders + 1
  /\ clock \in Candles
  /\ faults \in 0 .. MaxFaults
  /\ pc \in {"down", "sweep", "check", "fetch", "price", "decide", "mark", "begin",
             "submit", "confirm", "uncertain", "record", "snapshot", "finalize"}
  /\ candle \in Candles \cup {0}
  /\ hold \in OrderIds \cup {0}
  /\ job \in {"NONE", "SHORT", "BUY_TO_CLOSE"}

\* "Max position: 1 SHORT": the account is never short more than one entry can
\* execute.
OneShort == short <= Lot

\* While the trader may trade, the account is short exactly what the position
\* file says, unless the exchange has liquidated it; and whatever is retried
\* or restarted, no order adds to a short.
BooksMatchExchange ==
  LET open == ActivePositions(positions, Strategy)
  IN  /\ OneShort
      /\ Ready(state) =>
           \/ short = 0 /\ (open = {} \/ liquidated)
           \/ \E id \in open : open = {id} /\ short = filled[id]

\* The exchange moved by an order of this process, not by a liquidation.
Submitted == filled' # filled \/ (short' # short /\ liquidated' = liquidated)

\* README: "Before an order is submitted, local state is written as
\* SUBMITTING"; and nothing is submitted by a trader that has halted.
JournaledBeforeSubmit ==
  [][Submitted => state.attempt = "SUBMITTING" /\ ~state.halted]_vars

\* An attempt does not stay open: it is finalized or becomes a halt.
AttemptResolved ==
  Unfinished(state) ~> (state.attempt = "FINALIZED" \/ state.halted)

\* _close_short: a close whose "acknowledgement is missing fill data" is
\* uncertain.  When every entry is recorded CLOSED, nothing is short.
ClosedMeansBoughtBack ==
  (\A id \in OrderIds : filled[id] > 0 => positions[id].status = "CLOSED")
    => short = 0

(***************************************************************************)
(* The process implements one fail-closed trader.                          *)
(***************************************************************************)
Mode ==
  IF state.halted THEN "blocked"
  ELSE IF Unfinished(state) THEN "busy" ELSE "ready"

OpenRecord == ActivePositions(positions, Strategy) # {}

Exposure ==
  IF short > 0 THEN "held"
  ELSE IF /\ liquidated
          /\ \E id \in OrderIds : filled[id] > 0 /\ positions[id].status # "CLOSED"
       THEN "exited" ELSE "flat"

FailClosed ==
  INSTANCE FailClosedTrader
    WITH Traders  <- {Strategy},
         mode     <- [t \in {Strategy} |-> Mode],
         exposure <- [t \in {Strategy} |-> Exposure],
         tracked  <- [t \in {Strategy} |-> OpenRecord]

\* Seen from outside, the trader only sells short when flat and untracked,
\* only closes a tracked short, and once blocked changes nothing ever again.
ImplementsFailClosed == FailClosed!Spec
=============================================================================
