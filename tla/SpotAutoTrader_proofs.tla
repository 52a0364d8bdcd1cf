------------------------ MODULE SpotAutoTrader_proofs ------------------------
(***************************************************************************)
(* Safety of SpotAutoTrader for any number of traders, orders, candles and *)
(* faults.  The inductive invariant says, beside the types: what an order  *)
(* list implies for the position it protects (OrdersAgree), that books and *)
(* exchange differ only for a blocked trader (BooksAgree), that a trader   *)
(* has one live entry at most (OneLive), and what each step of run_once    *)
(* may rely on about the position at hand (the invariants of control).     *)
(***************************************************************************)
EXTENDS SpotAutoTrader, StoreLemmas, FiniteSetTheorems

\* An entry run_once has not finished with: untracked so far, or unresolved.
Live(id) == ~Tracked(positions, id) \/ Unresolved(positions, id)

NoneLive(t) == \A id \in Owned(t) : ~Live(id)

\* The books of t show its entries as the exchange has them.
Clean(t) ==
  \A id \in Owned(t) :
    /\ Tracked(positions, id)
    /\ (Unresolved(positions, id) /\ orders[id].sells > 0)
         => orders[id].oco = "FILLED"

OrderAgrees(id) ==
  /\ orders[id].owner = 0 <=> id >= nextId
  /\ orders[id].sells <= 1
  /\ orders[id].oco # "NONE" => orders[id].owner \in Guarded
  /\ orders[id].oco # "NONE" => Tracked(positions, id)
  /\ orders[id].oco = "ACTIVE" =>
       orders[id].sells = 0 /\ positions[id].status = "OPEN"
  /\ orders[id].oco = "FILLED" => orders[id].sells = 1
  /\ positions[id].status \in {"ABSENT", "OPEN", "CLOSED"}
  /\ Tracked(positions, id) =>
       /\ orders[id].owner # 0
       /\ positions[id].strategy = orders[id].owner
  /\ ~Tracked(positions, id) => orders[id].sells = 0
  /\ positions[id].status = "CLOSED" => orders[id].sells = 1

OrdersAgree == \A id \in OrderIds : OrderAgrees(id)

BooksAgree == \A t \in Traders : ~Blocked(t) => Clean(t)

OneLive ==
  \A t \in Traders : \A i, j \in Owned(t) : Live(i) /\ Live(j) => i = j

\* hold is an open position of the trader whose turn it is.
Holding ==
  hold \in OrderIds /\ orders[hold].owner = turn /\ positions[hold].status = "OPEN"

\* hold can be sold: no order list stands behind it, nothing has sold it.
Sellable == Holding /\ orders[hold].oco = "NONE" /\ orders[hold].sells = 0

ReadyInv ==
  (\/ pc \in {"fetch", "price", "decide", "exit", "begin"}
   \/ pc \in {"protect", "place"} /\ job # "BUY") => Ready(state[turn])

GuardInv ==
  pc \in {"protect", "place"} =>
    /\ turn \in Guarded /\ Holding /\ Clean(turn) /\ ~state[turn].halted
    /\ pc = "place" => Sellable

DecisionInv ==
  /\ pc \in {"price", "exit"} => Holding
  /\ pc = "decide" => IF hold = 0 THEN NoneLive(turn) ELSE Holding

OrderInv ==
  /\ pc \in {"begin", "submit"} =>
       \/ job = "BUY" /\ NoneLive(turn)
       \/ job = "SELL" /\ Sellable
  /\ pc = "submit" => state[turn].attempt = "SUBMITTING" /\ ~state[turn].halted
  /\ pc \in {"confirm", "record"} =>
       /\ Unfinished(state[turn]) /\ ~state[turn].halted
       /\ hold \in OrderIds /\ orders[hold].owner = turn
       /\ \/ job = "BUY" /\ ~Tracked(positions, hold)
          \/ /\ job = "SELL" /\ positions[hold].status = "OPEN"
             /\ orders[hold].sells = 1 /\ orders[hold].oco = "NONE"
  /\ pc = "uncertain" => Unfinished(state[turn])
  /\ pc \in {"snapshot", "unwind", "finalize"} => Clean(turn)

ControlInv == ReadyInv /\ GuardInv /\ DecisionInv /\ OrderInv

IInv ==
  /\ TypeOK
  /\ OrdersAgree /\ BooksAgree /\ OneLive
  /\ ControlInv

\* The freshly created files and the idle process satisfy the invariant.
LEMMA Initial == Init => IInv
  <1> SUFFICES ASSUME Init PROVE IInv
    OBVIOUS
  <1> USE ConstantsAssumption
  <1>1. TypeOK
    BY DEF Init, TypeOK, States, Default, AttemptStatuses, ActiveAttempts,
           Positions, NoPosition, Statuses, UnresolvedStatuses, ExitKinds,
           RecStatuses, OrderRecords, Unused, OcoStates, Traders, OrderIds,
           Candles, Steps
  <1>2. OrdersAgree
    BY DEF Init, OrdersAgree, OrderAgrees, Unused, NoPosition, OrderIds, Tracked
  <1>3. \A t \in Traders : Owned(t) = {}
    BY DEF Init, Owned, Unused, OrderIds, Traders
  <1>4. BooksAgree /\ OneLive
    BY <1>3 DEF BooksAgree, OneLive, Clean
  <1>5. ReadyInv /\ GuardInv /\ DecisionInv /\ OrderInv
    BY DEF Init, ReadyInv, GuardInv, DecisionInv, OrderInv
  <1>6. QED
    BY <1>1, <1>2, <1>4, <1>5 DEF IInv, ControlInv

(***************************************************************************)
(* Steps that leave the exchange and the positions alone.                  *)
(***************************************************************************)
\* The parts of the invariant about exchange and books read nothing else.
LEMMA Quiet ==
  ASSUME UNCHANGED <<positions, orders, nextId>>
  PROVE  /\ OrdersAgree' = OrdersAgree
         /\ OneLive' = OneLive
         /\ \A t \in Traders : Clean(t)' = Clean(t)
         /\ \A t \in Traders : NoneLive(t)' = NoneLive(t)
  <1>1. \A id : Live(id)' = Live(id)
    BY DEF Live
  <1>2. \A t : Owned(t)' = Owned(t)
    BY DEF Owned
  <1>3. QED
    BY <1>1, <1>2 DEF OrdersAgree, OrderAgrees, OneLive, Clean, NoneLive

\* At these steps run_once relies on nothing.
LEMMA Idle ==
  ASSUME pc' \in {"down", "sweep", "check", "mark", "halt"}
  PROVE  ControlInv'
  BY DEF ControlInv, ReadyInv, GuardInv, DecisionInv, OrderInv

\* A write of the state file that makes the trader ready needs clean books.
LEMMA WriteKeepsBooks ==
  ASSUME TypeOK, BooksAgree, UNCHANGED <<positions, orders, nextId>>,
         NEW new, Write(new), Ready(new) => Clean(turn)
  PROVE  BooksAgree'
  <1>1. \A t \in Traders : Clean(t)' = Clean(t)
    BY Quiet
  <1>2. \A t \in Traders : state'[t] = IF t = turn THEN new ELSE state[t]
    BY DEF TypeOK, Write
  <1>3. QED
    BY <1>1, <1>2 DEF BooksAgree, Blocked, TypeOK

\* The methods of the state store, as Write uses them.
LEMMA Writes ==
  ASSUME TypeOK
  PROVE  LET s == state[turn]
         IN  /\ s \in States(Candles)
             /\ Halt(s) \in States(Candles)
             /\ AssertReady(s) \in States(Candles)
             /\ MarkCandleProcessed(s, candle) \in States(Candles)
             /\ BeginOrderAttempt(s) \in States(Candles)
             /\ MarkOrderAcknowledged(s) \in States(Candles)
             /\ MarkOrderUncertain(s) \in States(Candles)
             /\ FinalizeOrderAttempt(s) \in States(Candles)
             /\ \A new \in States(Candles) :
                  /\ [state EXCEPT ![turn] = new] \in [Traders -> States(Candles)]
                  /\ [state EXCEPT ![turn] = new][turn] = new
  <1>1. state[turn] \in States(Candles) /\ candle \in Candles \cup {0}
    BY DEF TypeOK
  <1>2. QED
    BY <1>1, StateTypes DEF TypeOK

\* The process between two steps of run_once.
LEMMA LocalTypes ==
  ASSUME TypeOK
  PROVE  /\ Die \/ EndTurn => /\ turn' \in Traders /\ candle' = 0 /\ hold' = 0
                              /\ job' = "NONE" /\ pc' \in {"down", "check", "sweep"}
         /\ \A next : Goto(next) => pc' = next /\ turn' = turn /\ candle' = candle
                                    /\ hold' = hold /\ job' = job
  BY ConstantsAssumption DEF Die, EndTurn, Forget, Goto, local, TypeOK, Traders

\* Steps that write no file and move no order keep it: control, reads of
\* the exchange, faults, the closing of a candle.
LEMMA QuietSteps ==
  ASSUME IInv,
         \/ Start \/ Sweep \/ ReadFails \/ WaitNextCandle \/ WriteFails \/ Crash
         \/ CandleCloses \/ UNCHANGED vars
  PROVE  IInv'
  <1> USE DEF IInv
  <1>1. UNCHANGED <<state, positions, orders, nextId>>
    BY DEF Start, Sweep, ReadFails, WaitNextCandle, WriteFails, Crash,
           CandleCloses, vars, durable, exchange
  <1>2. BooksAgree' /\ OrdersAgree' /\ OneLive'
    BY <1>1, Quiet DEF BooksAgree, Blocked
  <1>3. CASE Start \/ Sweep \/ ReadFails \/ WaitNextCandle \/ WriteFails \/ Crash
    <2>1. pc' \in {"down", "sweep", "check"}
      BY <1>3, LocalTypes
      DEF Start, Sweep, ReadFails, WaitNextCandle, WriteFails, Crash
    <2>2. clock' = clock /\ faults' \in 0 .. MaxFaults
      BY <1>3, ConstantsAssumption
      DEF Start, Sweep, ReadFails, WaitNextCandle, WriteFails, Crash, Fault, TypeOK
    <2>3. /\ turn' \in Traders /\ candle' \in Candles \cup {0}
          /\ hold' \in OrderIds \cup {0} /\ job' \in {"NONE", "BUY", "SELL"}
      BY <1>3, LocalTypes, ConstantsAssumption
      DEF Start, Sweep, ReadFails, WaitNextCandle, WriteFails, Crash, Forget,
          TypeOK, Traders
    <2>4. TypeOK'
      BY <1>1, <2>1, <2>2, <2>3 DEF TypeOK, Steps
    <2>5. QED
      BY <1>2, <2>1, <2>4, Idle
  <1>4. CASE CandleCloses \/ UNCHANGED vars
    <2>1. UNCHANGED <<pc, turn, candle, hold, job, faults>> /\ clock' \in Candles
      BY <1>4, ConstantsAssumption DEF CandleCloses, vars, local, TypeOK, Candles
    <2>2. TypeOK'
      BY <1>1, <2>1 DEF TypeOK
    <2>3. Holding' = Holding /\ Sellable' = Sellable
      BY <1>1, <2>1 DEF Holding, Sellable
    <2>4. ControlInv'
      BY <1>1, <2>1, <2>3, Quiet
      DEF ControlInv, ReadyInv, GuardInv, DecisionInv, OrderInv, TypeOK, Tracked
    <2>5. QED
      BY <1>2, <2>2, <2>4
  <1>5. QED
    BY <1>3, <1>4

(***************************************************************************)
(* Steps that write the state file of the trader whose turn it is.         *)
(***************************************************************************)
LEMMA StateSteps ==
  ASSUME IInv,
         \/ Check \/ Unwind \/ HaltTrader \/ MarkCandle \/ Begin \/ Confirm
         \/ Uncertain \/ Finalize
  PROVE  IInv'
  <1> USE DEF IInv
  <1>1. UNCHANGED <<positions, orders, nextId, clock, faults>>
    BY DEF Check, Unwind, HaltTrader, MarkCandle, Begin, Confirm, Uncertain,
           Finalize, exchange
  <1>2. OrdersAgree' /\ OneLive' /\ \A t \in Traders : Clean(t)' = Clean(t)
    BY <1>1, Quiet
  <1>3. /\ turn' \in Traders /\ candle' \in Candles \cup {0}
        /\ hold' \in OrderIds \cup {0} /\ job' \in {"NONE", "BUY", "SELL"}
    BY LocalTypes
    DEF Check, Unwind, HaltTrader, MarkCandle, Begin, Confirm, Uncertain,
        Finalize, TypeOK
  <1> DEFINE s == state[turn]
  <1>4. /\ s \in States(Candles) /\ turn \in Traders
        /\ \A new \in States(Candles) :
             /\ [state EXCEPT ![turn] = new] \in [Traders -> States(Candles)]
             /\ [state EXCEPT ![turn] = new][turn] = new
    BY Writes DEF TypeOK
  <1>5. ASSUME NEW new \in States(Candles), Write(new),
               Ready(new) => Clean(turn), ControlInv', pc' \in Steps
        PROVE  IInv'
    <2>1. state' \in [Traders -> States(Candles)]
      BY <1>4, <1>5 DEF Write
    <2>2. TypeOK'
      BY <1>1, <1>3, <1>5, <2>1 DEF TypeOK
    <2>3. BooksAgree'
      BY <1>1, <1>5, WriteKeepsBooks
    <2>4. QED
      BY <1>2, <1>5, <2>2, <2>3
  <1>6. Ready(s) => Clean(turn)
    BY DEF BooksAgree, Blocked, TypeOK
  <1>7. CASE Check
    <2>1. (Ready(AssertReady(s)) <=> Ready(s)) /\ AssertReady(s) \in States(Candles)
      BY <1>4, StateEffects, ReadyEffects, Writes
    <2>2. CASE Ready(s)
      <3>1. pc' = "fetch" /\ turn' = turn /\ state'[turn] = s
        BY <1>4, <1>7, <2>2, LocalTypes, StateEffects, ReadyEffects DEF Check, Write
      <3>2. ControlInv'
        BY <2>2, <3>1 DEF ControlInv, ReadyInv, GuardInv, DecisionInv, OrderInv
      <3>3. QED
        BY <1>5, <1>6, <1>7, <2>1, <3>1, <3>2 DEF Check, Steps
    <2>3. CASE ~Ready(s)
      <3>1. pc' = "down"
        BY <1>7, <2>3 DEF Check, Die
      <3>2. QED
        BY <1>5, <1>7, <2>1, <2>3, <3>1, Idle DEF Check, Steps
    <2>4. QED
      BY <2>2, <2>3
  <1>8. CASE Unwind
    <2>1. Clean(turn) /\ pc' = "halt"
      BY <1>8, LocalTypes DEF Unwind, ControlInv, OrderInv
    <2>2. QED
      BY <1>5, <1>8, <2>1, Idle, Writes DEF Unwind, Steps
  <1>9. CASE HaltTrader
    <2>1. pc' = "down" /\ ~Ready(Halt(s))
      BY <1>4, <1>9, StateEffects, ReadyEffects DEF HaltTrader, Die
    <2>2. QED
      BY <1>5, <1>9, <2>1, Idle, Writes DEF HaltTrader, Steps
  <1>10. CASE MarkCandle
    <2>1. /\ Ready(MarkCandleProcessed(s, candle)) <=> Ready(s)
          /\ pc' \in {"check", "sweep"}
      BY <1>4, <1>10, StateEffects, ReadyEffects DEF MarkCandle, EndTurn
    <2>2. QED
      BY <1>5, <1>6, <1>10, <2>1, Idle, Writes DEF MarkCandle, Steps
  <1>11. CASE Begin
    <2> DEFINE new == BeginOrderAttempt(s)
    <2>1. /\ new \in States(Candles) /\ ~Ready(new) /\ Write(new)
          /\ Ready(s) => new.attempt = "SUBMITTING" /\ ~new.halted
      BY <1>4, <1>11, StateEffects, ReadyEffects, Writes DEF Begin
    <2>2. Ready(s)
      BY <1>11 DEF Begin, ControlInv, ReadyInv
    <2>3. /\ pc = "begin" /\ pc' = "submit" /\ turn' = turn /\ hold' = hold
          /\ job' = job /\ state'[turn] = new
      BY <1>4, <1>11, <2>1, <2>2, LocalTypes DEF Begin, Write
    <2>4. NoneLive(turn)' = NoneLive(turn) /\ Sellable' = Sellable
      BY <1>1, <1>4, <2>3, Quiet DEF Sellable, Holding
    <2>5. ControlInv'
      BY <2>1, <2>2, <2>3, <2>4
      DEF ControlInv, ReadyInv, GuardInv, DecisionInv, OrderInv
    <2>6. QED
      BY <1>5, <2>1, <2>3, <2>5 DEF Steps
  <1>12. CASE Confirm
    <2> DEFINE new == MarkOrderAcknowledged(s)
    <2>1. /\ new \in States(Candles) /\ ~Ready(new) /\ Unfinished(new) /\ Write(new)
          /\ new.halted = s.halted
      BY <1>4, <1>12, StateEffects, ReadyEffects, Writes DEF Confirm
    <2>2. /\ pc = "confirm" /\ pc' = "record" /\ turn' = turn /\ hold' = hold
          /\ job' = job /\ state'[turn] = new
      BY <1>4, <1>12, <2>1, LocalTypes DEF Confirm, Write
    <2>3. ControlInv'
      BY <1>1, <2>1, <2>2
      DEF ControlInv, ReadyInv, GuardInv, DecisionInv, OrderInv, Tracked
    <2>4. QED
      BY <1>5, <2>1, <2>2, <2>3 DEF Steps
  <1>13. CASE Uncertain
    <2>1. pc' = "down" /\ ~Ready(MarkOrderUncertain(s))
      BY <1>4, <1>13, StateEffects, ReadyEffects DEF Uncertain, Die
    <2>2. QED
      BY <1>5, <1>13, <2>1, Idle, Writes DEF Uncertain, Steps
  <1>14. CASE Finalize
    <2>1. Clean(turn) /\ pc' = "mark"
      BY <1>14, LocalTypes DEF Finalize, ControlInv, OrderInv
    <2>2. QED
      BY <1>5, <1>14, <2>1, Idle, Writes DEF Finalize, Steps
  <1>15. QED
    BY <1>7, <1>8, <1>9, <1>10, <1>11, <1>12, <1>13, <1>14

(***************************************************************************)
(* Steps that write nothing: reads of the exchange and decisions.          *)
(***************************************************************************)
LEMMA DecisionSteps ==
  ASSUME IInv,
         \/ Fetch \/ GuardRaises \/ LivePrice \/ DecideHeld \/ DecideFlat
         \/ SubmitFails \/ Snapshot
  PROVE  IInv'
  <1> USE DEF IInv
  <1>1. UNCHANGED <<state, positions, orders, nextId, clock, faults>>
    BY DEF Fetch, GuardRaises, LivePrice, DecideHeld, DecideFlat, SubmitFails,
           Snapshot, durable, exchange
  <1>2. /\ OrdersAgree' /\ OneLive' /\ BooksAgree'
        /\ \A t \in Traders : Clean(t)' = Clean(t) /\ NoneLive(t)' = NoneLive(t)
    BY <1>1, Quiet DEF BooksAgree, Blocked
  <1>3. turn \in Traders /\ candle \in Candles \cup {0} /\ hold \in OrderIds \cup {0}
        /\ job \in {"NONE", "BUY", "SELL"} /\ clock \in Candles
    BY DEF TypeOK
  <1>4. ASSUME turn' = turn, candle' \in Candles \cup {0},
               hold' \in OrderIds \cup {0}, job' \in {"NONE", "BUY", "SELL"},
               pc' \in Steps, ControlInv'
        PROVE  IInv'
    BY <1>1, <1>2, <1>3, <1>4 DEF TypeOK
  <1>5. ASSUME NEW next \in {"halt", "mark", "uncertain", "unwind", "finalize"},
               Goto(next),
               next = "uncertain" => Unfinished(state[turn]),
               next \in {"unwind", "finalize"} => Clean(turn)
        PROVE  IInv'
    <2>1. pc' = next /\ turn' = turn /\ candle' = candle /\ hold' = hold /\ job' = job
      BY <1>5, LocalTypes
    <2>2. ControlInv'
      BY <1>1, <1>2, <1>3, <1>5, <2>1
      DEF ControlInv, ReadyInv, GuardInv, DecisionInv, OrderInv
    <2>3. QED
      BY <1>3, <1>4, <2>1, <2>2 DEF Steps
  <1>6. Ready(state[turn]) => Clean(turn)
    BY <1>3 DEF BooksAgree, Blocked
  <1>7. CASE Fetch
    <2> DEFINE open == UnresolvedPositions(positions, turn)
    <2>1. pc = "fetch" /\ candle' = clock /\ turn' = turn /\ job' = job
      BY <1>7 DEF Fetch
    <2>2. Ready(state[turn]) /\ Clean(turn)
      BY <1>6, <2>1 DEF ControlInv, ReadyInv
    <2>3. DOMAIN positions = OrderIds
      BY DEF TypeOK
    <2>4. \A id \in open : /\ id \in OrderIds /\ orders[id].owner = turn
                           /\ positions[id].status = "OPEN"
      BY <2>3 DEF UnresolvedPositions, Unresolved, UnresolvedStatuses,
                  OrdersAgree, OrderAgrees, Tracked
    <2>5. CASE open = {} /\ hold' = 0 /\ pc' = "decide"
      <3>1. NoneLive(turn)
        BY <2>2, <2>3, <2>5
        DEF NoneLive, Live, Clean, Owned, UnresolvedPositions, Unresolved,
            OrdersAgree, OrderAgrees
      <3>2. ControlInv'
        BY <1>1, <1>2, <1>3, <2>1, <2>2, <2>5, <3>1
        DEF ControlInv, ReadyInv, GuardInv, DecisionInv, OrderInv
      <3>3. QED
        BY <1>3, <1>4, <2>1, <2>5, <3>2 DEF Steps
    <2>6. CASE hold' = 0 /\ pc' = "halt"
      BY <1>3, <1>4, <2>1, <2>6, Idle DEF Steps
    <2>7. CASE /\ hold' \in open
               /\ pc' = IF turn \in Guarded THEN "protect"
                        ELSE IF turn \in Fixed THEN "price" ELSE "decide"
      <3>1. Holding' /\ hold' # 0
        BY <1>1, <2>1, <2>4, <2>7 DEF Holding, OrderIds
      <3>2. ControlInv'
        BY <1>1, <1>2, <1>3, <2>1, <2>2, <2>7, <3>1
        DEF Ready, ControlInv, ReadyInv, GuardInv, DecisionInv, OrderInv
      <3>3. QED
        BY <1>3, <1>4, <2>1, <2>4, <2>7, <3>2 DEF Steps
    <2>8. QED
      BY <1>7, <2>5, <2>6, <2>7 DEF Fetch
  <1>8. CASE GuardRaises
    <2>1. Clean(turn)
      BY <1>6, <1>8 DEF GuardRaises, ControlInv, GuardInv, ReadyInv
    <2>2. QED
      BY <1>5, <1>8, <2>1 DEF GuardRaises, GuardFailed
  <1>9. ASSUME pc \in {"price", "decide"}, Ready(state[turn]),
               Holding, hold # 0, Goto("decide") \/ Goto("exit")
        PROVE  IInv'
    <2>1. /\ pc' \in {"decide", "exit"} /\ turn' = turn /\ candle' = candle
          /\ hold' = hold /\ job' = job
      BY <1>9, LocalTypes
    <2>2. Holding'
      BY <1>1, <1>9, <2>1 DEF Holding
    <2>3. ControlInv'
      BY <1>1, <1>9, <2>1, <2>2 DEF ControlInv, ReadyInv, GuardInv, DecisionInv, OrderInv
    <2>4. QED
      BY <1>3, <1>4, <2>1, <2>3 DEF Steps
  <1>10. CASE LivePrice
    BY <1>9, <1>10 DEF LivePrice, ControlInv, ReadyInv, DecisionInv, Holding, OrderIds
  <1>11. CASE DecideHeld
    <2>1. Holding /\ hold # 0 /\ Ready(state[turn]) /\ pc = "decide"
      BY <1>11 DEF DecideHeld, ControlInv, ReadyInv, DecisionInv
    <2>2. CASE Goto("exit")
      BY <1>9, <2>1, <2>2
    <2>3. CASE Goto("mark")
      BY <1>5, <2>3
    <2>4. QED
      BY <1>11, <2>1, <2>2, <2>3 DEF DecideHeld, Holding
  <1>12. CASE DecideFlat
    <2>1. NoneLive(turn) /\ Ready(state[turn]) /\ pc = "decide"
      BY <1>12 DEF DecideFlat, ControlInv, ReadyInv, DecisionInv
    <2>2. CASE Goto("mark")
      BY <1>5, <2>2
    <2>3. CASE pc' = "begin" /\ job' = "BUY" /\ UNCHANGED <<turn, candle, hold>>
      <3>1. ControlInv'
        BY <1>1, <1>2, <1>3, <2>1, <2>3
        DEF ControlInv, ReadyInv, GuardInv, DecisionInv, OrderInv
      <3>2. QED
        BY <1>3, <1>4, <2>3, <3>1 DEF Steps
    <2>4. QED
      BY <1>12, <2>2, <2>3 DEF DecideFlat
  <1>13. CASE SubmitFails
    <2>1. Unfinished(state[turn])
      BY <1>13 DEF SubmitFails, ControlInv, OrderInv, Unfinished, ActiveAttempts
    <2>2. QED
      BY <1>5, <1>13, <2>1 DEF SubmitFails
  <1>14. CASE Snapshot
    <2>1. Clean(turn)
      BY <1>14 DEF Snapshot, ControlInv, OrderInv
    <2>2. QED
      BY <1>5, <1>14, <2>1 DEF Snapshot
  <1>15. QED
    BY <1>7, <1>8, <1>10, <1>11, <1>12, <1>13, <1>14

(***************************************************************************)
(* Steps that write the position file.                                     *)
(***************************************************************************)
\* Closing the position at hand, which the exchange has sold.
LEMMA CloseHeld ==
  ASSUME IInv, Holding, orders[hold].sells = 1, orders[hold].oco # "ACTIVE",
         NEW exit \in ExitKinds, positions' = MarkClosed(positions, hold, exit),
         UNCHANGED <<state, orders, nextId, turn>>
  PROVE  /\ positions' \in [OrderIds -> Positions(Traders)]
         /\ OrdersAgree' /\ BooksAgree' /\ OneLive'
         /\ Clean(turn)'
  <1> USE DEF IInv
  <1>1. /\ positions' \in [OrderIds -> Positions(Traders)]
        /\ \A other \in OrderIds \ {hold} : positions'[other] = positions[other]
        /\ positions'[hold].status = "CLOSED"
        /\ positions'[hold].strategy = positions[hold].strategy
    BY MarkClosedEffect DEF TypeOK, Holding
  <1>2. OrdersAgree'
    BY <1>1 DEF OrdersAgree, OrderAgrees, Tracked, Holding
  <1>3. \A id \in OrderIds :
          /\ Live(id)' => Live(id)
          /\ Tracked(positions, id) => Tracked(positions, id)'
          /\ Unresolved(positions, id)' => Unresolved(positions, id)
          /\ id = hold => ~Live(id)' /\ ~Unresolved(positions, id)' /\ Live(id)
    BY <1>1 DEF Live, Tracked, Unresolved, UnresolvedStatuses, Holding
  <1>4. \A t : Owned(t)' = Owned(t) /\ Owned(t) \subseteq OrderIds
    BY DEF Owned
  <1>5. OneLive'
    BY <1>3, <1>4 DEF OneLive
  <1>6. \A t \in Traders : Clean(t) => Clean(t)'
    BY <1>3, <1>4 DEF Clean
  <1>7. BooksAgree'
    BY <1>6 DEF BooksAgree, Blocked
  <1>8. Clean(turn)'
    <2>1. turn \in Traders /\ hold \in Owned(turn)
      BY DEF TypeOK, Holding, Owned
    <2>2. \A id \in Owned(turn) : id # hold => ~Live(id)
      BY <1>3, <1>4, <2>1 DEF OneLive
    <2>3. \A id \in Owned(turn) : ~Live(id)'
      BY <1>3, <1>4, <2>2
    <2>4. QED
      BY <1>4, <2>3 DEF Clean, Live
  <1>9. QED
    BY <1>1, <1>2, <1>5, <1>7, <1>8

\* Steps that write the position file keep it: the guard recording a filled
\* list, the new entry, the software exit.
LEMMA PositionSteps ==
  ASSUME IInv, Protect \/ ExitPosition \/ RecordEntry \/ RecordExit
  PROVE  IInv'
  <1> USE DEF IInv
  <1>1. UNCHANGED <<state, orders, nextId, clock, faults>>
    BY DEF Protect, ExitPosition, RecordEntry, RecordExit, exchange
  <1>2. turn \in Traders /\ candle \in Candles \cup {0} /\ hold \in OrderIds \cup {0}
        /\ job \in {"NONE", "BUY", "SELL"} /\ Owned(turn) \subseteq OrderIds
    BY DEF TypeOK, Owned
  <1>3. ASSUME turn' = turn, candle' = candle, hold' = hold,
               job' \in {"NONE", "BUY", "SELL"}, pc' \in Steps, ControlInv',
               positions' \in [OrderIds -> Positions(Traders)],
               OrdersAgree', BooksAgree', OneLive'
        PROVE  IInv'
    BY <1>1, <1>2, <1>3 DEF TypeOK
  <1>4. \A next : Goto(next) => /\ pc' = next /\ turn' = turn /\ candle' = candle
                                /\ hold' = hold /\ job' = job
    BY LocalTypes
  <1>5. positions' = positions =>
          /\ positions' \in [OrderIds -> Positions(Traders)]
          /\ OrdersAgree' /\ BooksAgree' /\ OneLive'
          /\ \A t \in Traders : Clean(t)' = Clean(t)
    <2> SUFFICES ASSUME positions' = positions
                 PROVE  /\ OrdersAgree' /\ BooksAgree' /\ OneLive'
                        /\ \A t \in Traders : Clean(t)' = Clean(t)
      BY DEF TypeOK
    <2>1. OrdersAgree' /\ OneLive' /\ \A t \in Traders : Clean(t)' = Clean(t)
      BY <1>1, Quiet
    <2>2. QED
      BY <1>1, <2>1 DEF BooksAgree, Blocked
  <1>6. Ready(state[turn]) => Clean(turn)
    BY <1>2 DEF BooksAgree, Blocked
  <1>7. Holding /\ ExitToRecord(hold) =>
          orders[hold].sells = 1 /\ orders[hold].oco # "ACTIVE"
    BY DEF Holding, ExitToRecord, OrdersAgree, OrderAgrees
  <1>8. Holding /\ Clean(turn) /\ IsUnprotected(hold) => Sellable
    <2> SUFFICES ASSUME Holding, Clean(turn), IsUnprotected(hold)
                 PROVE  orders[hold].oco = "NONE" /\ orders[hold].sells = 0
      BY DEF Sellable
    <2>1. hold \in Owned(turn) /\ Unresolved(positions, hold)
      BY DEF Owned, Holding, Unresolved, UnresolvedStatuses
    <2>2. orders[hold].sells \in Nat
      BY DEF TypeOK, OrderRecords, Holding
    <2>3. QED
      BY <2>1, <2>2 DEF Clean, IsUnprotected
  <1>9. CASE Protect
    <2>1. pc = "protect" /\ turn \in Guarded /\ Holding /\ Clean(turn)
          /\ (job # "BUY" => Ready(state[turn]))
      BY <1>9 DEF Protect, ControlInv, GuardInv, ReadyInv
    <2>2. ASSUME GuardFailed, positions' = positions PROVE IInv'
      <3>1. /\ pc' = IF job = "BUY" THEN "unwind" ELSE "halt"
            /\ turn' = turn /\ candle' = candle /\ hold' = hold /\ job' = job
        BY <1>4, <2>2 DEF GuardFailed
      <3>2. ControlInv'
        BY <1>2, <1>5, <2>1, <2>2, <3>1
        DEF ControlInv, ReadyInv, GuardInv, DecisionInv, OrderInv
      <3>3. QED
        BY <1>2, <1>3, <1>5, <2>2, <3>1, <3>2 DEF Steps
    <2>3. CASE ExitToRecord(hold)
      <3>1. positions' = MarkClosed(positions, hold, "PROTECTIVE")
        BY <1>9, <2>1, <2>3 DEF Protect, Reconciled, Holding
      <3>2. Goto(IF job = "BUY" THEN "snapshot" ELSE "mark")
        BY <1>9, <2>1, <2>3
        DEF Protect, Holding, IsProtected, IsUnprotected, ExitToRecord
      <3>3. /\ pc' = IF job = "BUY" THEN "snapshot" ELSE "mark"
            /\ turn' = turn /\ candle' = candle /\ hold' = hold /\ job' = job
        BY <1>4, <3>2
      <3>4. /\ positions' \in [OrderIds -> Positions(Traders)]
            /\ OrdersAgree' /\ BooksAgree' /\ OneLive' /\ Clean(turn)'
        BY <1>1, <1>7, <2>1, <2>3, <3>1, <3>3, CloseHeld DEF ExitKinds
      <3>5. ControlInv'
        BY <3>3, <3>4 DEF ControlInv, ReadyInv, GuardInv, DecisionInv, OrderInv
      <3>6. QED
        BY <1>2, <1>3, <3>3, <3>4, <3>5 DEF Steps
    <2>4. CASE ~ExitToRecord(hold)
      <3>1. positions' = positions
        BY <1>9, <2>1, <2>4 DEF Protect, Reconciled, Holding
      <3>2. \/ Goto(AfterProtection)
            \/ Goto("place") /\ IsUnprotected(hold)
            \/ GuardFailed
        BY <1>9, <2>1, <2>4 DEF Protect, Holding
      <3>3. CASE Goto(AfterProtection)
        <4>1. /\ pc' = IF job = "BUY" THEN "snapshot" ELSE "price"
              /\ turn' = turn /\ candle' = candle /\ hold' = hold /\ job' = job
          BY <1>4, <3>3 DEF AfterProtection
        <4>2. Holding'
          BY <1>1, <2>1, <3>1, <4>1 DEF Holding
        <4>3. ControlInv'
          BY <1>1, <1>2, <1>5, <2>1, <3>1, <4>1, <4>2
          DEF ControlInv, ReadyInv, GuardInv, DecisionInv, OrderInv
        <4>4. QED
          BY <1>2, <1>3, <1>5, <3>1, <4>1, <4>3 DEF Steps
      <3>4. CASE Goto("place") /\ IsUnprotected(hold)
        <4>1. /\ pc' = "place" /\ Sellable
              /\ turn' = turn /\ candle' = candle /\ hold' = hold /\ job' = job
          BY <1>4, <1>8, <2>1, <3>4
        <4>2. Sellable' /\ Holding'
          BY <1>1, <3>1, <4>1 DEF Holding, Sellable
        <4>3. ControlInv'
          BY <1>1, <1>2, <1>5, <2>1, <3>1, <4>1, <4>2
          DEF ControlInv, ReadyInv, GuardInv, DecisionInv, OrderInv
        <4>4. QED
          BY <1>2, <1>3, <1>5, <3>1, <4>1, <4>3 DEF Steps
      <3>5. QED
        BY <2>2, <3>1, <3>2, <3>3, <3>4
    <2>5. QED
      BY <2>3, <2>4
  <1>10. CASE ExitPosition
    <2>1. pc = "exit" /\ Holding /\ Ready(state[turn]) /\ Clean(turn)
      BY <1>6, <1>10 DEF ExitPosition, ControlInv, DecisionInv, ReadyInv
    <2>2. turn' = turn /\ candle' = candle /\ hold' = hold
      BY <1>10 DEF ExitPosition
    <2>3. CASE pc' = "halt" /\ UNCHANGED job /\ positions' = Reconciled(hold)
      <3>1. /\ positions' \in [OrderIds -> Positions(Traders)]
            /\ OrdersAgree' /\ BooksAgree' /\ OneLive'
        BY <1>1, <1>5, <1>7, <2>1, <2>2, <2>3, CloseHeld DEF Reconciled, ExitKinds
      <3>2. QED
        BY <1>2, <1>3, <2>2, <2>3, <3>1, Idle DEF Steps
    <2>4. CASE pc' = "begin" /\ job' = "SELL" /\ positions' = positions /\ Sellable
      <3>1. Sellable'
        BY <1>1, <2>2, <2>4 DEF Sellable, Holding
      <3>2. ControlInv'
        BY <1>1, <2>1, <2>2, <2>4, <3>1
        DEF ControlInv, ReadyInv, GuardInv, DecisionInv, OrderInv
      <3>3. QED
        BY <1>2, <1>3, <1>5, <2>2, <2>4, <3>2 DEF Steps
    <2>5. turn \notin Guarded => IsUnprotected(hold)
      BY <2>1 DEF Holding, OrdersAgree, OrderAgrees, IsUnprotected
    <2>6. SafeToSoftwareExit(hold) => Reconciled(hold) = positions /\ Sellable
      BY <1>8, <2>1 DEF SafeToSoftwareExit, IsUnprotected, Reconciled, ExitToRecord
    <2>7. QED
      BY <1>8, <1>10, <2>1, <2>3, <2>4, <2>5, <2>6 DEF ExitPosition
  <1>11. CASE RecordEntry
    <2>1. /\ pc = "record" /\ job = "BUY" /\ hold \in OrderIds
          /\ orders[hold].owner = turn /\ ~Tracked(positions, hold)
          /\ Unfinished(state[turn])
      BY <1>11 DEF RecordEntry, ControlInv, OrderInv
    <2>2. /\ positions' = AddPosition(positions, hold, turn)
          /\ positions' \in [OrderIds -> Positions(Traders)]
          /\ \A other \in OrderIds \ {hold} : positions'[other] = positions[other]
          /\ AddRefused(positions, hold, turn) => positions' = positions
          /\ ~AddRefused(positions, hold, turn) =>
               positions'[hold].status = "OPEN" /\ positions'[hold].strategy = turn
      BY <1>2, <1>11, <2>1, AddPositionEffect DEF RecordEntry, TypeOK
    <2>3. CASE AddRefused(positions, hold, turn)
      <3>1. EndTurn /\ positions' = positions
        BY <1>11, <2>2, <2>3 DEF RecordEntry
      <3>2. ControlInv' /\ TypeOK'
        BY <1>1, <3>1, Idle, LocalTypes DEF TypeOK, Steps
      <3>3. QED
        BY <1>5, <3>1, <3>2
    <2>4. CASE ~AddRefused(positions, hold, turn)
      <3>1. /\ pc' = IF turn \in Guarded THEN "protect" ELSE "snapshot"
            /\ turn' = turn /\ candle' = candle /\ hold' = hold /\ job' = job
        BY <1>4, <1>11, <2>4 DEF RecordEntry
      <3>2. orders[hold].sells = 0 /\ orders[hold].oco = "NONE"
        BY <2>1 DEF OrdersAgree, OrderAgrees
      <3>3. OrdersAgree'
        BY <1>1, <1>2, <2>1, <2>2, <2>4, <3>2
        DEF OrdersAgree, OrderAgrees, Tracked, Traders
      <3>4. \A id \in OrderIds :
              /\ Live(id)' <=> Live(id)
              /\ Tracked(positions, id) => Tracked(positions, id)'
              /\ Unresolved(positions, id)' => Unresolved(positions, id) \/ id = hold
              /\ id = hold => Live(id) /\ Tracked(positions, id)'
        BY <2>1, <2>2, <2>4 DEF Live, Tracked, Unresolved, UnresolvedStatuses
      <3>5. \A t : Owned(t)' = Owned(t) /\ Owned(t) \subseteq OrderIds
        BY <1>1 DEF Owned
      <3>6. OneLive'
        BY <3>4, <3>5 DEF OneLive
      <3>7. \A t \in Traders : Clean(t) => Clean(t)'
        BY <1>1, <3>2, <3>4, <3>5 DEF Clean
      <3>8. BooksAgree'
        BY <1>1, <3>7 DEF BooksAgree, Blocked
      <3>9. Clean(turn)'
        <4>1. hold \in Owned(turn)
          BY <2>1 DEF Owned
        <4>2. \A id \in Owned(turn) : id # hold => ~Live(id)
          BY <1>2, <3>4, <3>5, <4>1 DEF OneLive
        <4>3. \A id \in Owned(turn) : id # hold =>
                /\ Tracked(positions, id)' /\ ~Unresolved(positions, id)'
          BY <3>4, <3>5, <4>2 DEF Live
        <4>4. QED
          BY <1>1, <1>2, <3>1, <3>2, <3>4, <3>5, <4>3 DEF Clean
      <3>10. Holding'
        BY <1>1, <2>1, <2>2, <2>4, <3>1 DEF Holding
      <3>11. ControlInv'
        BY <1>1, <2>1, <3>1, <3>9, <3>10
        DEF ControlInv, ReadyInv, GuardInv, DecisionInv, OrderInv
      <3>12. QED
        BY <1>2, <1>3, <2>2, <3>1, <3>3, <3>6, <3>8, <3>11 DEF Steps
    <2>5. QED
      BY <2>3, <2>4
  <1>12. CASE RecordExit
    <2>1. /\ pc = "record" /\ job = "SELL" /\ Holding /\ orders[hold].sells = 1
          /\ orders[hold].oco # "ACTIVE"
      BY <1>12 DEF RecordExit, ControlInv, OrderInv, Holding, OrdersAgree, OrderAgrees
    <2>2. /\ pc' = "snapshot" /\ turn' = turn /\ candle' = candle
          /\ hold' = hold /\ job' = job
      BY <1>4, <1>12 DEF RecordExit
    <2>3. /\ positions' \in [OrderIds -> Positions(Traders)]
          /\ OrdersAgree' /\ BooksAgree' /\ OneLive' /\ Clean(turn)'
      BY <1>1, <1>12, <2>1, <2>2, CloseHeld DEF RecordExit, ExitKinds
    <2>4. ControlInv'
      BY <2>2, <2>3 DEF ControlInv, ReadyInv, GuardInv, DecisionInv, OrderInv
    <2>5. QED
      BY <1>2, <1>3, <2>2, <2>3, <2>4 DEF Steps
  <1>13. QED
    BY <1>9, <1>10, <1>11, <1>12

(***************************************************************************)
(* Steps of the exchange.                                                  *)
(***************************************************************************)
\* The fields of an order after an update.
LEMMA OrderUpdates ==
  ASSUME NEW order \in OrderRecords, NEW oco \in OcoStates
  PROVE  /\ WithOco(order, oco) \in OrderRecords
         /\ WithOco(order, oco).oco = oco
         /\ WithOco(order, oco).sells = order.sells
         /\ WithOco(order, oco).owner = order.owner
         /\ Sold(order) \in OrderRecords
         /\ Sold(order).oco = order.oco
         /\ Sold(order).sells = order.sells + 1
         /\ Sold(order).owner = order.owner
  <1>1. /\ WithOco(order, oco) \in OrderRecords
        /\ WithOco(order, oco).oco = oco
        /\ WithOco(order, oco).sells = order.sells
        /\ WithOco(order, oco).owner = order.owner
    BY DEF WithOco, OrderRecords
  <1>2. order.sells \in Nat /\ order.sells + 1 \in Nat
    BY DEF OrderRecords
  <1>3. /\ Sold(order) \in OrderRecords
        /\ Sold(order).oco = order.oco
        /\ Sold(order).sells = order.sells + 1
        /\ Sold(order).owner = order.owner
    BY <1>2, Zenon DEF Sold, OrderRecords
  <1>4. QED
    BY <1>1, <1>3

\* The fields of an order just executed.
LEMMA NewOrder ==
  ASSUME NEW t \in Traders, NEW ms \in Candles \cup {0}
  PROVE  /\ Bought(t, ms) \in OrderRecords
         /\ Bought(t, ms).oco = "NONE"
         /\ Bought(t, ms).sells = 0
         /\ Bought(t, ms).owner = t
  <1>1. 0 \in Nat
    OBVIOUS
  <1>2. QED
    BY <1>1, Zenon DEF Bought, Unused, OrderRecords, OcoStates

\* Replacing one order record.
LEMMA OneOrder ==
  ASSUME TypeOK, NEW id \in OrderIds, NEW order \in OrderRecords,
         orders' = [orders EXCEPT ![id] = order]
  PROVE  /\ orders' \in [OrderIds -> OrderRecords]
         /\ orders'[id] = order
         /\ \A other \in OrderIds \ {id} : orders'[other] = orders[other]
  BY DEF TypeOK

\* An update that keeps the owners keeps everything said about the books.
LEMMA SameOwners ==
  ASSUME TypeOK, OneLive, UNCHANGED <<state, positions>>,
         \A id \in OrderIds : orders'[id].owner = orders[id].owner
  PROVE  /\ OneLive'
         /\ \A t : Owned(t)' = Owned(t) /\ Owned(t) \subseteq OrderIds
         /\ \A t \in Traders : NoneLive(t) => NoneLive(t)'
         /\ (\A t \in Traders : Clean(t) => Clean(t)') /\ BooksAgree => BooksAgree'
  <1>1. \A t : Owned(t)' = Owned(t) /\ Owned(t) \subseteq OrderIds
    BY DEF Owned
  <1>2. \A id : Live(id)' <=> Live(id)
    BY DEF Live
  <1>3. QED
    BY <1>1, <1>2 DEF OneLive, NoneLive, BooksAgree, Blocked

\* What happens to an order list at the exchange keeps it.
LEMMA ListSteps ==
  ASSUME IInv, NEW id \in OrderIds, OcoFills(id) \/ OcoCanceled(id)
  PROVE  IInv'
  <1> USE DEF IInv
  <1>1. /\ UNCHANGED <<state, positions, nextId, clock, faults, pc, turn,
                       candle, hold, job>>
        /\ orders[id].oco = "ACTIVE" /\ orders[id] \in OrderRecords
    BY DEF OcoFills, OcoCanceled, durable, local, TypeOK
  <1>2. orders[id].sells = 0 /\ positions[id].status = "OPEN"
    BY <1>1 DEF OrdersAgree, OrderAgrees
  <1>3. /\ orders' \in [OrderIds -> OrderRecords]
        /\ orders'[id].owner = orders[id].owner
        /\ \/ orders'[id].oco = "FILLED" /\ orders'[id].sells = 1
           \/ orders'[id].oco = "CANCELED" /\ orders'[id].sells = 0
        /\ \A other \in OrderIds \ {id} : orders'[other] = orders[other]
    <2>1. CASE OcoFills(id)
      <3>1. /\ Sold(orders[id]) \in OrderRecords
            /\ Sold(orders[id]).sells = 1
            /\ Sold(orders[id]).owner = orders[id].owner
        BY <1>1, <1>2, OrderUpdates DEF OcoStates
      <3>2. /\ WithOco(Sold(orders[id]), "FILLED") \in OrderRecords
            /\ WithOco(Sold(orders[id]), "FILLED").sells = 1
            /\ WithOco(Sold(orders[id]), "FILLED").oco = "FILLED"
            /\ WithOco(Sold(orders[id]), "FILLED").owner = orders[id].owner
        BY <3>1, OrderUpdates DEF OcoStates
      <3>3. QED
        BY <2>1, <3>2, OneOrder DEF OcoFills
    <2>2. CASE OcoCanceled(id)
      <3>1. /\ WithOco(orders[id], "CANCELED") \in OrderRecords
            /\ WithOco(orders[id], "CANCELED").sells = 0
            /\ WithOco(orders[id], "CANCELED").oco = "CANCELED"
            /\ WithOco(orders[id], "CANCELED").owner = orders[id].owner
        BY <1>1, <1>2, OrderUpdates DEF OcoStates
      <3>2. QED
        BY <2>2, <3>1, OneOrder DEF OcoCanceled
    <2>3. QED
      BY <2>1, <2>2
  <1>4. TypeOK'
    BY <1>1, <1>3 DEF TypeOK
  <1>5. OrdersAgree'
    BY <1>1, <1>2, <1>3 DEF OrdersAgree, OrderAgrees, Tracked
  <1>6. /\ OneLive' /\ \A t \in Traders : NoneLive(t) => NoneLive(t)'
        /\ \A t : Owned(t)' = Owned(t) /\ Owned(t) \subseteq OrderIds
        /\ (\A t \in Traders : Clean(t) => Clean(t)') => BooksAgree'
    BY <1>1, <1>3, SameOwners
  <1>7. \A t \in Traders : Clean(t) => Clean(t)'
    BY <1>1, <1>3, <1>6 DEF Clean, Tracked, Unresolved
  <1>8. (Holding => Holding') /\ (Sellable => Sellable')
    BY <1>1, <1>3 DEF Holding, Sellable
  <1>9. turn \in Traders /\ turn' = turn
    BY <1>1 DEF TypeOK
  <1>10. /\ hold \in OrderIds => orders'[hold].owner = orders[hold].owner
         /\ hold \in OrderIds /\ orders[hold].sells = 1 => orders'[hold].sells = 1
         /\ hold \in OrderIds /\ orders[hold].oco = "NONE" => orders'[hold].oco = "NONE"
    BY <1>1, <1>2, <1>3
  <1>11. ControlInv'
    <2>1. ReadyInv'
      BY <1>1 DEF ControlInv, ReadyInv
    <2>2. GuardInv'
      BY <1>1, <1>7, <1>8, <1>9 DEF ControlInv, GuardInv
    <2>3. DecisionInv'
      BY <1>1, <1>6, <1>8, <1>9 DEF ControlInv, DecisionInv
    <2>4. OrderInv'
      BY <1>1, <1>6, <1>7, <1>8, <1>9, <1>10 DEF ControlInv, OrderInv, Tracked
    <2>5. QED
      BY <2>1, <2>2, <2>3, <2>4 DEF ControlInv
  <1>12. QED
    BY <1>4, <1>5, <1>6, <1>7, <1>11

\* The orders the process sends keep it: BUY, SELL and order list.
LEMMA ExchangeSteps ==
  ASSUME IInv, PlaceOco \/ SubmitBuy \/ SubmitSell
  PROVE  IInv'
  <1> USE DEF IInv
  <1>1. UNCHANGED <<state, positions, clock, faults>>
    BY DEF PlaceOco, SubmitBuy, SubmitSell, durable
  <1>2. turn \in Traders /\ candle \in Candles \cup {0} /\ hold \in OrderIds \cup {0}
        /\ job \in {"NONE", "BUY", "SELL"} /\ state[turn] \in States(Candles)
    BY DEF TypeOK
  <1>3. \A next : Goto(next) => /\ pc' = next /\ turn' = turn /\ candle' = candle
                                /\ hold' = hold /\ job' = job
    BY LocalTypes
  <1>4. CASE PlaceOco
    <2>1. /\ pc = "place" /\ turn \in Guarded /\ Sellable /\ Holding /\ Clean(turn)
          /\ nextId' = nextId /\ (job # "BUY" => Ready(state[turn]))
      BY <1>4 DEF PlaceOco, ControlInv, GuardInv, ReadyInv
    <2>2. /\ orders' \in [OrderIds -> OrderRecords]
          /\ orders'[hold].owner = turn /\ orders'[hold].sells = 0
          /\ orders'[hold].oco = "ACTIVE" /\ hold \in OrderIds
          /\ \A other \in OrderIds \ {hold} : orders'[other] = orders[other]
      <3>1. /\ WithOco(orders[hold], "ACTIVE") \in OrderRecords
            /\ WithOco(orders[hold], "ACTIVE").sells = 0
            /\ WithOco(orders[hold], "ACTIVE").oco = "ACTIVE"
            /\ WithOco(orders[hold], "ACTIVE").owner = turn
        BY <1>2, <2>1, OrderUpdates DEF OcoStates, TypeOK, Sellable, Holding
      <3>2. QED
        BY <1>4, <2>1, <3>1, OneOrder DEF PlaceOco, Holding
    <2>3. OrdersAgree'
      BY <1>1, <2>1, <2>2 DEF OrdersAgree, OrderAgrees, Tracked, Holding
    <2>4. /\ OneLive'
          /\ \A t : Owned(t)' = Owned(t) /\ Owned(t) \subseteq OrderIds
          /\ (\A t \in Traders : Clean(t) => Clean(t)') => BooksAgree'
      BY <1>1, <2>1, <2>2, SameOwners DEF Sellable, Holding
    <2>5. \A t \in Traders : Clean(t) => Clean(t)'
      BY <1>1, <2>2, <2>4 DEF Clean, Tracked, Unresolved
    <2>6. /\ pc' \in {IF job = "BUY" THEN "snapshot" ELSE "price",
                      IF job = "BUY" THEN "unwind" ELSE "halt"}
          /\ turn' = turn /\ candle' = candle /\ hold' = hold /\ job' = job
      BY <1>3, <1>4 DEF PlaceOco, AfterProtection, GuardFailed
    <2>7. Holding'
      BY <1>1, <2>1, <2>2, <2>6 DEF Holding
    <2>8. ControlInv'
      BY <1>1, <1>2, <2>1, <2>5, <2>6, <2>7
      DEF ControlInv, ReadyInv, GuardInv, DecisionInv, OrderInv
    <2>9. TypeOK'
      BY <1>1, <1>2, <2>1, <2>2, <2>6 DEF TypeOK, Steps
    <2>10. QED
      BY <2>3, <2>4, <2>5, <2>8, <2>9
  <1>5. CASE SubmitSell
    <2>1. /\ pc = "submit" /\ Sellable /\ Holding /\ job = "SELL" /\ nextId' = nextId
          /\ state[turn].attempt = "SUBMITTING" /\ ~Ready(state[turn])
          /\ Unfinished(state[turn])
      BY <1>5 DEF SubmitSell, ControlInv, OrderInv, Sellable, Ready, Unfinished,
                  ActiveAttempts
    <2>2. /\ orders' \in [OrderIds -> OrderRecords]
          /\ orders'[hold].owner = turn /\ orders'[hold].sells = 1
          /\ orders'[hold].oco = "NONE" /\ hold \in OrderIds
          /\ \A other \in OrderIds \ {hold} : orders'[other] = orders[other]
      <3>1. /\ Sold(orders[hold]) \in OrderRecords
            /\ Sold(orders[hold]).sells = 1
            /\ Sold(orders[hold]).oco = "NONE"
            /\ Sold(orders[hold]).owner = turn
        BY <1>2, <2>1, OrderUpdates DEF OcoStates, TypeOK, Sellable, Holding
      <3>2. QED
        BY <1>5, <2>1, <3>1, OneOrder DEF SubmitSell, Holding
    <2>3. OrdersAgree'
      BY <1>1, <2>1, <2>2 DEF OrdersAgree, OrderAgrees, Tracked, Holding
    <2>4. /\ OneLive'
          /\ \A t : Owned(t)' = Owned(t) /\ Owned(t) \subseteq OrderIds
      BY <1>1, <2>1, <2>2, SameOwners DEF Sellable, Holding
    <2>5. \A t \in Traders \ {turn} : Clean(t) => Clean(t)'
      BY <1>1, <2>2, <2>4 DEF Clean, Tracked, Unresolved, Owned
    <2>6. BooksAgree'
      BY <1>1, <2>1, <2>5 DEF BooksAgree, Blocked
    <2>7. /\ pc' \in {"confirm", "uncertain"}
          /\ turn' = turn /\ candle' = candle /\ hold' = hold /\ job' = job
      BY <1>3, <1>5 DEF SubmitSell
    <2>8. ControlInv'
      BY <1>1, <2>1, <2>2, <2>7
      DEF ControlInv, ReadyInv, GuardInv, DecisionInv, OrderInv, Holding
    <2>9. TypeOK'
      BY <1>1, <1>2, <2>1, <2>2, <2>7 DEF TypeOK, Steps
    <2>10. QED
      BY <2>3, <2>4, <2>6, <2>8, <2>9
  <1>6. CASE SubmitBuy
    <2>1. /\ pc = "submit" /\ NoneLive(turn) /\ job = "BUY" /\ nextId \in OrderIds
          /\ state[turn].attempt = "SUBMITTING" /\ ~Ready(state[turn])
          /\ Unfinished(state[turn])
      BY <1>6 DEF SubmitBuy, ControlInv, OrderInv, Ready, Unfinished, ActiveAttempts
    <2>2. /\ orders' \in [OrderIds -> OrderRecords]
          /\ orders'[nextId].owner = turn /\ orders'[nextId].sells = 0
          /\ orders'[nextId].oco = "NONE"
          /\ \A other \in OrderIds \ {nextId} : orders'[other] = orders[other]
      <3>1. /\ Bought(turn, candle) \in OrderRecords
            /\ Bought(turn, candle).sells = 0
            /\ Bought(turn, candle).oco = "NONE"
            /\ Bought(turn, candle).owner = turn
        BY <1>2, NewOrder
      <3>2. QED
        BY <1>6, <2>1, <3>1, OneOrder DEF SubmitBuy
    <2>3. /\ pc' \in {"confirm", "uncertain"} /\ hold' = nextId
          /\ nextId' = nextId + 1
          /\ turn' = turn /\ candle' = candle /\ job' = job
      BY <1>6 DEF SubmitBuy
    <2>4. turn # 0 /\ nextId \in Nat /\ OrderIds \subseteq Nat
      BY <1>2, <2>1 DEF Traders, OrderIds
    <2>5. orders[nextId].owner = 0 /\ ~Tracked(positions, nextId)
      BY <2>1, <2>4 DEF OrdersAgree, OrderAgrees
    <2>6. OrdersAgree'
      <3>1. ASSUME NEW id \in OrderIds, id = nextId PROVE OrderAgrees(id)'
        BY <3>1, <1>1, <2>1, <2>2, <2>3, <2>4, <2>5
        DEF OrdersAgree, OrderAgrees, Tracked
      <3>2. ASSUME NEW id \in OrderIds \ {nextId} PROVE OrderAgrees(id)'
        <4>1. OrderAgrees(id) /\ orders'[id] = orders[id] /\ id \in Nat
          BY <2>2, <2>4 DEF OrdersAgree
        <4>2. id >= nextId <=> id >= nextId'
          BY <2>3, <2>4, <4>1
        <4>3. QED
          BY <1>1, <4>1, <4>2 DEF OrderAgrees, Tracked
      <3>3. QED
        BY <3>1, <3>2 DEF OrdersAgree
    <2>7. \A t \in Traders :
            Owned(t)' = IF t = turn THEN Owned(t) \cup {nextId} ELSE Owned(t)
      BY <1>2, <2>1, <2>2, <2>5 DEF Owned, Traders
    <2>8. \A id : Live(id)' <=> Live(id)
      BY <1>1 DEF Live
    <2>9. OneLive'
      BY <1>2, <2>1, <2>7, <2>8 DEF OneLive, NoneLive
    <2>10. \A t \in Traders \ {turn} : Clean(t) => Clean(t)'
      <3> SUFFICES ASSUME NEW t \in Traders \ {turn}, Clean(t),
                          NEW id \in Owned(t)
                   PROVE  /\ Tracked(positions, id)'
                          /\ (Unresolved(positions, id)' /\ orders'[id].sells > 0)
                               => orders'[id].oco = "FILLED"
        BY <2>7 DEF Clean
      <3>1. id \in OrderIds \ {nextId}
        BY <2>1, <2>5 DEF Owned, Traders
      <3>2. QED
        BY <1>1, <2>2, <3>1 DEF Clean, Tracked, Unresolved
    <2>11. BooksAgree'
      BY <1>1, <2>1, <2>10 DEF BooksAgree, Blocked
    <2>12. ControlInv'
      BY <1>1, <2>1, <2>2, <2>3, <2>5
      DEF ControlInv, ReadyInv, GuardInv, DecisionInv, OrderInv, Tracked
    <2>13. TypeOK'
      BY <1>1, <1>2, <2>1, <2>2, <2>3, ConstantsAssumption DEF TypeOK, Steps, OrderIds
    <2>14. QED
      BY <2>6, <2>9, <2>11, <2>12, <2>13
  <1>7. QED
    BY <1>4, <1>5, <1>6

(***************************************************************************)
(* The theorems.                                                           *)
(***************************************************************************)
\* IInv holds initially and every step keeps it.
THEOREM Invariance == Spec => []IInv
  <1>1. IInv /\ [Next]_vars => IInv'
    BY QuietSteps, StateSteps, DecisionSteps, PositionSteps, ListSteps,
       ExchangeSteps
    DEF Next, Process, Environment
  <1>2. QED
    BY Initial, <1>1, PTL DEF Spec

\* Every file, counter and local variable stays in its type.
THEOREM TypeCorrect == Spec => []TypeOK
  <1>1. IInv => TypeOK
    BY DEF IInv
  <1>2. QED
    BY Invariance, <1>1, PTL

\* Coins bought by the automation are never lost track of by a trader that
\* can still trade (engine.run_once with assert_ready).
THEOREM NothingLost == Spec => []TrackedOrBlocked
  <1>1. IInv => TrackedOrBlocked
    BY DEF IInv, TrackedOrBlocked, BooksAgree, Clean, Exposed, Owned,
           OrdersAgree, OrderAgrees, Tracked, Unresolved, UnresolvedStatuses
  <1>2. QED
    BY Invariance, <1>1, PTL

\* Software exit and protective order list never both sell one entry.
THEOREM SoldOnce == Spec => []NeverSoldTwice
  <1>1. IInv => NeverSoldTwice
    BY DEF IInv, NeverSoldTwice, OrdersAgree, OrderAgrees
  <1>2. QED
    BY Invariance, <1>1, PTL

\* The position file never claims sold coins for a trader that can trade,
\* and a CLOSED record stands for coins that are gone.
THEOREM BooksTrue == Spec => []BooksTellTheTruth
  <1>1. IInv => BooksTellTheTruth
    BY DEF IInv, BooksTellTheTruth, BooksAgree, Clean, Owned, OrdersAgree, OrderAgrees
  <1>2. QED
    BY Invariance, <1>1, PTL

\* A trader holds the coins of one BUY at most (add_long_position alone does
\* not ensure it: it sees tracked entries only).
THEOREM OneExposure == Spec => []OneExposurePerTrader
  <1>1. ASSUME IInv, NEW t \in Traders PROVE Cardinality(Exposed(t)) <= 1
    <2>1. \A id \in Exposed(t) : id \in Owned(t) /\ Live(id)
      BY <1>1
      DEF IInv, OrdersAgree, OrderAgrees, Exposed, Owned, Live, Tracked,
          Unresolved, UnresolvedStatuses
    <2>2. \A i, j \in Exposed(t) : i = j
      BY <1>1, <2>1 DEF IInv, OneLive
    <2>3. CASE Exposed(t) = {}
      BY <2>3, FS_EmptySet
    <2>4. CASE Exposed(t) # {}
      <3>1. PICK id : Exposed(t) = {id}
        BY <2>2, <2>4
      <3>2. QED
        BY <3>1, FS_Singleton
    <2>5. QED
      BY <2>3, <2>4
  <1>2. IInv => OneExposurePerTrader
    BY <1>1 DEF OneExposurePerTrader
  <1>3. QED
    BY Invariance, <1>2, PTL

\* No order of the engine reaches the exchange without its attempt on disk.
THEOREM Journaled == Spec => JournaledBeforeSubmit
  <1>1. ASSUME IInv, [Next]_vars, NEW id \in OrderIds, Submitted(id)
        PROVE  InJournal(id)
    <2>1. orders'[id] # orders[id] /\ orders[id] \in OrderRecords
      BY <1>1 DEF IInv, TypeOK, OrderRecords, Submitted
    <2>2. \/ PlaceOco \/ SubmitBuy \/ SubmitSell
          \/ \E other \in OrderIds : OcoFills(other) \/ OcoCanceled(other)
      BY <1>1, <2>1
      DEF Next, Process, Environment, Start, Sweep, Check, Fetch, Protect,
          GuardRaises, Unwind, HaltTrader, LivePrice, WaitNextCandle, DecideHeld,
          DecideFlat, ExitPosition, MarkCandle, Begin, SubmitFails, Confirm,
          Uncertain, RecordEntry, RecordExit, Snapshot, Finalize, ReadFails,
          WriteFails, Crash, CandleCloses, exchange, vars
    <2>3. CASE SubmitBuy \/ SubmitSell
      <3>1. /\ state[turn].attempt = "SUBMITTING" /\ ~state[turn].halted
            /\ job = "BUY" \/ (job = "SELL" /\ Sellable)
        BY <1>1, <2>3 DEF IInv, ControlInv, OrderInv, SubmitBuy, SubmitSell
      <3>2. orders'[id].owner = turn
        <4>1. CASE SubmitBuy
          <5>1. Bought(turn, candle).owner = turn
            BY <1>1, NewOrder DEF IInv, TypeOK
          <5>2. id = nextId
            BY <1>1, <2>1, <4>1 DEF SubmitBuy, IInv, TypeOK
          <5>3. QED
            BY <1>1, <4>1, <5>1, <5>2 DEF SubmitBuy, IInv, TypeOK
        <4>2. CASE SubmitSell
          <5>1. Sellable
            BY <3>1, <4>2 DEF SubmitSell
          <5>2. Sold(orders[hold]).owner = turn
            BY <1>1, <5>1, OrderUpdates, "NONE" \in OcoStates
            DEF IInv, TypeOK, OcoStates, Sellable, Holding
          <5>3. id = hold
            BY <1>1, <2>1, <4>2 DEF SubmitSell, IInv, TypeOK
          <5>4. QED
            BY <1>1, <4>2, <5>2, <5>3 DEF SubmitSell, IInv, TypeOK
        <4>3. QED
          BY <2>3, <4>1, <4>2
      <3>3. QED
        BY <3>1, <3>2 DEF InJournal
    <2>4. CASE PlaceOco
      <3>1. Sellable /\ turn \in Traders
        BY <1>1, <2>4 DEF PlaceOco, IInv, ControlInv, GuardInv, TypeOK
      <3>2. /\ WithOco(orders[hold], "ACTIVE").sells = orders[hold].sells
            /\ WithOco(orders[hold], "ACTIVE").owner = orders[hold].owner
        BY <1>1, <3>1, OrderUpdates
        DEF OcoStates, IInv, TypeOK, Sellable, Holding
      <3>3. /\ orders'[id].sells = orders[id].sells
            /\ orders'[id].owner = orders[id].owner
        BY <1>1, <2>4, <3>1, <3>2 DEF PlaceOco, IInv, TypeOK, Sellable, Holding
      <3>4. QED
        BY <1>1, <2>1, <3>3 DEF OrderRecords, Submitted
    <2>5. CASE \E other \in OrderIds : OcoFills(other) \/ OcoCanceled(other)
      <3>1. PICK other \in OrderIds : OcoFills(other) \/ OcoCanceled(other)
        BY <2>5
      <3>2. ASSUME NEW order \in OrderRecords, NEW oco \in OcoStates
            PROVE  /\ WithOco(order, oco).oco = oco
                   /\ WithOco(order, oco).owner = order.owner
                   /\ Sold(order) \in OrderRecords
                   /\ Sold(order).owner = order.owner
        BY <1>1, OrderUpdates DEF IInv, TypeOK
      <3>3. /\ orders'[id].owner = orders[id].owner
            /\ id = other => orders'[id].oco # orders[id].oco
            /\ id # other => orders'[id] = orders[id]
        BY <1>1, <3>1, <3>2 DEF OcoFills, OcoCanceled, IInv, TypeOK, OcoStates
      <3>4. QED
        BY <1>1, <2>1, <3>3 DEF OrderRecords, Submitted
    <2>6. QED
      BY <2>2, <2>3, <2>4, <2>5
  <1>2. IInv /\ [Next]_vars =>
          [\A id \in OrderIds : Submitted(id) => InJournal(id)]_vars
    BY <1>1
  <1>3. QED
    BY Invariance, <1>2, PTL DEF Spec, JournaledBeforeSubmit

\* No decision about a guarded position before it has, or had, an order list:
\* run_once comes to the price or the strategy only through the guard, and
\* what happens in between never takes the list out of the history.
THEOREM ProtectedFirst == Spec => []ProtectedBeforeDecision
  <1>1. Init => ProtectedBeforeDecision
    BY DEF Init, ProtectedBeforeDecision
  <1>2. IInv /\ ProtectedBeforeDecision /\ [Next]_vars => ProtectedBeforeDecision'
    <2>1. SUFFICES ASSUME IInv, ProtectedBeforeDecision, [Next]_vars,
                          pc' \in {"price", "decide"}, turn' \in Guarded, hold' # 0
                   PROVE  orders'[hold'].oco # "NONE"
      BY DEF ProtectedBeforeDecision
    <2>2. \/ Fetch \/ Protect \/ PlaceOco \/ LivePrice \/ CandleCloses
          \/ \E id \in OrderIds : OcoFills(id) \/ OcoCanceled(id)
          \/ UNCHANGED vars
      BY <2>1
      DEF Next, Process, Environment, Start, Sweep, Check, GuardRaises, Unwind,
          HaltTrader, WaitNextCandle, DecideHeld, DecideFlat, ExitPosition,
          MarkCandle, Begin, SubmitBuy, SubmitSell, SubmitFails, Confirm, Uncertain,
          RecordEntry, RecordExit, Snapshot, Finalize, ReadFails, WriteFails, Crash,
          Goto, GuardFailed, EndTurn, Die
    <2>3. CASE Fetch
      <3>1. turn' = turn /\ turn \in Fixed
        BY <2>1, <2>3, ConstantsAssumption DEF Fetch
      <3>2. QED
        BY <2>1, <2>3, <3>1 DEF Fetch
    <2>4. CASE Protect
      <3>1. IsProtected(hold) /\ hold' = hold /\ UNCHANGED exchange
        BY <2>1, <2>4 DEF Protect, Goto, GuardFailed, local
      <3>2. QED
        BY <3>1 DEF IsProtected, exchange
    <2>5. CASE PlaceOco
      <3>1. Sellable /\ hold' = hold
        BY <2>1, <2>5 DEF PlaceOco, Goto, GuardFailed, local, IInv, ControlInv, GuardInv
      <3>2. WithOco(orders[hold], "ACTIVE").oco = "ACTIVE" /\ hold \in OrderIds
        BY <2>1, <3>1, OrderUpdates DEF OcoStates, IInv, TypeOK, Sellable, Holding
      <3>3. QED
        BY <2>1, <2>5, <3>1, <3>2 DEF PlaceOco, IInv, TypeOK
    <2>6. CASE LivePrice \/ CandleCloses \/ UNCHANGED vars
      <3>1. orders' = orders /\ hold' = hold /\ turn' = turn /\ pc \in {"price", "decide"}
        BY <2>1, <2>6 DEF LivePrice, CandleCloses, Goto, local, vars, exchange
      <3>2. QED
        BY <2>1, <3>1 DEF ProtectedBeforeDecision
    <2>7. CASE \E id \in OrderIds : OcoFills(id) \/ OcoCanceled(id)
      <3>1. PICK id \in OrderIds : OcoFills(id) \/ OcoCanceled(id)
        BY <2>7
      <3>2. pc' = pc /\ hold' = hold /\ turn' = turn
        BY <3>1 DEF OcoFills, OcoCanceled, local
      <3>3. orders[hold].oco # "NONE" /\ hold \in OrderIds
        BY <2>1, <3>2 DEF ProtectedBeforeDecision, IInv, TypeOK
      <3>4. ASSUME NEW order \in OrderRecords, NEW oco \in OcoStates
            PROVE  WithOco(order, oco).oco = oco /\ Sold(order) \in OrderRecords
        BY <2>1, OrderUpdates DEF IInv, TypeOK
      <3>5. orders'[id].oco \in {"FILLED", "CANCELED"}
        BY <2>1, <3>1, <3>4 DEF OcoFills, OcoCanceled, IInv, TypeOK, OcoStates
      <3>6. hold # id => orders'[hold] = orders[hold]
        BY <2>1, <3>1, <3>3 DEF OcoFills, OcoCanceled, IInv, TypeOK
      <3>7. QED
        BY <3>2, <3>3, <3>5, <3>6
    <2>8. QED
      BY <2>2, <2>3, <2>4, <2>5, <2>6, <2>7
  <1>3. QED
    BY Invariance, <1>1, <1>2, PTL DEF Spec

(***************************************************************************)
(* SpotAutoTrader implements FailClosedTrader.  Under IInv a trader has at *)
(* most one live entry, so what the mapping makes of its orders and        *)
(* positions is read off that entry (LiveEntry, NoEntry); every step then  *)
(* moves one trader by one abstract action or none.                        *)
(***************************************************************************)
Same(t) ==
  /\ ModeOf(t)' = ModeOf(t)
  /\ ExposureOf(t)' = ExposureOf(t)
  /\ TrackedOf(t)' = TrackedOf(t)

Matches(t) == TrackedOf(t) = (ExposureOf(t) # "flat")

\* The abstract actions on the mapped values of one trader.
Moves(t) ==
  \/ Same(t)
  \/ /\ ModeOf(t) = "ready" /\ ModeOf(t)' = "busy" /\ Matches(t)
     /\ ExposureOf(t)' = ExposureOf(t) /\ TrackedOf(t)' = TrackedOf(t)
  \/ /\ ModeOf(t) = "busy" /\ ExposureOf(t) = "flat" /\ TrackedOf(t) = FALSE
     /\ ExposureOf(t)' = "held"
     /\ ModeOf(t)' = ModeOf(t) /\ TrackedOf(t)' = TrackedOf(t)
  \/ /\ ModeOf(t) = "busy" /\ ExposureOf(t) = "held" /\ TrackedOf(t) = TRUE
     /\ ExposureOf(t)' = "flat"
     /\ ModeOf(t)' = ModeOf(t) /\ TrackedOf(t)' = TrackedOf(t)
  \/ /\ ModeOf(t) = "busy" /\ ~Matches(t)
     /\ TrackedOf(t)' = ~TrackedOf(t)
     /\ ModeOf(t)' = ModeOf(t) /\ ExposureOf(t)' = ExposureOf(t)
  \/ /\ ModeOf(t) = "busy" /\ ModeOf(t)' = "ready" /\ Matches(t)
     /\ ExposureOf(t)' = ExposureOf(t) /\ TrackedOf(t)' = TrackedOf(t)
  \/ /\ ModeOf(t) # "blocked" /\ ModeOf(t)' = "blocked"
     /\ ExposureOf(t)' = ExposureOf(t) /\ TrackedOf(t)' = TrackedOf(t)
  \/ /\ ExposureOf(t) = "held" /\ TrackedOf(t) = TRUE
     /\ ExposureOf(t)' = "exited"
     /\ ModeOf(t)' = ModeOf(t) /\ TrackedOf(t)' = TrackedOf(t)
  \/ /\ ModeOf(t) # "blocked" /\ ExposureOf(t) = "exited" /\ TrackedOf(t) = TRUE
     /\ ExposureOf(t)' = "flat" /\ TrackedOf(t)' = FALSE
     /\ ModeOf(t)' = ModeOf(t)

\* One trader moves, the others stay: an abstract step or a stutter.
LEMMA Lift ==
  ASSUME NEW a \in Traders, Moves(a), \A t \in Traders \ {a} : Same(t)
  PROVE  [FailClosed!Next]_FailClosed!vars
  <1> DEFINE m == [t \in Traders |-> ModeOf(t)]
             e == [t \in Traders |-> ExposureOf(t)]
             k == [t \in Traders |-> TrackedOf(t)]
  <1>1. /\ m' = [t \in Traders |-> ModeOf(t)']
        /\ e' = [t \in Traders |-> ExposureOf(t)']
        /\ k' = [t \in Traders |-> TrackedOf(t)']
    OBVIOUS
  <1>2. /\ m' = [m EXCEPT ![a] = ModeOf(a)']
        /\ e' = [e EXCEPT ![a] = ExposureOf(a)']
        /\ k' = [k EXCEPT ![a] = TrackedOf(a)']
    BY <1>1 DEF Same
  <1>3. /\ m[a] = ModeOf(a) /\ e[a] = ExposureOf(a) /\ k[a] = TrackedOf(a)
        /\ ModeOf(a)' = ModeOf(a) => m' = m
        /\ ExposureOf(a)' = ExposureOf(a) => e' = e
        /\ TrackedOf(a)' = TrackedOf(a) => k' = k
    BY <1>2
  <1>4. FailClosed!vars = <<m, e, k>>
    BY DEF FailClosed!vars
  <1>5. TrackedOf(a) \in BOOLEAN
    BY DEF TrackedOf
  <1>6. \/ FailClosed!Begin(a) \/ FailClosed!Enter(a) \/ FailClosed!Leave(a)
        \/ FailClosed!Record(a) \/ FailClosed!Settle(a) \/ FailClosed!Block(a)
        \/ FailClosed!ForcedExit(a) \/ FailClosed!Reconcile(a)
        \/ m' = m /\ e' = e /\ k' = k
    <2> HIDE DEF m, e, k
    <2> QED
      BY <1>2, <1>3, <1>5
      DEF m, e, k, Moves, Same, Matches, FailClosed!Begin, FailClosed!Enter,
          FailClosed!Leave, FailClosed!Record, FailClosed!Settle,
          FailClosed!Block, FailClosed!ForcedExit, FailClosed!Reconcile,
          FailClosed!Move, FailClosed!BooksMatch
  <1>7. QED
    BY <1>4, <1>6 DEF FailClosed!Next, FailClosed!vars

(***************************************************************************)
(* The mapping, read off the live entry.                                   *)
(***************************************************************************)
NoEntry(t) ==
  NoneLive(t) => ExposureOf(t) = "flat" /\ TrackedOf(t) = FALSE

LiveEntry(t) ==
  \A id \in Owned(t) :
    Live(id) =>
      /\ TrackedOf(t) = (positions[id].status = "OPEN")
      /\ ExposureOf(t) = IF orders[id].sells = 0 THEN "held"
                         ELSE IF /\ orders[id].oco = "FILLED"
                                 /\ positions[id].status = "OPEN"
                              THEN "exited" ELSE "flat"

Mapped == \A t \in Traders : NoEntry(t) /\ LiveEntry(t)

\* The invariant decides, entry by entry, which abstract holding is shown.
LEMMA MappedInv == IInv => Mapped
  <1> SUFFICES ASSUME IInv, NEW t \in Traders PROVE NoEntry(t) /\ LiveEntry(t)
    BY DEF Mapped
  <1> USE DEF IInv
  <1>1. TrackedOf(t) <=> \E id \in Owned(t) : positions[id].status = "OPEN"
    BY DEF TrackedOf, UnresolvedPositions, Unresolved, UnresolvedStatuses, Owned,
           TypeOK, OrdersAgree, OrderAgrees, Tracked, Traders
  <1>2. TrackedOf(t) \in BOOLEAN
    BY DEF TrackedOf
  <1>3. \A id \in Owned(t) :
          /\ ~Live(id) => /\ orders[id].sells = 1 /\ positions[id].status # "OPEN"
                          /\ ~Unresolved(positions, id)
          /\ Unresolved(positions, id) <=> positions[id].status = "OPEN"
    BY DEF Live, Owned, OrdersAgree, OrderAgrees, Tracked, Unresolved,
           UnresolvedStatuses
  <1>4. NoEntry(t)
    <2> SUFFICES ASSUME NoneLive(t)
                 PROVE  ExposureOf(t) = "flat" /\ TrackedOf(t) = FALSE
      BY DEF NoEntry
    <2>1. \A id \in Owned(t) : /\ orders[id].sells = 1 /\ ~Unresolved(positions, id)
                               /\ positions[id].status # "OPEN"
      BY <1>3 DEF NoneLive
    <2>2. Exposed(t) = {}
      BY <2>1 DEF Exposed
    <2>3. QED
      BY <1>1, <1>2, <2>1, <2>2 DEF ExposureOf
  <1>5. LiveEntry(t)
    <2> SUFFICES ASSUME NEW id \in Owned(t), Live(id)
                 PROVE  /\ TrackedOf(t) = (positions[id].status = "OPEN")
                        /\ ExposureOf(t) = IF orders[id].sells = 0 THEN "held"
                                           ELSE IF /\ orders[id].oco = "FILLED"
                                                   /\ positions[id].status = "OPEN"
                                                THEN "exited" ELSE "flat"
      BY DEF LiveEntry
    <2>1. \A other \in Owned(t) :
            other # id => /\ orders[other].sells = 1
                          /\ positions[other].status # "OPEN"
                          /\ ~Unresolved(positions, other)
      BY <1>3 DEF OneLive
    <2>2. Exposed(t) = IF orders[id].sells = 0 THEN {id} ELSE {}
      BY <2>1 DEF Exposed
    <2>3. TrackedOf(t) = (positions[id].status = "OPEN")
      BY <1>1, <1>2, <2>1
    <2>4. QED
      BY <1>3, <2>1, <2>2, <2>3 DEF ExposureOf
  <1>6. QED
    BY <1>4, <1>5

\* Clean books match what the trader holds.
LEMMA CleanMatches ==
  ASSUME IInv, NEW t \in Traders, Clean(t)
  PROVE  Matches(t)
  <1> USE DEF IInv
  <1>1. NoEntry(t) /\ LiveEntry(t)
    BY MappedInv DEF Mapped
  <1>2. CASE NoneLive(t)
    BY <1>1, <1>2 DEF Matches, NoEntry
  <1>3. CASE ~NoneLive(t)
    <2>1. PICK id \in Owned(t) : Live(id)
      BY <1>3 DEF NoneLive
    <2>2. /\ positions[id].status = "OPEN"
          /\ orders[id].sells # 0 => orders[id].oco = "FILLED"
      BY <2>1 DEF Clean, Live, Owned, OrdersAgree, OrderAgrees, Unresolved,
                  UnresolvedStatuses, TypeOK, OrderRecords
    <2>3. QED
      BY <1>1, <2>1, <2>2 DEF LiveEntry, Matches
  <1>4. QED
    BY <1>2, <1>3

\* Exposure and books read nothing but orders and positions.
LEMMA SameHoldings ==
  ASSUME UNCHANGED <<positions, orders>>
  PROVE  \A t : ExposureOf(t)' = ExposureOf(t) /\ TrackedOf(t)' = TrackedOf(t)
  <1>1. \A t : Owned(t)' = Owned(t)
    BY DEF Owned
  <1>2. \A t : Exposed(t)' = Exposed(t)
    BY <1>1 DEF Exposed
  <1>3. QED
    BY <1>1, <1>2 DEF ExposureOf, TrackedOf

\* The initial files map to ready, flat and untracked traders.
LEMMA AbstractInit == Init => FailClosed!Init
  <1> SUFFICES ASSUME Init PROVE FailClosed!Init
    OBVIOUS
  <1>1. IInv
    BY Initial
  <1>2. ASSUME NEW t \in Traders
        PROVE  ModeOf(t) = "ready" /\ ExposureOf(t) = "flat" /\ TrackedOf(t) = FALSE
    <2>1. Owned(t) = {}
      BY DEF Init, Owned, Unused, OrderIds, Traders
    <2>2. NoneLive(t)
      BY <2>1 DEF NoneLive
    <2>3. ModeOf(t) = "ready"
      BY DEF Init, ModeOf, Default, Unfinished, ActiveAttempts
    <2>4. QED
      BY <1>1, <2>2, <2>3, MappedInv DEF Mapped, NoEntry
  <1>3. QED
    BY <1>2 DEF FailClosed!Init

(***************************************************************************)
(* Every step maps to an abstract step or a stutter.                       *)
(***************************************************************************)
\* A write of the state file blocks the trader, keeps its mode, starts an
\* order or settles one with clean books.
LEMMA StateMove ==
  ASSUME IInv, UNCHANGED <<positions, orders>>,
         NEW new \in States(Candles), Write(new),
         \/ new.halted
         \/ new.halted = state[turn].halted
            /\ (Unfinished(new) <=> Unfinished(state[turn]))
         \/ Clean(turn) /\ Ready(state[turn]) /\ ~new.halted /\ Unfinished(new)
         \/ Clean(turn) /\ new.halted = state[turn].halted /\ ~Unfinished(new)
  PROVE  [FailClosed!Next]_FailClosed!vars
  <1> USE DEF IInv
  <1>1. /\ turn \in Traders /\ state[turn] \in States(Candles)
        /\ \A t \in Traders : state'[t] = IF t = turn THEN new ELSE state[t]
    BY DEF TypeOK, Write
  <1>2. \A t : ExposureOf(t)' = ExposureOf(t) /\ TrackedOf(t)' = TrackedOf(t)
    BY SameHoldings
  <1>3. \A t \in Traders \ {turn} : Same(t)
    BY <1>1, <1>2 DEF Same, ModeOf
  <1>4. ASSUME NEW t, t = turn PROVE Moves(t)
    <2>1. ModeOf(t)' = IF new.halted THEN "blocked"
                       ELSE IF Unfinished(new) THEN "busy" ELSE "ready"
      BY <1>1, <1>4 DEF ModeOf
    <2>2. Clean(turn) => Matches(t)
      BY <1>1, <1>4, CleanMatches
    <2>3. ModeOf(t) = IF state[turn].halted THEN "blocked"
                      ELSE IF Unfinished(state[turn]) THEN "busy" ELSE "ready"
      BY <1>4 DEF ModeOf
    <2>4. QED
      BY <1>2, <1>4, <2>1, <2>2, <2>3 DEF Moves, Same, Ready
  <1>5. PICK a \in Traders : a = turn
    BY <1>1
  <1>6. QED
    BY <1>3, <1>4, <1>5, Lift

\* A step that keeps files and orders is a stutter.
LEMMA Stutter ==
  ASSUME IInv, UNCHANGED <<state, positions, orders>>
  PROVE  [FailClosed!Next]_FailClosed!vars
  <1>1. \A t \in Traders : Same(t)
    BY SameHoldings DEF Same, ModeOf
  <1>2. PICK a \in Traders : a = turn
    BY DEF IInv, TypeOK
  <1>3. QED
    BY <1>1, <1>2, Lift DEF Moves

\* Steps that touch neither files nor orders are stutters.
LEMMA AbstractQuiet ==
  ASSUME IInv,
         \/ Start \/ Sweep \/ ReadFails \/ WaitNextCandle \/ WriteFails \/ Crash
         \/ CandleCloses \/ UNCHANGED vars
         \/ Fetch \/ GuardRaises \/ LivePrice \/ DecideHeld \/ DecideFlat
         \/ SubmitFails \/ Snapshot
  PROVE  [FailClosed!Next]_FailClosed!vars
  <1>1. UNCHANGED <<state, positions, orders>>
    BY DEF Start, Sweep, ReadFails, WaitNextCandle, WriteFails, Crash,
           CandleCloses, vars, durable, exchange, Fetch, GuardRaises, LivePrice,
           DecideHeld, DecideFlat, SubmitFails, Snapshot
  <1>2. QED
    BY <1>1, Stutter

\* A write of a state file is Begin, Settle, Block or a stutter.
LEMMA AbstractState ==
  ASSUME IInv,
         \/ Check \/ Unwind \/ HaltTrader \/ MarkCandle \/ Begin \/ Confirm
         \/ Uncertain \/ Finalize
  PROVE  [FailClosed!Next]_FailClosed!vars
  <1> USE DEF IInv
  <1> DEFINE s == state[turn]
  <1>1. UNCHANGED <<positions, orders>>
    BY DEF Check, Unwind, HaltTrader, MarkCandle, Begin, Confirm, Uncertain,
           Finalize, exchange
  <1>2. s \in States(Candles) /\ (Ready(s) => Clean(turn))
    BY Writes DEF BooksAgree, Blocked, TypeOK
  <1>3. CASE Check
    BY <1>1, <1>2, <1>3, Writes, StateEffects, StateMove DEF Check
  <1>4. CASE HaltTrader
    BY <1>1, <1>2, <1>4, Writes, StateEffects, StateMove DEF HaltTrader
  <1>5. CASE Uncertain
    BY <1>1, <1>2, <1>5, Writes, StateEffects, StateMove DEF Uncertain
  <1>6. CASE MarkCandle
    BY <1>1, <1>2, <1>6, Writes, StateEffects, StateMove DEF MarkCandle, Unfinished
  <1>7. CASE Confirm
    BY <1>1, <1>2, <1>7, Writes, StateEffects, ReadyEffects, StateMove
    DEF Confirm, ControlInv, OrderInv
  <1>8. CASE Begin
    BY <1>1, <1>2, <1>8, Writes, StateEffects, StateMove
    DEF Begin, ControlInv, ReadyInv, Unfinished, ActiveAttempts
  <1>9. CASE Finalize
    BY <1>1, <1>2, <1>9, Writes, StateEffects, ReadyEffects, StateMove
    DEF Finalize, ControlInv, OrderInv
  <1>10. CASE Unwind
    BY <1>1, <1>2, <1>10, Writes, StateEffects, ReadyEffects, StateMove
    DEF Unwind, ControlInv, OrderInv
  <1>11. QED
    BY <1>3, <1>4, <1>5, <1>6, <1>7, <1>8, <1>9, <1>10

\* A step on one live entry of trader a, with the state files as they are.
LEMMA EntryMove ==
  ASSUME IInv, IInv', state' = state, NEW a \in Traders,
         \A t \in Traders \ {a} : ExposureOf(t)' = ExposureOf(t)
                               /\ TrackedOf(t)' = TrackedOf(t),
         ModeOf(a)' = ModeOf(a) => Moves(a)
  PROVE  [FailClosed!Next]_FailClosed!vars
  <1>1. \A t \in Traders : ModeOf(t)' = ModeOf(t)
    BY DEF ModeOf
  <1>2. \A t \in Traders \ {a} : Same(t)
    BY <1>1 DEF Same
  <1>3. QED
    BY <1>1, <1>2, Lift

\* A trader whose orders and positions are left alone holds what it held.
LEMMA Untouched ==
  ASSUME IInv, IInv', NEW t \in Traders, Owned(t)' = Owned(t),
         \A id \in Owned(t) : orders'[id] = orders[id] /\ positions'[id] = positions[id]
  PROVE  ExposureOf(t)' = ExposureOf(t) /\ TrackedOf(t)' = TrackedOf(t)
  <1>1. Mapped /\ Mapped'
    <2>1. IInv' => Mapped'
      BY MappedInv, PTL
    <2>2. QED
      BY <2>1, MappedInv
  <1>2. \A id \in Owned(t) : Live(id)' <=> Live(id)
    BY DEF Live, Tracked, Unresolved
  <1>3. CASE NoneLive(t)
    <2>1. NoneLive(t)'
      BY <1>2, <1>3 DEF NoneLive
    <2>2. QED
      BY <1>1, <1>3, <2>1 DEF Mapped, NoEntry
  <1>4. CASE ~NoneLive(t)
    <2>1. PICK id \in Owned(t) : Live(id)
      BY <1>4 DEF NoneLive
    <2>2. id \in Owned(t)' /\ Live(id)'
      BY <1>2, <2>1
    <2>3. QED
      BY <1>1, <2>1, <2>2 DEF Mapped, LiveEntry
  <1>5. QED
    BY <1>3, <1>4

\* Only entry id, of trader a, changes: what a holds before and after.
LEMMA OneEntry ==
  ASSUME IInv, IInv', state' = state, NEW a \in Traders, NEW id \in OrderIds,
         orders'[id].owner = a, orders[id].owner \in {0, a},
         \A other \in OrderIds \ {id} :
           orders'[other] = orders[other] /\ positions'[other] = positions[other],
         ModeOf(a)' = ModeOf(a) => Moves(a)
  PROVE  [FailClosed!Next]_FailClosed!vars
  <1>1. ASSUME NEW t \in Traders \ {a}
        PROVE  ExposureOf(t)' = ExposureOf(t) /\ TrackedOf(t)' = TrackedOf(t)
    <2>1. Owned(t)' = Owned(t) /\ \A other \in Owned(t) : other \in OrderIds \ {id}
      BY <1>1 DEF Owned, Traders
    <2>2. QED
      BY <1>1, <2>1, Untouched
  <1>2. QED
    BY <1>1, EntryMove

\* The entry as the mapping sees it, in both states of a step.
LEMMA EntryValues ==
  ASSUME IInv, IInv', NEW a \in Traders, NEW id \in OrderIds
  PROVE  /\ orders[id].owner = a /\ Live(id) =>
              /\ TrackedOf(a) = (positions[id].status = "OPEN")
              /\ ExposureOf(a) = IF orders[id].sells = 0 THEN "held"
                                 ELSE IF /\ orders[id].oco = "FILLED"
                                         /\ positions[id].status = "OPEN"
                                      THEN "exited" ELSE "flat"
         /\ orders'[id].owner = a /\ Live(id)' =>
              /\ TrackedOf(a)' = (positions'[id].status = "OPEN")
              /\ ExposureOf(a)' = IF orders'[id].sells = 0 THEN "held"
                                  ELSE IF /\ orders'[id].oco = "FILLED"
                                          /\ positions'[id].status = "OPEN"
                                       THEN "exited" ELSE "flat"
         /\ NoneLive(a) => ExposureOf(a) = "flat" /\ TrackedOf(a) = FALSE
         /\ NoneLive(a)' => ExposureOf(a)' = "flat" /\ TrackedOf(a)' = FALSE
  <1>1. Mapped /\ Mapped'
    <2>1. IInv' => Mapped'
      BY MappedInv, PTL
    <2>2. QED
      BY <2>1, MappedInv
  <1>2. /\ orders[id].owner = a => id \in Owned(a)
        /\ orders'[id].owner = a => id \in Owned(a)'
    BY DEF Owned
  <1>3. QED
    BY <1>1, <1>2 DEF Mapped, NoEntry, LiveEntry

\* After the entry at hand is closed its trader holds nothing.
LEMMA ClosedEntry ==
  ASSUME IInv, IInv', Holding, orders' = orders, NEW a \in Traders, a = turn,
         NEW exit \in ExitKinds, positions' = MarkClosed(positions, hold, exit)
  PROVE  /\ ExposureOf(a)' = "flat" /\ TrackedOf(a)' = FALSE
         /\ \A other \in OrderIds \ {hold} : positions'[other] = positions[other]
  <1> USE DEF IInv
  <1>1. /\ \A other \in OrderIds \ {hold} : positions'[other] = positions[other]
        /\ positions'[hold].status = "CLOSED"
    BY MarkClosedEffect DEF TypeOK, Holding
  <1>2. Owned(a)' = Owned(a) /\ Owned(a) \subseteq OrderIds /\ hold \in Owned(a)
    BY DEF Owned, Holding
  <1>3. \A id \in Owned(a) : id # hold => ~Live(id)
    BY <1>2 DEF OneLive, Holding, Live, Unresolved, UnresolvedStatuses
  <1>4. NoneLive(a)'
    BY <1>1, <1>2, <1>3
    DEF NoneLive, Live, Tracked, Unresolved, UnresolvedStatuses
  <1>5. QED
    BY <1>1, <1>4, EntryValues DEF Holding

\* A write of the position file is Record, Reconcile or a stutter.
LEMMA AbstractPosition ==
  ASSUME IInv, Protect \/ ExitPosition \/ RecordEntry \/ RecordExit
  PROVE  [FailClosed!Next]_FailClosed!vars
  <1>1. IInv'
    BY PositionSteps
  <1> USE DEF IInv
  <1>2. state' = state /\ orders' = orders
    BY DEF Protect, ExitPosition, RecordEntry, RecordExit, exchange
  <1>3. PICK a \in Traders : a = turn
    BY DEF TypeOK
  <1>4. ASSUME Holding, ExitToRecord(hold), ~state[turn].halted,
               positions' = MarkClosed(positions, hold, "PROTECTIVE")
        PROVE  [FailClosed!Next]_FailClosed!vars
    <2>1. /\ orders[hold].owner = a /\ orders'[hold].owner = a /\ hold \in OrderIds
          /\ Live(hold) /\ positions[hold].status = "OPEN"
          /\ orders[hold].oco = "FILLED" /\ orders[hold].sells = 1
      BY <1>2, <1>3, <1>4 DEF Holding, Live, Unresolved, UnresolvedStatuses,
                              ExitToRecord, OrdersAgree, OrderAgrees
    <2>2. ExposureOf(a) = "exited" /\ TrackedOf(a) = TRUE
      <3>1. PICK id \in OrderIds : id = hold
        BY <2>1
      <3>2. /\ TrackedOf(a) = (positions[id].status = "OPEN")
            /\ ExposureOf(a) = IF orders[id].sells = 0 THEN "held"
                               ELSE IF /\ orders[id].oco = "FILLED"
                                       /\ positions[id].status = "OPEN"
                                    THEN "exited" ELSE "flat"
        BY <1>1, <2>1, <3>1, EntryValues
      <3>3. (positions[hold].status = "OPEN") = TRUE
        BY <2>1, Zenon
      <3>4. TrackedOf(a) = TRUE
        BY <3>1, <3>2, <3>3, Zenon
      <3>5. QED
        BY <2>1, <3>1, <3>2, <3>4
    <2>3. /\ ExposureOf(a)' = "flat" /\ TrackedOf(a)' = FALSE
          /\ \A other \in OrderIds \ {hold} : positions'[other] = positions[other]
      BY <1>1, <1>2, <1>3, <1>4, ClosedEntry DEF ExitKinds
    <2>4. ModeOf(a) # "blocked"
      BY <1>3, <1>4 DEF ModeOf
    <2>5. ModeOf(a)' = ModeOf(a) => Moves(a)
      BY <2>2, <2>3, <2>4 DEF Moves
    <2>6. QED
      BY <1>1, <1>2, <2>1, <2>3, <2>5, OneEntry
  <1>5. CASE Protect
    <2>1. Holding /\ ~state[turn].halted
      BY <1>5 DEF Protect, ControlInv, GuardInv
    <2>2. CASE ExitToRecord(hold)
      BY <1>4, <1>5, <2>1, <2>2 DEF Protect, Reconciled, Holding
    <2>3. CASE ~ExitToRecord(hold)
      <3>1. positions' = positions
        BY <1>5, <2>1, <2>3 DEF Protect, Reconciled, Holding
      <3>2. QED
        BY <1>2, <3>1, Stutter
    <2>4. QED
      BY <2>2, <2>3
  <1>6. CASE ExitPosition
    <2>1. Holding /\ ~state[turn].halted
      BY <1>6 DEF ExitPosition, ControlInv, DecisionInv, ReadyInv, Ready
    <2>2. positions' = positions \/
            (ExitToRecord(hold) /\ positions' = MarkClosed(positions, hold, "PROTECTIVE"))
      BY <1>6 DEF ExitPosition, Reconciled
    <2>3. QED
      BY <1>2, <1>4, <2>1, <2>2, Stutter
  <1>7. CASE RecordEntry
    <2>1. /\ pc = "record" /\ job = "BUY" /\ hold \in OrderIds
          /\ orders[hold].owner = a /\ ~Tracked(positions, hold)
          /\ Unfinished(state[turn]) /\ ~state[turn].halted
          /\ orders[hold].sells = 0
      BY <1>3, <1>7 DEF RecordEntry, ControlInv, OrderInv, OrdersAgree, OrderAgrees
    <2>2. /\ \A other \in OrderIds \ {hold} : positions'[other] = positions[other]
          /\ AddRefused(positions, hold, turn) => positions' = positions
          /\ ~AddRefused(positions, hold, turn) => positions'[hold].status = "OPEN"
      BY <1>3, <1>7, <2>1, AddPositionEffect DEF RecordEntry, TypeOK
    <2>3. CASE AddRefused(positions, hold, turn)
      BY <1>2, <2>2, <2>3, Stutter
    <2>4. CASE ~AddRefused(positions, hold, turn)
      <3>1. ExposureOf(a) = "held" /\ TrackedOf(a) = FALSE
        BY <1>1, <2>1, EntryValues DEF Live, Tracked
      <3>2. ExposureOf(a)' = "held" /\ TrackedOf(a)' = TRUE
        <4>1. ASSUME NEW id \in OrderIds, id = hold
              PROVE  ExposureOf(a)' = "held" /\ TrackedOf(a)' = TRUE
          <5>1. Live(id)'
            BY <2>2, <2>4, <4>1 DEF Live, Unresolved, UnresolvedStatuses
          <5>2. QED
            BY <1>1, <1>2, <2>1, <2>2, <2>4, <4>1, <5>1, EntryValues
        <4>2. QED
          BY <2>1, <4>1
      <3>3. ModeOf(a) = "busy"
        BY <1>3, <2>1 DEF ModeOf
      <3>4. ModeOf(a)' = ModeOf(a) => Moves(a)
        BY <3>1, <3>2, <3>3 DEF Moves, Matches
      <3>5. QED
        BY <1>1, <1>2, <2>1, <2>2, <3>4, OneEntry
    <2>5. QED
      BY <2>3, <2>4
  <1>8. CASE RecordExit
    <2>1. /\ pc = "record" /\ job = "SELL" /\ Holding /\ hold \in OrderIds
          /\ orders[hold].owner = a /\ positions[hold].status = "OPEN"
          /\ Unfinished(state[turn]) /\ ~state[turn].halted
          /\ orders[hold].sells = 1 /\ orders[hold].oco = "NONE"
      BY <1>3, <1>8 DEF RecordExit, ControlInv, OrderInv, Holding
    <2>2. ExposureOf(a) = "flat" /\ TrackedOf(a) = TRUE
      <3>1. PICK id \in OrderIds : id = hold
        BY <2>1
      <3>2. Live(hold)
        BY <2>1 DEF Live, Unresolved, UnresolvedStatuses
      <3>3. /\ TrackedOf(a) = (positions[id].status = "OPEN")
            /\ ExposureOf(a) = IF orders[id].sells = 0 THEN "held"
                               ELSE IF /\ orders[id].oco = "FILLED"
                                       /\ positions[id].status = "OPEN"
                                    THEN "exited" ELSE "flat"
        BY <1>1, <2>1, <3>1, <3>2, EntryValues
      <3>4. (positions[hold].status = "OPEN") = TRUE
        BY <2>1, Zenon
      <3>5. TrackedOf(a) = TRUE
        BY <3>1, <3>3, <3>4, Zenon
      <3>6. QED
        BY <2>1, <3>1, <3>3, <3>5
    <2>3. /\ ExposureOf(a)' = "flat" /\ TrackedOf(a)' = FALSE
          /\ \A other \in OrderIds \ {hold} : positions'[other] = positions[other]
      BY <1>1, <1>2, <1>3, <1>8, <2>1, ClosedEntry DEF ExitKinds, RecordExit
    <2>4. ModeOf(a) = "busy"
      BY <1>3, <2>1 DEF ModeOf
    <2>5. ModeOf(a)' = ModeOf(a) => Moves(a)
      BY <2>2, <2>3, <2>4 DEF Moves, Matches
    <2>6. QED
      BY <1>1, <1>2, <2>1, <2>3, <2>5, OneEntry
  <1>9. QED
    BY <1>5, <1>6, <1>7, <1>8

\* An order of one entry changes, the position file does not.
LEMMA OrderMove ==
  ASSUME IInv, IInv', UNCHANGED <<state, positions>>, NEW id \in OrderIds,
         NEW order \in OrderRecords, orders' = [orders EXCEPT ![id] = order],
         NEW a \in Traders, order.owner = a, orders[id].owner \in {0, a},
         Live(id), orders[id].owner = 0 => NoneLive(a),
         \/ /\ orders[id].owner = a /\ order.sells = orders[id].sells
            /\ orders[id].sells = 0
         \/ /\ orders[id].owner = a /\ orders[id].sells = 0 /\ order.sells = 1
            /\ order.oco = "FILLED" /\ positions[id].status = "OPEN"
         \/ /\ orders[id].owner = a /\ orders[id].sells = 0 /\ order.sells = 1
            /\ order.oco = "NONE" /\ positions[id].status = "OPEN"
            /\ Unfinished(state[a]) /\ ~state[a].halted
         \/ /\ orders[id].owner = 0 /\ order.sells = 0
            /\ ~Tracked(positions, id) /\ Unfinished(state[a]) /\ ~state[a].halted
  PROVE  [FailClosed!Next]_FailClosed!vars
  <1>1. /\ orders'[id] = order
        /\ \A other \in OrderIds \ {id} : orders'[other] = orders[other]
    BY OneOrder DEF IInv
  <1>2. Live(id)' /\ positions'[id] = positions[id]
    BY DEF Live, Tracked, Unresolved
  <1>3. /\ TrackedOf(a)' = (positions[id].status = "OPEN")
        /\ ExposureOf(a)' = IF order.sells = 0 THEN "held"
                            ELSE IF order.oco = "FILLED" /\ positions[id].status = "OPEN"
                                 THEN "exited" ELSE "flat"
    <2>1. /\ TrackedOf(a)' = (positions'[id].status = "OPEN")
          /\ ExposureOf(a)' = IF orders'[id].sells = 0 THEN "held"
                              ELSE IF /\ orders'[id].oco = "FILLED"
                                      /\ positions'[id].status = "OPEN"
                                   THEN "exited" ELSE "flat"
      BY <1>1, <1>2, EntryValues
    <2>2. TrackedOf(a)' = (positions[id].status = "OPEN")
      BY <1>2, <2>1, Zenon
    <2>3. QED
      BY <1>1, <1>2, <2>1, <2>2
  <1>4. orders[id].owner = a =>
          /\ TrackedOf(a) = (positions[id].status = "OPEN")
          /\ ExposureOf(a) = IF orders[id].sells = 0 THEN "held"
                             ELSE IF /\ orders[id].oco = "FILLED"
                                     /\ positions[id].status = "OPEN"
                                  THEN "exited" ELSE "flat"
    BY EntryValues
  <1>5. positions[id].status = "OPEN" => (positions[id].status = "OPEN") = TRUE
    BY Zenon
  <1>6. orders[id].owner = a /\ positions[id].status = "OPEN" => TrackedOf(a) = TRUE
    BY <1>4, <1>5, Zenon
  <1>7. ~Tracked(positions, id) => (positions[id].status = "OPEN") = FALSE
    <2>1. ~Tracked(positions, id) => positions[id].status # "OPEN"
      BY DEF Tracked
    <2>2. QED
      BY <2>1, Zenon
  <1>8. ~Tracked(positions, id) => TrackedOf(a)' = FALSE
    BY <1>3, <1>7, Zenon
  <1>9. Unfinished(state[a]) /\ ~state[a].halted => ModeOf(a) = "busy"
    BY DEF ModeOf
  <1>10. orders[id].owner = 0 => ExposureOf(a) = "flat" /\ TrackedOf(a) = FALSE
    BY EntryValues
  <1>11. ASSUME ModeOf(a)' = ModeOf(a) PROVE Moves(a)
    <2>1. CASE orders[id].owner = a /\ order.sells = orders[id].sells
               /\ orders[id].sells = 0
      <3>1. TrackedOf(a)' = TrackedOf(a)
        BY <1>3, <1>4, <2>1, Zenon
      <3>2. ExposureOf(a)' = ExposureOf(a)
        BY <1>3, <1>4, <2>1
      <3>3. QED
        BY <1>11, <3>1, <3>2 DEF Moves, Same
    <2>2. CASE orders[id].owner = a /\ orders[id].sells = 0 /\ order.sells = 1
               /\ positions[id].status = "OPEN"
      <3>1. TrackedOf(a) = TRUE /\ TrackedOf(a)' = TrackedOf(a)
        BY <1>3, <1>4, <1>6, <2>2, Zenon
      <3>2. /\ ExposureOf(a) = "held"
            /\ ExposureOf(a)' = IF order.oco = "FILLED" THEN "exited" ELSE "flat"
        BY <1>3, <1>4, <2>2
      <3>3. order.oco = "FILLED" \/ ModeOf(a) = "busy"
        BY <1>9, <2>2, ConstantsAssumption DEF Traders
      <3>4. QED
        BY <1>11, <3>1, <3>2, <3>3 DEF Moves
    <2>3. CASE orders[id].owner = 0 /\ order.sells = 0 /\ ~Tracked(positions, id)
               /\ Unfinished(state[a]) /\ ~state[a].halted
      BY <1>3, <1>8, <1>9, <1>10, <1>11, <2>3 DEF Moves
    <2>4. QED
      BY <2>1, <2>2, <2>3
  <1>12. QED
    BY <1>1, <1>11, OneEntry

\* An order of the process is Enter, Leave or a stutter.
LEMMA AbstractExchange ==
  ASSUME IInv, PlaceOco \/ SubmitBuy \/ SubmitSell
  PROVE  [FailClosed!Next]_FailClosed!vars
  <1>1. IInv'
    BY ExchangeSteps
  <1> USE DEF IInv
  <1>2. UNCHANGED <<state, positions>> /\ turn \in Traders
        /\ candle \in Candles \cup {0} /\ turn # 0
    BY DEF PlaceOco, SubmitBuy, SubmitSell, durable, TypeOK, Traders
  <1>3. PICK a \in Traders : a = turn
    BY <1>2
  <1>4. CASE PlaceOco
    <2>1. PICK id \in OrderIds : id = hold
      BY <1>4 DEF PlaceOco, ControlInv, GuardInv, Sellable, Holding
    <2>2. Sellable /\ Holding
      BY <1>4 DEF PlaceOco, ControlInv, GuardInv, Sellable
    <2>3. /\ orders[id].owner = a /\ orders[id].sells = 0 /\ Live(id)
          /\ orders[id] \in OrderRecords
      BY <1>3, <2>1, <2>2 DEF Sellable, Holding, Live, Unresolved,
                              UnresolvedStatuses, TypeOK
    <2>4. PICK order \in OrderRecords : order = WithOco(orders[id], "ACTIVE")
      BY <2>3, OrderUpdates DEF OcoStates
    <2>5. order.owner = a /\ order.sells = 0
      BY <2>3, <2>4, OrderUpdates DEF OcoStates
    <2>6. orders' = [orders EXCEPT ![id] = order]
      BY <1>4, <2>1, <2>4 DEF PlaceOco
    <2>7. QED
      BY <1>1, <1>2, <1>3, <2>3, <2>5, <2>6, OrderMove DEF Traders
  <1>5. CASE SubmitSell
    <2>1. /\ Sellable /\ Holding /\ Unfinished(state[turn]) /\ ~state[turn].halted
      BY <1>5 DEF SubmitSell, ControlInv, OrderInv, Sellable, Unfinished,
                  ActiveAttempts
    <2>2. PICK id \in OrderIds : id = hold
      BY <2>1 DEF Holding
    <2>3. /\ orders[id].owner = a /\ orders[id].sells = 0 /\ Live(id)
          /\ orders[id].oco = "NONE" /\ positions[id].status = "OPEN"
          /\ orders[id] \in OrderRecords
      BY <1>3, <2>1, <2>2 DEF Sellable, Holding, Live, Unresolved,
                              UnresolvedStatuses, TypeOK
    <2>4. PICK order \in OrderRecords : order = Sold(orders[id])
      BY <2>3, OrderUpdates, "NONE" \in OcoStates DEF OcoStates
    <2>5. order.owner = a /\ order.sells = 1 /\ order.oco = "NONE"
      BY <2>3, <2>4, OrderUpdates, "NONE" \in OcoStates DEF OcoStates
    <2>6. orders' = [orders EXCEPT ![id] = order]
      BY <1>5, <2>2, <2>4 DEF SubmitSell
    <2>7. QED
      BY <1>1, <1>2, <1>3, <2>1, <2>3, <2>5, <2>6, OrderMove DEF Traders
  <1>6. CASE SubmitBuy
    <2>1. /\ NoneLive(turn) /\ Unfinished(state[turn]) /\ ~state[turn].halted
      BY <1>6 DEF SubmitBuy, ControlInv, OrderInv, Unfinished, ActiveAttempts
    <2>2. PICK id \in OrderIds : id = nextId
      BY <1>6 DEF SubmitBuy
    <2>3. orders[id].owner = 0 /\ ~Tracked(positions, id) /\ Live(id)
      BY <2>2 DEF OrdersAgree, OrderAgrees, OrderIds, Live
    <2>4. PICK order \in OrderRecords : order = Bought(turn, candle)
      BY <1>2, NewOrder
    <2>5. order.owner = a /\ order.sells = 0
      BY <1>2, <1>3, <2>4, NewOrder
    <2>6. orders' = [orders EXCEPT ![id] = order]
      BY <1>6, <2>2, <2>4 DEF SubmitBuy
    <2>7. QED
      BY <1>1, <1>2, <1>3, <2>1, <2>3, <2>5, <2>6, OrderMove DEF Traders
  <1>7. QED
    BY <1>4, <1>5, <1>6

\* A filled list is ForcedExit; a canceled one is a stutter.
LEMMA AbstractList ==
  ASSUME IInv, NEW id \in OrderIds, OcoFills(id) \/ OcoCanceled(id)
  PROVE  [FailClosed!Next]_FailClosed!vars
  <1>1. IInv'
    BY ListSteps
  <1> USE DEF IInv
  <1>2. UNCHANGED <<state, positions>> /\ orders[id].oco = "ACTIVE"
    BY DEF OcoFills, OcoCanceled, durable
  <1>3. /\ orders[id].sells = 0 /\ positions[id].status = "OPEN"
        /\ orders[id].owner \in Traders \ {0} /\ orders[id] \in OrderRecords
        /\ Live(id)
    BY <1>2, ConstantsAssumption
    DEF OrdersAgree, OrderAgrees, TypeOK, OrderRecords, Tracked, Live, Unresolved,
        UnresolvedStatuses, Traders
  <1>4. PICK a \in Traders : a = orders[id].owner
    BY <1>3
  <1>5. CASE OcoFills(id)
    <2>1. /\ Sold(orders[id]) \in OrderRecords /\ Sold(orders[id]).sells = 1
          /\ Sold(orders[id]).owner = a
      BY <1>3, <1>4, OrderUpdates, "NONE" \in OcoStates DEF OcoStates
    <2>2. PICK order \in OrderRecords : order = WithOco(Sold(orders[id]), "FILLED")
      BY <2>1, OrderUpdates DEF OcoStates
    <2>3. order.owner = a /\ order.sells = 1 /\ order.oco = "FILLED"
      BY <2>1, <2>2, OrderUpdates DEF OcoStates
    <2>4. QED
      BY <1>1, <1>2, <1>3, <1>4, <1>5, <2>2, <2>3, OrderMove DEF OcoFills
  <1>6. CASE OcoCanceled(id)
    <2>1. PICK order \in OrderRecords : order = WithOco(orders[id], "CANCELED")
      BY <1>3, OrderUpdates DEF OcoStates
    <2>2. order.owner = a /\ order.sells = 0
      BY <1>3, <1>4, <2>1, OrderUpdates DEF OcoStates
    <2>3. QED
      BY <1>1, <1>2, <1>3, <1>4, <1>6, <2>1, <2>2, OrderMove DEF OcoCanceled
  <1>7. QED
    BY <1>5, <1>6

\* The process implements the fail-closed trader of its docstring, once per
\* strategy, whatever crashes, write failures and exchange events interleave.
THEOREM Refinement == Spec => ImplementsFailClosed
  <1>1. IInv /\ [Next]_vars => [FailClosed!Next]_FailClosed!vars
    BY AbstractQuiet, AbstractState, AbstractPosition, AbstractExchange, AbstractList
    DEF Next, Process, Environment
  <1>2. QED
    BY AbstractInit, <1>1, Invariance, PTL
    DEF Spec, ImplementsFailClosed, FailClosed!Spec
=============================================================================
