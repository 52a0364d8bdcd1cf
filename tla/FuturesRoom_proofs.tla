-------------------------- MODULE FuturesRoom_proofs --------------------------
(***************************************************************************)
(* Safety of the Futures demo automation for any number of orders, candles *)
(* and faults.  The invariant has two layers.  IInv holds whatever a       *)
(* market close leaves open: at most one entry is live, a trader that is   *)
(* ready has recorded it, and each step of run_once finds the state file   *)
(* and the position at hand as it needs them.  Books relates that entry to *)
(* what the account is short; it needs market closes that execute          *)
(* completely, which is what the run FuturesShort assumes and the run      *)
(* FuturesExpired shows to be necessary.  The last part is about the live  *)
(* room next to it, whose trader, sidecar and viewer have an invariant of  *)
(* their own, RInv.                                                        *)
(***************************************************************************)
EXTENDS FuturesRoom, StoreLemmas, Sequences, FiniteSetTheorems

\* A market close executes completely.
Complete == Leftovers = {0}

\* An executed entry the position file does not show as closed.
Live(id) == filled[id] > 0 /\ positions[id].status # "CLOSED"

NoneLive == \A id \in OrderIds : ~Live(id)

OneLive == \A i, j \in OrderIds : Live(i) /\ Live(j) => i = j

EntryAgrees(id) ==
  /\ filled[id] > 0 <=> id < nextId
  /\ positions[id].status \in {"ABSENT", "OPEN", "CLOSED"}
  /\ Tracked(positions, id) => filled[id] > 0 /\ positions[id].strategy = Strategy

EntriesAgree == \A id \in OrderIds : EntryAgrees(id)

\* Every live entry is in the position file.
Recorded == \A id \in OrderIds : Live(id) => positions[id].status = "OPEN"

Holding == hold \in OrderIds /\ positions[hold].status = "OPEN"

DecisionInv ==
  /\ pc \in {"fetch", "price", "decide", "begin"} => Ready(state)
  /\ pc = "price" => Holding
  /\ pc = "decide" => IF hold = 0 THEN NoneLive ELSE Holding

OrderInv ==
  /\ pc \in {"begin", "submit"} =>
       \/ job = "SHORT" /\ NoneLive
       \/ job = "BUY_TO_CLOSE" /\ Holding
  /\ pc = "submit" => state.attempt = "SUBMITTING" /\ ~state.halted
  /\ pc \in {"confirm", "record"} =>
       /\ Unfinished(state) /\ ~state.halted /\ hold \in OrderIds
       /\ \/ job = "SHORT" /\ Live(hold) /\ ~Tracked(positions, hold)
          \/ job = "BUY_TO_CLOSE" /\ positions[hold].status = "OPEN"
  /\ pc = "uncertain" => Unfinished(state)
  /\ pc \in {"snapshot", "finalize"} => Recorded

IInv ==
  /\ TypeOK
  /\ EntriesAgree /\ OneLive
  /\ Ready(state) => Recorded
  /\ short > 0 => ~liquidated
  /\ DecisionInv /\ OrderInv

\* The account is short what the entry executed, unless it was liquidated.
ShortOf(id) == short = filled[id] \/ (short = 0 /\ liquidated)

Books ==
  /\ short = 0 \/ \E id \in OrderIds : Live(id) /\ short = filled[id]
  /\ Ready(state) \/ pc \in {"snapshot", "finalize"} =>
       \A id \in OrderIds : Live(id) => ShortOf(id)
  /\ pc \in {"confirm", "record"} =>
       IF job = "SHORT" THEN ShortOf(hold) ELSE short = 0 /\ ~liquidated

(***************************************************************************)
(* The first layer.                                                        *)
(***************************************************************************)
\* The freshly created files and the process that is not running satisfy it.
LEMMA Initial == Init => IInv
  <1> SUFFICES ASSUME Init PROVE IInv
    OBVIOUS
  <1> USE ConstantsAssumption
  <1>1. TypeOK
    <2>1. state \in States(Candles)
      BY DEF Init, States, Default, AttemptStatuses, ActiveAttempts
    <2>2. positions \in [OrderIds -> Positions({Strategy})]
      BY DEF Init, Positions, NoPosition, Statuses, UnresolvedStatuses, ExitKinds,
             RecStatuses
    <2>3. /\ filled \in [OrderIds -> 0 .. Lot] /\ nextId \in 1 .. MaxOrders + 1
          /\ faults \in 0 .. MaxFaults /\ clock \in Candles
      BY DEF Init, Candles
    <2>4. QED
      BY <2>1, <2>2, <2>3 DEF Init, TypeOK
  <1>2. EntriesAgree /\ NoneLive
    BY DEF Init, EntriesAgree, EntryAgrees, NoPosition, OrderIds, Tracked,
           NoneLive, Live
  <1>3. OneLive /\ Recorded /\ short = 0
    BY <1>2 DEF OneLive, Recorded, NoneLive, Init
  <1>4. DecisionInv /\ OrderInv
    BY DEF Init, DecisionInv, OrderInv
  <1>5. QED
    BY <1>1, <1>2, <1>3, <1>4 DEF IInv

\* What is said of entries and records reads nothing else.
LEMMA Quiet ==
  ASSUME UNCHANGED <<positions, filled, nextId>>
  PROVE  /\ EntriesAgree' = EntriesAgree
         /\ OneLive' = OneLive
         /\ Recorded' = Recorded
         /\ NoneLive' = NoneLive
         /\ \A id : Live(id)' = Live(id)
  BY DEF EntriesAgree, EntryAgrees, OneLive, Recorded, NoneLive, Live, Tracked

\* At these steps run_once relies on nothing.
LEMMA Idle ==
  ASSUME pc' \in {"down", "sweep", "check", "mark"}
  PROVE  DecisionInv' /\ OrderInv'
  BY DEF DecisionInv, OrderInv

\* The process between two steps of run_once.
LEMMA LocalTypes ==
  /\ \A next : Leave(next) => pc' = next /\ candle' = 0 /\ hold' = 0 /\ job' = "NONE"
  /\ \A next : Goto(next) => pc' = next /\ candle' = candle /\ hold' = hold
                              /\ job' = job
  BY DEF Leave, Goto, local

\* The methods of the state store on the one state file.
LEMMA Writes ==
  ASSUME TypeOK
  PROVE  /\ AssertReady(state) \in States(Candles)
         /\ MarkCandleProcessed(state, candle) \in States(Candles)
         /\ BeginOrderAttempt(state) \in States(Candles)
         /\ MarkOrderAcknowledged(state) \in States(Candles)
         /\ MarkOrderUncertain(state) \in States(Candles)
         /\ FinalizeOrderAttempt(state) \in States(Candles)
  BY StateTypes DEF TypeOK

\* Steps that write no file and send no order: control, faults, candles, the
\* liquidation of the short.
LEMMA QuietSteps ==
  ASSUME IInv,
         \/ Start \/ Sweep \/ WaitNextCandle \/ ReadFails \/ WriteFails \/ Crash
         \/ CandleCloses \/ Liquidation \/ UNCHANGED vars
  PROVE  IInv'
  <1> USE DEF IInv
  <1>1. UNCHANGED <<state, positions, filled, nextId>>
    BY DEF Start, Sweep, WaitNextCandle, ReadFails, WriteFails, Crash,
           CandleCloses, Liquidation, vars, durable, exchange
  <1>2. EntriesAgree' /\ OneLive' /\ (Ready(state') => Recorded')
    BY <1>1, Quiet
  <1>3. CASE Start \/ Sweep \/ WaitNextCandle \/ ReadFails \/ WriteFails \/ Crash
    <2>1. pc' \in {"down", "sweep", "check"} /\ candle' = 0 /\ hold' = 0 /\ job' = "NONE"
      BY <1>3, LocalTypes
      DEF Start, Sweep, WaitNextCandle, ReadFails, WriteFails, Crash
    <2>2. UNCHANGED <<short, liquidated, clock>> /\ faults' \in 0 .. MaxFaults
      BY <1>3, ConstantsAssumption
      DEF Start, Sweep, WaitNextCandle, ReadFails, WriteFails, Crash, exchange,
          Fault, TypeOK
    <2>3. TypeOK'
      BY <1>1, <2>1, <2>2 DEF TypeOK
    <2>4. QED
      BY <1>2, <2>1, <2>2, <2>3, Idle
  <1>4. CASE CandleCloses \/ Liquidation \/ UNCHANGED vars
    <2>1. /\ UNCHANGED <<pc, candle, hold, job, faults>>
          /\ clock' \in Candles
          /\ short' \in Nat /\ liquidated' \in BOOLEAN
          /\ short' > 0 => ~liquidated'
      <3>1. CASE CandleCloses
        BY <3>1, ConstantsAssumption DEF CandleCloses, exchange, local, TypeOK, Candles
      <3>2. CASE Liquidation
        BY <3>2 DEF Liquidation, local, TypeOK
      <3>3. CASE UNCHANGED vars
        BY <3>3 DEF vars, exchange, local, TypeOK
      <3>4. QED
        BY <1>4, <3>1, <3>2, <3>3
    <2>2. TypeOK'
      BY <1>1, <2>1 DEF TypeOK
    <2>3. DecisionInv' /\ OrderInv'
      BY <1>1, <2>1, Quiet DEF DecisionInv, OrderInv, Holding, Tracked, TypeOK
    <2>4. QED
      BY <1>2, <2>1, <2>2, <2>3
  <1>5. QED
    BY <1>3, <1>4

\* Steps that write the state file.
LEMMA StateSteps ==
  ASSUME IInv, Check \/ MarkCandle \/ Begin \/ Confirm \/ Uncertain \/ Finalize
  PROVE  IInv'
  <1> USE DEF IInv
  <1>1. UNCHANGED <<positions, filled, short, liquidated, nextId, clock, faults>>
    BY DEF Check, MarkCandle, Begin, Confirm, Uncertain, Finalize, exchange
  <1>2. EntriesAgree' /\ OneLive' /\ Recorded' = Recorded
    BY <1>1, Quiet
  <1>3. /\ candle' \in Candles \cup {0} /\ hold' \in OrderIds \cup {0}
        /\ job' \in {"NONE", "SHORT", "BUY_TO_CLOSE"}
    BY LocalTypes
    DEF Check, MarkCandle, Begin, Confirm, Uncertain, Finalize, TypeOK
  <1>4. ASSUME state' \in States(Candles), Ready(state') => Recorded,
               DecisionInv', OrderInv',
               pc' \in {"down", "sweep", "fetch", "mark", "submit", "record"}
        PROVE  IInv'
    BY <1>1, <1>2, <1>3, <1>4 DEF TypeOK
  <1>5. state \in States(Candles)
    BY DEF TypeOK
  <1>6. CASE Check
    <2>1. state' \in States(Candles) /\ (Ready(state') <=> Ready(state))
      BY <1>5, <1>6, ReadyEffects, Writes DEF Check
    <2>2. CASE Ready(state)
      <3>1. pc' = "fetch"
        BY <1>6, <2>2, LocalTypes DEF Check
      <3>2. DecisionInv' /\ OrderInv'
        BY <2>1, <2>2, <3>1 DEF DecisionInv, OrderInv
      <3>3. QED
        BY <1>4, <2>1, <3>1, <3>2
    <2>3. CASE ~Ready(state)
      BY <1>4, <1>6, <2>1, <2>3, LocalTypes, Idle DEF Check
    <2>4. QED
      BY <2>2, <2>3
  <1>7. CASE MarkCandle
    BY <1>4, <1>5, <1>7, ReadyEffects, LocalTypes, Writes, Idle DEF MarkCandle
  <1>8. CASE Begin
    <2>1. pc = "begin" /\ Ready(state)
      BY <1>8 DEF Begin, DecisionInv
    <2>2. /\ state' \in States(Candles) /\ ~Ready(state')
          /\ state'.attempt = "SUBMITTING" /\ ~state'.halted
      BY <1>5, <1>8, <2>1, StateEffects, Writes DEF Begin
    <2>3. pc' = "submit" /\ hold' = hold /\ job' = job
      BY <1>8, <2>1, LocalTypes DEF Begin
    <2>4. DecisionInv' /\ OrderInv'
      BY <1>1, <2>1, <2>2, <2>3, Quiet DEF DecisionInv, OrderInv, Holding
    <2>5. QED
      BY <1>4, <2>2, <2>3, <2>4
  <1>9. CASE Confirm
    <2>1. /\ state' \in States(Candles) /\ ~Ready(state') /\ Unfinished(state')
          /\ state'.halted = state.halted
      BY <1>5, <1>9, StateEffects, ReadyEffects, Writes DEF Confirm
    <2>2. pc = "confirm" /\ pc' = "record" /\ hold' = hold /\ job' = job
      BY <1>9, LocalTypes DEF Confirm
    <2>3. DecisionInv' /\ OrderInv'
      BY <1>1, <2>1, <2>2, Quiet DEF DecisionInv, OrderInv, Tracked
    <2>4. QED
      BY <1>4, <2>1, <2>2, <2>3
  <1>10. CASE Uncertain
    BY <1>4, <1>5, <1>10, ReadyEffects, LocalTypes, Writes, Idle DEF Uncertain
  <1>11. CASE Finalize
    <2>1. Recorded /\ pc' = "mark" /\ state' \in States(Candles)
      BY <1>11, LocalTypes, Writes DEF Finalize, OrderInv
    <2>2. QED
      BY <1>4, <2>1, Idle
  <1>12. QED
    BY <1>6, <1>7, <1>8, <1>9, <1>10, <1>11

\* Steps that write nothing: reads of the exchange and decisions.
LEMMA DecisionSteps ==
  ASSUME IInv,
         Fetch \/ LivePrice \/ DecideHeld \/ DecideFlat \/ SubmitFails \/ Snapshot
  PROVE  IInv'
  <1> USE DEF IInv
  <1>1. UNCHANGED <<state, positions, filled, short, liquidated, nextId, clock, faults>>
    BY DEF Fetch, LivePrice, DecideHeld, DecideFlat, SubmitFails, Snapshot,
           durable, exchange
  <1>2. EntriesAgree' /\ OneLive' /\ Recorded' = Recorded /\ NoneLive' = NoneLive
    BY <1>1, Quiet
  <1>3. /\ candle \in Candles \cup {0} /\ hold \in OrderIds \cup {0}
        /\ job \in {"NONE", "SHORT", "BUY_TO_CLOSE"} /\ clock \in Candles
    BY DEF TypeOK
  <1>4. ASSUME candle' \in Candles \cup {0}, hold' \in OrderIds \cup {0},
               job' \in {"NONE", "SHORT", "BUY_TO_CLOSE"},
               pc' \in {"down", "price", "decide", "mark", "begin", "uncertain",
                        "finalize"},
               DecisionInv', OrderInv'
        PROVE  IInv'
    BY <1>1, <1>2, <1>4 DEF TypeOK
  <1>5. CASE Fetch
    <2> DEFINE open == ActivePositions(positions, Strategy)
    <2>1. Ready(state) /\ Recorded
      BY <1>5 DEF Fetch, DecisionInv
    <2>2. \A id \in OrderIds : id \in open <=> positions[id].status = "OPEN"
      BY DEF ActivePositions, TypeOK, EntriesAgree, EntryAgrees, Tracked
    <2>3. open \subseteq OrderIds
      BY DEF ActivePositions, TypeOK
    <2>4. CASE Cardinality(open) > 1
      BY <1>3, <1>4, <1>5, <2>4, LocalTypes, Idle DEF Fetch
    <2>5. CASE /\ open = {} /\ hold' = 0 /\ pc' = "decide"
               /\ candle' = clock /\ job' = job
      <3>1. NoneLive
        BY <2>1, <2>2, <2>5 DEF NoneLive, Recorded
      <3>2. DecisionInv' /\ OrderInv'
        BY <1>1, <1>2, <2>1, <2>5, <3>1 DEF DecisionInv, OrderInv
      <3>3. QED
        BY <1>3, <1>4, <2>5, <3>2
    <2>6. CASE hold' \in open /\ pc' = "price" /\ candle' = clock /\ job' = job
      <3>1. Holding'
        BY <1>1, <2>2, <2>3, <2>6 DEF Holding
      <3>2. DecisionInv' /\ OrderInv'
        BY <1>1, <2>1, <2>6, <3>1 DEF DecisionInv, OrderInv
      <3>3. QED
        BY <1>3, <1>4, <2>3, <2>6, <3>2
    <2>7. QED
      BY <1>5, <2>4, <2>5, <2>6 DEF Fetch
  <1>6. CASE LivePrice \/ DecideHeld
    <2>1. Ready(state) /\ Holding /\ hold # 0
      BY <1>6 DEF LivePrice, DecideHeld, DecisionInv, Holding, OrderIds
    <2>2. /\ pc' \in {"decide", "mark", "begin"} /\ hold' = hold /\ candle' = candle
          /\ pc' = "begin" => job' = "BUY_TO_CLOSE"
          /\ pc' # "begin" => job' = job
      BY <1>6, LocalTypes DEF LivePrice, DecideHeld, Exit
    <2>3. Holding'
      BY <1>1, <2>1, <2>2 DEF Holding
    <2>4. DecisionInv' /\ OrderInv'
      BY <1>1, <2>1, <2>2, <2>3 DEF DecisionInv, OrderInv
    <2>5. QED
      BY <1>3, <1>4, <2>2, <2>4
  <1>7. CASE DecideFlat
    <2>1. Ready(state) /\ NoneLive
      BY <1>7 DEF DecideFlat, DecisionInv
    <2>2. /\ pc' \in {"mark", "begin"} /\ hold' = hold /\ candle' = candle
          /\ pc' = "begin" => job' = "SHORT"
          /\ pc' # "begin" => job' = job
      BY <1>7, LocalTypes DEF DecideFlat
    <2>3. DecisionInv' /\ OrderInv'
      BY <1>1, <1>2, <2>1, <2>2 DEF DecisionInv, OrderInv
    <2>4. QED
      BY <1>3, <1>4, <2>2, <2>3
  <1>8. CASE SubmitFails
    <2>1. /\ state.attempt = "SUBMITTING" /\ pc' = "uncertain"
          /\ hold' = hold /\ candle' = candle /\ job' = job
      BY <1>8, LocalTypes DEF SubmitFails, OrderInv
    <2>2. DecisionInv' /\ OrderInv'
      BY <1>1, <2>1 DEF DecisionInv, OrderInv, Unfinished, ActiveAttempts
    <2>3. QED
      BY <1>3, <1>4, <2>1, <2>2
  <1>9. CASE Snapshot
    <2>1. /\ Recorded /\ pc' = "finalize"
          /\ hold' = hold /\ candle' = candle /\ job' = job
      BY <1>9, LocalTypes DEF Snapshot, OrderInv
    <2>2. DecisionInv' /\ OrderInv'
      BY <1>2, <2>1 DEF DecisionInv, OrderInv
    <2>3. QED
      BY <1>3, <1>4, <2>1, <2>2
  <1>10. QED
    BY <1>5, <1>6, <1>7, <1>8, <1>9

\* The two orders: what the exchange answers is not yet in the files.
LEMMA OrderSteps ==
  ASSUME IInv, SubmitShort \/ SubmitClose
  PROVE  IInv'
  <1> USE DEF IInv
  <1>1. /\ state.attempt = "SUBMITTING" /\ ~state.halted
        /\ ~Ready(state) /\ Unfinished(state) /\ state' = state /\ positions' = positions
    BY DEF SubmitShort, SubmitClose, OrderInv, Ready, Unfinished, ActiveAttempts,
           durable
  <1>2. CASE SubmitShort
    <2>1. PICK units \in 1 .. Lot : /\ filled' = [filled EXCEPT ![nextId] = units]
                                    /\ short' = short + units
      BY <1>2 DEF SubmitShort
    <2>2. /\ NoneLive /\ job = "SHORT" /\ nextId \in OrderIds
          /\ nextId' = nextId + 1 /\ hold' = nextId
          /\ liquidated' = FALSE /\ pc' \in {"confirm", "uncertain"}
          /\ UNCHANGED <<clock, faults, candle, job>>
      BY <1>2 DEF SubmitShort, OrderInv
    <2>3. /\ filled' \in [OrderIds -> 0 .. Lot] /\ filled'[nextId] > 0
          /\ \A id \in OrderIds \ {nextId} : filled'[id] = filled[id]
      BY <2>1, <2>2, ConstantsAssumption DEF TypeOK
    <2>4. TypeOK'
      <3>1. short' \in Nat /\ nextId' \in 1 .. MaxOrders + 1
        BY <2>1, <2>2, ConstantsAssumption DEF TypeOK, OrderIds
      <3>2. QED
        BY <1>1, <2>2, <2>3, <3>1 DEF TypeOK
    <2>5. EntriesAgree'
      <3>1. \A id \in OrderIds : id < nextId' <=> id < nextId \/ id = nextId
        BY <2>2 DEF OrderIds
      <3>2. QED
        BY <1>1, <2>3, <3>1 DEF EntriesAgree, EntryAgrees, Tracked
    <2>6. /\ ~Tracked(positions, nextId) /\ Live(hold)'
          /\ \A id \in OrderIds \ {nextId} : ~Live(id)'
      <3>1. ~(nextId < nextId)
        BY <2>2 DEF OrderIds
      <3>2. ~Tracked(positions, nextId)
        BY <2>2, <3>1 DEF EntriesAgree, EntryAgrees
      <3>3. QED
        BY <1>1, <2>2, <2>3, <3>2 DEF Tracked, NoneLive, Live
    <2>7. OneLive'
      BY <2>6 DEF OneLive
    <2>8. DecisionInv' /\ OrderInv'
      BY <1>1, <2>2, <2>6 DEF DecisionInv, OrderInv, Tracked
    <2>9. QED
      BY <1>1, <2>2, <2>4, <2>5, <2>7, <2>8
  <1>3. CASE SubmitClose
    <2>1. /\ Holding /\ job = "BUY_TO_CLOSE" /\ pc' \in {"confirm", "uncertain"}
          /\ hold' = hold /\ job' = job /\ candle' = candle
          /\ UNCHANGED <<filled, liquidated, nextId, clock, faults>>
      BY <1>3, LocalTypes DEF SubmitClose, OrderInv
    <2>2. short > 0 /\ short' \in Nat
      <3>1. PICK left \in Leftovers :
              LET bought == filled[hold] - left
              IN  left <= filled[hold]
                  /\ short' = IF bought < short THEN short - bought ELSE 0
        BY <1>3 DEF SubmitClose
      <3>2. filled[hold] \in 0 .. Lot /\ left \in Nat /\ short \in Nat
        BY <2>1, ConstantsAssumption DEF Holding, TypeOK
      <3>3. QED
        BY <1>3, <3>1, <3>2 DEF SubmitClose
    <2>3. TypeOK'
      BY <1>1, <2>1, <2>2 DEF TypeOK
    <2>4. EntriesAgree' /\ OneLive'
      BY <1>1, <2>1, Quiet
    <2>5. DecisionInv' /\ OrderInv'
      BY <1>1, <2>1 DEF DecisionInv, OrderInv, Holding
    <2>6. QED
      BY <1>1, <2>1, <2>2, <2>3, <2>4, <2>5
  <1>4. QED
    BY <1>2, <1>3

\* add_short_position and mark_closed.  The store cannot refuse the entry: an
\* unresolved record would be a second live entry.
LEMMA RecordStep ==
  ASSUME IInv, Record
  PROVE  /\ IInv'
         /\ pc' = "snapshot"
         /\ \A id \in OrderIds \ {hold} : positions'[id] = positions[id]
         /\ positions'[hold].status = IF job = "SHORT" THEN "OPEN" ELSE "CLOSED"
  <1> USE DEF IInv
  <1>1. /\ pc = "record" /\ UNCHANGED <<state, filled, short, liquidated, nextId,
                                        clock, faults>>
        /\ hold \in OrderIds /\ ~Ready(state)
        /\ \/ job = "SHORT" /\ Live(hold) /\ ~Tracked(positions, hold)
           \/ job = "BUY_TO_CLOSE" /\ positions[hold].status = "OPEN"
    BY DEF Record, exchange, OrderInv, Ready
  <1> DEFINE S == {Strategy}
  <1>2. positions \in [OrderIds -> Positions(S)] /\ Strategy \in S
    BY DEF TypeOK
  <1> HIDE DEF S
  <1>3. ASSUME job = "SHORT"
        PROVE  ~AddRefused(positions, hold, Strategy)
    <2>1. \A id \in UnresolvedPositions(positions, Strategy) :
            id \in OrderIds /\ Live(id) /\ Tracked(positions, id)
      BY <1>2 DEF UnresolvedPositions, Unresolved, UnresolvedStatuses, EntriesAgree,
                  EntryAgrees, Tracked, Live
    <2>2. UnresolvedPositions(positions, Strategy) = {}
      BY <1>1, <1>3, <2>1 DEF OneLive
    <2>3. QED
      BY <2>2 DEF AddRefused
  <1>4. /\ pc' = "snapshot" /\ candle' = candle /\ hold' = hold /\ job' = job
        /\ positions' = IF job = "SHORT" THEN AddPosition(positions, hold, Strategy)
                        ELSE MarkClosed(positions, hold, "SOFTWARE")
    BY <1>3, LocalTypes DEF Record
  <1>5. /\ positions' \in [OrderIds -> Positions(S)]
        /\ \A id \in OrderIds \ {hold} : positions'[id] = positions[id]
        /\ positions'[hold].status = IF job = "SHORT" THEN "OPEN" ELSE "CLOSED"
        /\ positions'[hold].strategy = Strategy
    <2>1. CASE job = "SHORT"
      BY <1>1, <1>2, <1>3, <1>4, <2>1, AddPositionEffect
    <2>2. CASE job # "SHORT"
      <3>1. "SOFTWARE" \in ExitKinds
        BY DEF ExitKinds
      <3>2. positions[hold].strategy = Strategy
        BY <1>1, <2>2 DEF EntriesAgree, EntryAgrees, Tracked
      <3>3. QED
        BY <1>1, <1>2, <1>4, <2>2, <3>1, <3>2, MarkClosedEffect
    <2>3. QED
      BY <2>1, <2>2
  <1>6. TypeOK'
    BY <1>1, <1>4, <1>5 DEF TypeOK, S
  <1>7. filled[hold] > 0
    BY <1>1 DEF Live, EntriesAgree, EntryAgrees, Tracked
  <1>8. EntriesAgree'
    BY <1>1, <1>5, <1>7 DEF EntriesAgree, EntryAgrees, Tracked
  <1>9. \A id \in OrderIds : Live(id)' => Live(id)
    BY <1>1, <1>5, <1>7 DEF Live
  <1>10. OneLive' /\ Recorded'
    BY <1>1, <1>5, <1>7, <1>9 DEF OneLive, Recorded, Live
  <1>11. DecisionInv' /\ OrderInv'
    BY <1>1, <1>4, <1>10 DEF DecisionInv, OrderInv
  <1>12. QED
    BY <1>1, <1>4, <1>5, <1>6, <1>8, <1>10, <1>11

\* Every step keeps the first layer.
LEMMA StepKeeps == IInv /\ [Next]_vars => IInv'
  BY QuietSteps, StateSteps, DecisionSteps, OrderSteps, RecordStep
  DEF Next, Process, Environment
(***************************************************************************)
(* The second layer.                                                       *)
(***************************************************************************)
\* No order, no record, no liquidation: the account and its entries stay, and
\* the trader becomes ready only by finalizing its attempt.
Unmoved ==
  /\ UNCHANGED <<positions, filled, short, liquidated>>
  /\ Ready(state') => Ready(state) \/ pc = "finalize"
  /\ pc' \in {"snapshot", "finalize"} => pc \in {"snapshot", "finalize"}
  /\ pc' \in {"confirm", "record"} =>
       pc \in {"confirm", "record"} /\ job' = job /\ hold' = hold

\* Which steps those are.
LEMMA MostStepsUnmoved ==
  ASSUME TypeOK, [Next]_vars, ~SubmitShort, ~SubmitClose, ~Record, ~Liquidation
  PROVE  Unmoved
  <1>1. state \in States(Candles)
    BY DEF TypeOK
  <1>2. CASE \/ Start \/ Sweep \/ WaitNextCandle \/ ReadFails \/ WriteFails \/ Crash
             \/ CandleCloses \/ UNCHANGED vars
    BY <1>2, LocalTypes
    DEF Start, Sweep, WaitNextCandle, ReadFails, WriteFails, Crash, CandleCloses,
        vars, durable, exchange, local, Unmoved
  <1>3. CASE Fetch \/ LivePrice \/ DecideHeld \/ DecideFlat \/ SubmitFails \/ Snapshot
    <2>1. UNCHANGED <<state, positions, filled, short, liquidated>>
      BY <1>3 DEF Fetch, LivePrice, DecideHeld, DecideFlat, SubmitFails, Snapshot,
                  durable, exchange
    <2>2. /\ pc' \notin {"snapshot", "confirm", "record"}
          /\ pc' = "finalize" => pc = "snapshot"
      BY <1>3, LocalTypes
      DEF Fetch, LivePrice, DecideHeld, DecideFlat, SubmitFails, Snapshot, Exit
    <2>3. QED
      BY <2>1, <2>2 DEF Unmoved
  <1>4. CASE Check \/ MarkCandle \/ Begin \/ Confirm \/ Uncertain \/ Finalize
    <2>1. UNCHANGED <<positions, filled, short, liquidated>>
      BY <1>4 DEF Check, MarkCandle, Begin, Confirm, Uncertain, Finalize, exchange
    <2>2. /\ pc' \notin {"snapshot", "finalize", "confirm"}
          /\ pc' = "record" => pc = "confirm" /\ job' = job /\ hold' = hold
      BY <1>4, LocalTypes DEF Check, MarkCandle, Begin, Confirm, Uncertain, Finalize
    <2>3. Ready(state') => Ready(state) \/ pc = "finalize"
      BY <1>1, <1>4, ReadyEffects, StateEffects
      DEF Check, MarkCandle, Begin, Confirm, Uncertain, Finalize
    <2>4. QED
      BY <2>1, <2>2, <2>3 DEF Unmoved
  <1>5. QED
    BY <1>2, <1>3, <1>4 DEF Next, Process, Environment

\* A close that executes completely leaves nothing short.
LEMMA CloseClears ==
  ASSUME Complete, IInv, Books, SubmitClose
  PROVE  /\ pc = "submit" /\ job = "BUY_TO_CLOSE" /\ Holding /\ short > 0
         /\ short' = 0 /\ ~liquidated
         /\ pc' \in {"confirm", "uncertain"}
         /\ UNCHANGED <<state, positions, filled, liquidated, hold, job>>
  <1>1. /\ pc = "submit" /\ job = "BUY_TO_CLOSE" /\ Holding /\ short > 0 /\ ~liquidated
        /\ pc' \in {"confirm", "uncertain"}
        /\ UNCHANGED <<state, positions, filled, liquidated, hold, job>>
    BY LocalTypes DEF SubmitClose, IInv, OrderInv, durable
  <1>2. short = filled[hold] /\ filled[hold] \in 0 .. Lot
    <2>1. PICK id \in OrderIds : Live(id) /\ short = filled[id]
      BY <1>1 DEF Books
    <2>2. Live(hold)
      BY <1>1 DEF Holding, Live, IInv, EntriesAgree, EntryAgrees, Tracked
    <2>3. id = hold
      BY <1>1, <2>1, <2>2 DEF IInv, OneLive, Holding
    <2>4. QED
      BY <1>1, <2>1, <2>3 DEF IInv, TypeOK, Holding
  <1>3. short' = 0
    <2>1. PICK left \in Leftovers :
            LET bought == filled[hold] - left
            IN  short' = IF bought < short THEN short - bought ELSE 0
      BY DEF SubmitClose
    <2>2. left = 0
      BY DEF Complete
    <2>3. QED
      BY <1>2, <2>1, <2>2, ConstantsAssumption
  <1>4. QED
    BY <1>1, <1>3

\* Every step keeps the second layer when market closes execute completely.
LEMMA StepKeepsBooks ==
  ASSUME Complete, IInv, Books, [Next]_vars
  PROVE  Books'
  <1> USE DEF IInv
  <1>1. IInv'
    BY StepKeeps
  <1>2. CASE Unmoved
    <2>1. \A id : Live(id)' = Live(id) /\ ShortOf(id)' = ShortOf(id)
      BY <1>2 DEF Unmoved, Live, ShortOf
    <2>2. ShortOf(hold)' = IF hold' = hold THEN ShortOf(hold) ELSE ShortOf(hold)'
      BY <2>1
    <2>3. QED
      BY <1>2, <2>1, <2>2 DEF Unmoved, Books, ShortOf
  <1>3. CASE SubmitShort
    <2>1. /\ short = 0 /\ ~Ready(state) /\ state' = state /\ nextId \in OrderIds
          /\ hold' = nextId /\ job = "SHORT" /\ job' = job
          /\ pc' \in {"confirm", "uncertain"} /\ positions' = positions
      BY <1>3 DEF SubmitShort, OrderInv, Books, NoneLive, Ready, Unfinished,
                  ActiveAttempts, durable
    <2>2. PICK units \in 1 .. Lot : /\ filled' = [filled EXCEPT ![nextId] = units]
                                    /\ short' = short + units
      BY <1>3 DEF SubmitShort
    <2>3. filled'[nextId] = units /\ short' = units /\ units > 0
      BY <2>1, <2>2, ConstantsAssumption DEF TypeOK
    <2>4. Live(hold)'
      <3>1. ~(nextId < nextId)
        BY <2>1 DEF OrderIds
      <3>2. ~Tracked(positions, nextId)
        BY <2>1, <3>1 DEF EntriesAgree, EntryAgrees
      <3>3. QED
        BY <2>1, <2>3, <3>2 DEF Live, Tracked
    <2>5. QED
      BY <2>1, <2>3, <2>4 DEF Books, ShortOf
  <1>4. CASE SubmitClose
    <2>1. /\ short' = 0 /\ ~liquidated' /\ ~Ready(state') /\ job' = "BUY_TO_CLOSE"
          /\ pc' \in {"confirm", "uncertain"}
      BY <1>4, CloseClears DEF OrderInv, Ready, Unfinished, ActiveAttempts
    <2>2. QED
      BY <2>1 DEF Books
  <1>5. CASE Record
    <2>1. /\ pc = "record" /\ hold \in OrderIds /\ pc' = "snapshot" /\ ~Ready(state')
          /\ UNCHANGED <<filled, short, liquidated>>
          /\ \A id \in OrderIds \ {hold} : positions'[id] = positions[id]
          /\ positions'[hold].status = IF job = "SHORT" THEN "OPEN" ELSE "CLOSED"
          /\ IF job = "SHORT" THEN ShortOf(hold) ELSE short = 0 /\ ~liquidated
      BY <1>5, RecordStep DEF Record, OrderInv, Books, exchange, Ready
    <2>2. Live(hold)
      BY <2>1 DEF OrderInv, EntriesAgree, EntryAgrees, Tracked, Live
    <2>3. \A id \in OrderIds : Live(id)' <=> id = hold /\ job = "SHORT"
      BY <2>1, <2>2 DEF OneLive, Live
    <2>4. ShortOf(hold) => short = 0 \/ short = filled[hold]
      BY DEF ShortOf
    <2>5. QED
      BY <2>1, <2>3, <2>4 DEF Books, ShortOf
  <1>6. CASE Liquidation
    <2>1. /\ short' = 0 /\ liquidated' /\ short > 0
          /\ UNCHANGED <<state, positions, filled, pc, hold, job>>
      BY <1>6 DEF Liquidation, durable, local
    <2>2. \A id : ShortOf(id)'
      BY <2>1 DEF ShortOf
    <2>3. pc \in {"confirm", "record"} => job = "SHORT"
      BY <2>1 DEF Books, TypeOK
    <2>4. QED
      BY <2>1, <2>2, <2>3 DEF Books
  <1>7. QED
    BY <1>2, <1>3, <1>4, <1>5, <1>6, MostStepsUnmoved
(***************************************************************************)
(* Every step maps to a step of FailClosedTrader or to a stutter.          *)
(***************************************************************************)
Matches == OpenRecord = (Exposure # "flat")

Same == Mode' = Mode /\ Exposure' = Exposure /\ OpenRecord' = OpenRecord

\* The abstract actions on the mapped values.
Moves ==
  \/ Same
  \/ /\ Mode = "ready" /\ Mode' = "busy" /\ Matches
     /\ Exposure' = Exposure /\ OpenRecord' = OpenRecord
  \/ /\ Mode = "busy" /\ Exposure = "flat" /\ OpenRecord = FALSE
     /\ Exposure' = "held"
     /\ Mode' = Mode /\ OpenRecord' = OpenRecord
  \/ /\ Mode = "busy" /\ Exposure = "held" /\ OpenRecord = TRUE
     /\ Exposure' = "flat"
     /\ Mode' = Mode /\ OpenRecord' = OpenRecord
  \/ /\ Mode = "busy" /\ ~Matches /\ OpenRecord' = ~OpenRecord
     /\ Mode' = Mode /\ Exposure' = Exposure
  \/ /\ Mode = "busy" /\ Mode' = "ready" /\ Matches
     /\ Exposure' = Exposure /\ OpenRecord' = OpenRecord
  \/ /\ Mode # "blocked" /\ Mode' = "blocked"
     /\ Exposure' = Exposure /\ OpenRecord' = OpenRecord
  \/ /\ Exposure = "held" /\ Exposure' = "exited"
     /\ Mode' = Mode /\ OpenRecord' = OpenRecord

\* A move of the mapped values is a step of the one abstract trader.
LEMMA Lift ==
  ASSUME Moves
  PROVE  [FailClosed!Next]_FailClosed!vars
  <1> DEFINE m == [t \in {Strategy} |-> Mode]
             e == [t \in {Strategy} |-> Exposure]
             k == [t \in {Strategy} |-> OpenRecord]
  <1>1. /\ m' = [m EXCEPT ![Strategy] = Mode']
        /\ e' = [e EXCEPT ![Strategy] = Exposure']
        /\ k' = [k EXCEPT ![Strategy] = OpenRecord']
        /\ m[Strategy] = Mode /\ e[Strategy] = Exposure /\ k[Strategy] = OpenRecord
    OBVIOUS
  <1>2. /\ Mode' = Mode => m' = m
        /\ Exposure' = Exposure => e' = e
        /\ OpenRecord' = OpenRecord => k' = k
    OBVIOUS
  <1>3. OpenRecord \in BOOLEAN
    BY DEF OpenRecord
  <1>4. \/ FailClosed!Begin(Strategy) \/ FailClosed!Enter(Strategy)
        \/ FailClosed!Leave(Strategy) \/ FailClosed!Record(Strategy)
        \/ FailClosed!Settle(Strategy) \/ FailClosed!Block(Strategy)
        \/ FailClosed!ForcedExit(Strategy)
        \/ m' = m /\ e' = e /\ k' = k
    <2> HIDE DEF m, e, k
    <2> QED
      BY <1>1, <1>2, <1>3
      DEF m, e, k, Moves, Same, Matches, FailClosed!Begin, FailClosed!Enter,
          FailClosed!Leave, FailClosed!Record, FailClosed!Settle,
          FailClosed!Block, FailClosed!ForcedExit, FailClosed!Move,
          FailClosed!BooksMatch
  <1>5. QED
    BY <1>4 DEF FailClosed!Next, FailClosed!vars

\* The mapping, read off the live entry.
LEMMA Mapping ==
  ASSUME IInv
  PROVE  /\ OpenRecord <=> \E id \in OrderIds : positions[id].status = "OPEN"
         /\ \A id \in OrderIds : positions[id].status = "OPEN" => Live(id)
         /\ Exposure = IF short > 0 THEN "held"
                       ELSE IF liquidated /\ ~NoneLive THEN "exited" ELSE "flat"
         /\ Recorded => (OpenRecord <=> ~NoneLive)
  <1> USE DEF IInv
  <1>1. OpenRecord <=> \E id \in OrderIds : positions[id].status = "OPEN"
    BY DEF OpenRecord, ActivePositions, TypeOK, EntriesAgree, EntryAgrees, Tracked
  <1>2. \A id \in OrderIds : positions[id].status = "OPEN" => Live(id)
    BY DEF EntriesAgree, EntryAgrees, Tracked, Live
  <1>3. QED
    BY <1>1, <1>2 DEF Exposure, NoneLive, Live, Recorded

\* Where every entry is recorded and the account is short what it executed,
\* records and holding match.
LEMMA BooksAgree ==
  ASSUME IInv, Books, Recorded, Ready(state) \/ pc \in {"snapshot", "finalize"}
  PROVE  Matches
  <1>1. short > 0 => ~NoneLive
    BY DEF Books, NoneLive
  <1>2. ~NoneLive => short > 0 \/ liquidated
    <2>1. ASSUME NEW id \in OrderIds, Live(id) PROVE short > 0 \/ liquidated
      BY <2>1 DEF Books, ShortOf, Live
    <2>2. QED
      BY <2>1 DEF NoneLive
  <1>3. short \in Nat /\ OpenRecord \in BOOLEAN
    BY DEF IInv, TypeOK, OpenRecord
  <1>4. QED
    BY <1>1, <1>2, <1>3, Mapping DEF Matches

\* The freshly created files map to a ready, flat and untracked trader.
LEMMA AbstractInit == Init => FailClosed!Init
  <1> SUFFICES ASSUME Init PROVE FailClosed!Init
    OBVIOUS
  <1>1. Mode = "ready"
    BY DEF Init, Mode, Default, Unfinished, ActiveAttempts
  <1>2. Exposure = "flat" /\ OpenRecord = FALSE
    BY DEF Init, Exposure, OpenRecord, ActivePositions, NoPosition
  <1>3. QED
    BY <1>1, <1>2 DEF FailClosed!Init

\* A write of the state file changes the mode at most.
LEMMA AbstractStateSteps ==
  ASSUME IInv, Books, Check \/ MarkCandle \/ Begin \/ Confirm \/ Uncertain \/ Finalize
  PROVE  Moves
  <1> USE DEF IInv
  <1>1. state \in States(Candles)
    BY DEF TypeOK
  <1>2. Exposure' = Exposure /\ OpenRecord' = OpenRecord
    BY DEF Check, MarkCandle, Begin, Confirm, Uncertain, Finalize, exchange,
           Exposure, OpenRecord
  <1>3. CASE Check
    <2>1. Ready(state) => state' = state
      BY <1>1, <1>3, StateEffects DEF Check
    <2>2. ~Ready(state) => state'.halted
      BY <1>1, <1>3, StateEffects DEF Check
    <2>3. QED
      BY <1>2, <2>1, <2>2 DEF Mode, Moves, Same
  <1>4. CASE MarkCandle
    BY <1>1, <1>2, <1>4, StateEffects DEF MarkCandle, Mode, Moves, Same, Unfinished
  <1>5. CASE Begin
    <2>1. Ready(state) /\ Recorded
      BY <1>5 DEF Begin, DecisionInv
    <2>2. state'.attempt = "SUBMITTING" /\ ~state'.halted
      BY <1>1, <1>5, <2>1, StateEffects DEF Begin
    <2>3. Mode = "ready" /\ Mode' = "busy" /\ Matches
      BY <2>1, <2>2, BooksAgree DEF Mode, Ready, Unfinished, ActiveAttempts
    <2>4. QED
      BY <1>2, <2>3 DEF Moves
  <1>6. CASE Confirm
    <2>1. Mode = "busy"
      BY <1>6 DEF Confirm, OrderInv, Mode
    <2>2. Mode' = "busy"
      BY <1>1, <1>6, StateEffects, ReadyEffects DEF Confirm, OrderInv, Mode
    <2>3. QED
      BY <1>2, <2>1, <2>2 DEF Moves, Same
  <1>7. CASE Uncertain
    <2>1. Mode' = "blocked"
      BY <1>1, <1>7, StateEffects DEF Uncertain, Mode
    <2>2. QED
      BY <1>2, <2>1 DEF Moves, Same
  <1>8. CASE Finalize
    <2>1. Matches
      BY <1>8, BooksAgree DEF Finalize, OrderInv
    <2>2. ~Unfinished(state') /\ state'.halted = state.halted
      BY <1>1, <1>8, StateEffects, ReadyEffects DEF Finalize
    <2>3. QED
      BY <1>2, <2>1, <2>2 DEF Mode, Moves, Same
  <1>9. QED
    BY <1>3, <1>4, <1>5, <1>6, <1>7, <1>8

\* The orders, their record and a liquidation keep the mode.
LEMMA AbstractOrderSteps ==
  ASSUME Complete, IInv, Books, SubmitShort \/ SubmitClose \/ Record \/ Liquidation
  PROVE  Moves
  <1> USE DEF IInv
  <1>1. state' = state /\ Mode' = Mode
    BY DEF SubmitShort, SubmitClose, Record, Liquidation, durable, Mode
  <1>2. IInv' /\ Books'
    BY StepKeeps, StepKeepsBooks DEF Next, Process, Environment
  <1>3. short \in Nat /\ OpenRecord \in BOOLEAN /\ OpenRecord' \in BOOLEAN
    BY DEF TypeOK, OpenRecord
  <1>4. CASE SubmitShort
    <2>1. NoneLive /\ Mode = "busy" /\ short = 0
      BY <1>4 DEF SubmitShort, OrderInv, Mode, Unfinished, ActiveAttempts, Books,
                  NoneLive
    <2>2. OpenRecord = FALSE /\ Exposure = "flat"
      BY <1>3, <2>1, Mapping DEF NoneLive
    <2>3. OpenRecord' = OpenRecord
      BY <1>4 DEF SubmitShort, durable, OpenRecord
    <2>4. short' > 0
      BY <1>4, <2>1 DEF SubmitShort
    <2>5. QED
      BY <1>1, <2>1, <2>2, <2>3, <2>4 DEF Moves, Exposure
  <1>5. CASE SubmitClose
    <2>1. /\ pc = "submit" /\ Holding /\ short > 0 /\ short' = 0 /\ ~liquidated'
          /\ positions' = positions
      BY <1>5, CloseClears
    <2>2. Mode = "busy"
      BY <2>1 DEF OrderInv, Mode, Unfinished, ActiveAttempts
    <2>3. OpenRecord = TRUE /\ OpenRecord' = OpenRecord
      BY <1>3, <2>1, Mapping DEF Holding, OpenRecord
    <2>4. Exposure = "held" /\ Exposure' = "flat"
      BY <2>1 DEF Exposure
    <2>5. QED
      BY <1>1, <2>2, <2>3, <2>4 DEF Moves
  <1>6. CASE Record
    <2>1. /\ hold \in OrderIds /\ UNCHANGED <<filled, short, liquidated>>
          /\ pc = "record" /\ Mode = "busy"
          /\ \A id \in OrderIds \ {hold} : positions'[id] = positions[id]
          /\ positions'[hold].status = IF job = "SHORT" THEN "OPEN" ELSE "CLOSED"
      BY <1>6, RecordStep DEF Record, OrderInv, exchange, Mode
    <2>2. Live(hold)
      BY <2>1 DEF OrderInv, EntriesAgree, EntryAgrees, Tracked, Live
    <2>3. \A id \in OrderIds \ {hold} : positions[id].status # "OPEN"
      BY <2>1, <2>2, Mapping DEF OneLive
    <2>4. (OpenRecord <=> positions[hold].status = "OPEN")
          /\ (OpenRecord' <=> positions'[hold].status = "OPEN")
      BY <1>2, <2>1, <2>3, Mapping DEF OpenRecord, ActivePositions, TypeOK,
         EntriesAgree, EntryAgrees, Tracked
    <2>5. CASE job = "SHORT"
      <3>1. ~OpenRecord /\ OpenRecord'
        BY <2>1, <2>4, <2>5 DEF OrderInv, Tracked
      <3>2. /\ filled'[hold] > 0 /\ positions'[hold].status # "CLOSED"
            /\ ShortOf(hold)
        BY <2>1, <2>2, <2>5 DEF Live, Books
      <3>3. Exposure # "flat" /\ Exposure' = Exposure
        BY <1>3, <2>1, <2>2, <3>2 DEF Exposure, ShortOf, Live
      <3>4. QED
        BY <1>1, <1>3, <2>1, <3>1, <3>3 DEF Moves, Matches
    <2>6. CASE job # "SHORT"
      <3>1. OpenRecord /\ ~OpenRecord'
        BY <2>1, <2>4, <2>6 DEF OrderInv
      <3>2. short = 0 /\ ~liquidated
        BY <2>1, <2>6 DEF Books
      <3>3. Exposure = "flat" /\ Exposure' = "flat"
        BY <2>1, <3>2 DEF Exposure
      <3>4. QED
        BY <1>1, <1>3, <2>1, <3>1, <3>3 DEF Moves, Matches
    <2>7. QED
      BY <2>5, <2>6
  <1>7. CASE Liquidation
    <2>1. /\ short > 0 /\ short' = 0 /\ liquidated'
          /\ UNCHANGED <<positions, filled>>
      BY <1>7 DEF Liquidation, durable
    <2>2. PICK id \in OrderIds : Live(id)
      BY <2>1 DEF Books
    <2>3. Exposure = "held" /\ Exposure' = "exited"
      BY <2>1, <2>2 DEF Exposure, Live
    <2>4. OpenRecord' = OpenRecord
      BY <2>1 DEF OpenRecord
    <2>5. QED
      BY <1>1, <2>3, <2>4 DEF Moves
  <1>8. QED
    BY <1>4, <1>5, <1>6, <1>7

\* All the others touch neither the state file nor records nor the exchange.
LEMMA AbstractStep ==
  ASSUME Complete, IInv, Books, [Next]_vars
  PROVE  [FailClosed!Next]_FailClosed!vars
  <1>1. CASE \/ Start \/ Sweep \/ WaitNextCandle \/ ReadFails \/ WriteFails \/ Crash
             \/ CandleCloses \/ UNCHANGED vars
             \/ Fetch \/ LivePrice \/ DecideHeld \/ DecideFlat \/ SubmitFails \/ Snapshot
    <2>1. UNCHANGED <<state, positions, filled, short, liquidated>>
      BY <1>1 DEF Start, Sweep, WaitNextCandle, ReadFails, WriteFails, Crash,
                  CandleCloses, vars, durable, exchange, Fetch, LivePrice,
                  DecideHeld, DecideFlat, SubmitFails, Snapshot
    <2>2. Moves
      BY <2>1 DEF Moves, Same, Mode, Exposure, OpenRecord
    <2>3. QED
      BY <2>2, Lift
  <1>2. QED
    BY <1>1, AbstractStateSteps, AbstractOrderSteps, Lift
    DEF Next, Process, Environment

(***************************************************************************)
(* The theorems.                                                           *)
(***************************************************************************)
\* IInv holds initially and every step keeps it.
THEOREM Invariance == Spec => []IInv
  BY Initial, StepKeeps, PTL DEF Spec

\* Every file, counter and local variable stays in its type.
THEOREM TypeCorrect == Spec => []TypeOK
  <1>1. IInv => TypeOK
    BY DEF IInv
  <1>2. QED
    BY Invariance, <1>1, PTL

\* Whatever a market close leaves open: a trader that may trade has every
\* executed entry it has not closed in its position file, and one at most
\* (assert_ready with _active_position).
THEOREM NoEntryUntracked == Spec => [](Ready(state) => Recorded /\ OneLive)
  <1>1. IInv => (Ready(state) => Recorded /\ OneLive)
    BY DEF IInv
  <1>2. QED
    BY Invariance, <1>1, PTL

\* No order reaches the exchange without its attempt on disk, and none is sent
\* by a halted trader (begin_order_attempt before the POST).
THEOREM Journaled == Spec => JournaledBeforeSubmit
  <1>1. ASSUME IInv, [Next]_vars, Submitted
        PROVE  state.attempt = "SUBMITTING" /\ ~state.halted
    <2>1. ~Liquidation
      BY <1>1 DEF Liquidation, Submitted, IInv, TypeOK
    <2>2. ~Record
      BY <1>1 DEF Record, Submitted, exchange
    <2>3. ~Unmoved
      BY <1>1 DEF Unmoved, Submitted
    <2>4. SubmitShort \/ SubmitClose
      BY <1>1, <2>1, <2>2, <2>3, MostStepsUnmoved DEF IInv
    <2>5. QED
      BY <1>1, <2>4 DEF SubmitShort, SubmitClose, IInv, OrderInv
  <1>2. IInv /\ [Next]_vars =>
          [Submitted => state.attempt = "SUBMITTING" /\ ~state.halted]_vars
    BY <1>1
  <1>3. QED
    BY Invariance, <1>2, PTL DEF Spec, JournaledBeforeSubmit

\* With market closes that execute completely the second layer holds too.
THEOREM BooksInvariance ==
  ASSUME Complete
  PROVE  Spec => []Books
  <1>1. Init => Books
    BY DEF Init, Books, Live
  <1>2. IInv /\ Books /\ [Next]_vars => Books'
    BY StepKeepsBooks
  <1>3. QED
    BY Invariance, <1>1, <1>2, PTL DEF Spec

\* While the trader may trade, the account is short exactly what the position
\* file says or was liquidated, and never more than one entry can execute,
\* whatever is retried or restarted.
THEOREM BooksTrue ==
  ASSUME Complete
  PROVE  Spec => []BooksMatchExchange
  <1>1. ASSUME IInv, Books PROVE BooksMatchExchange
    <2> DEFINE open == ActivePositions(positions, Strategy)
    <2>1. OneShort
      <3>1. short = 0 \/ \E id \in OrderIds : short = filled[id]
        BY <1>1 DEF Books
      <3>2. \A id \in OrderIds : filled[id] \in 0 .. Lot
        BY <1>1 DEF IInv, TypeOK
      <3>3. QED
        BY <3>1, <3>2, ConstantsAssumption DEF OneShort
    <2>2. ASSUME Ready(state)
          PROVE  \/ short = 0 /\ (open = {} \/ liquidated)
                 \/ \E id \in open : open = {id} /\ short = filled[id]
      <3>1. \A id : id \in open <=> id \in OrderIds /\ Live(id)
        BY <1>1, <2>2
        DEF IInv, TypeOK, Recorded, EntriesAgree, EntryAgrees, Tracked, Live,
            ActivePositions
      <3>2. \A i, j \in open : i = j
        BY <1>1, <3>1 DEF IInv, OneLive
      <3>3. CASE short = 0
        <4>1. ASSUME NEW id \in open PROVE liquidated
          <5>1. Live(id) /\ ShortOf(id) /\ filled[id] \in 0 .. Lot
            BY <1>1, <2>2, <3>1, <4>1 DEF Books, IInv, TypeOK
          <5>2. QED
            BY <3>3, <5>1 DEF ShortOf, Live
        <4>2. QED
          BY <3>3, <4>1
      <3>4. CASE short # 0
        <4>1. PICK id \in OrderIds : Live(id) /\ short = filled[id]
          BY <1>1, <3>4 DEF Books
        <4> HIDE DEF open
        <4>2. id \in open /\ open = {id}
          BY <3>1, <3>2, <4>1
        <4>3. QED
          BY <4>1, <4>2
      <3>5. QED
        BY <3>3, <3>4
    <2>3. QED
      BY <2>1, <2>2 DEF BooksMatchExchange
  <1>2. IInv /\ Books => BooksMatchExchange
    BY <1>1
  <1>3. QED
    BY Invariance, BooksInvariance, <1>2, PTL

\* Seen from outside, the automation only sells short when flat and untracked,
\* only closes a tracked short, and once blocked changes nothing ever again.
THEOREM Implementation ==
  ASSUME Complete
  PROVE  Spec => ImplementsFailClosed
  <1>1. IInv /\ Books /\ [Next]_vars => [FailClosed!Next]_FailClosed!vars
    BY AbstractStep
  <1>2. QED
    BY Invariance, BooksInvariance, AbstractInit, <1>1, PTL
    DEF Spec, ImplementsFailClosed, FailClosed!Spec

(***************************************************************************)
(* The live room.  The room's trader appends or prints what it has saved   *)
(* before it does anything else, and a record of a close at a level closes *)
(* the trade in the snapshot for good: so a closed trade is shown active   *)
(* only as long as its record is still to come.                            *)
(***************************************************************************)
RoomIds == Room!Orders \cup {Room!NoOrder}

Results == [event : {"NONE", "FILLED", "HALTED"} \cup Room!Reasons, id : RoomIds]

Records ==
  [event : {"STATE_CHANGED", "order_filled", "ORDER_OPEN", "CIRCUIT_BREAKER"} \cup Levels,
   id : RoomIds, validation : BOOLEAN]

\* What the types of the files and of the viewer rest on.
RoomTyped ==
  /\ Room!TypeOK
  /\ roomJob \in [result : Results, left : Seq(Records)]
  /\ printed \in Seq(Results)
  /\ unread \subseteq Records
  /\ roomFaults \in Nat /\ probes \in Nat

ShownClosed(id) == lifecycle[id] = "POSITION_CLOSED"

\* The series of a close is still to be appended.
ToAppend(id) ==
  roomJob = [result |-> Room!Result(row[id], id),
             left |-> <<Room!Record(row[id], id)>>]

ShowInv ==
  /\ \A id \in Room!Orders : \A i \in 1 .. echoed :
       printed[i].id = id /\ printed[i].event \in Levels => ShownClosed(id)
  /\ \A id \in Room!Orders :
       ~legacy /\ roomFaults = 0 /\ row[id] \in Levels => ShownClosed(id) \/ ToAppend(id)

RInv == RoomTyped /\ ShowInv


\* The states of a trade in the snapshot (TRADE_STATE_PROGRESS).
TradeStates == {"NONE", "ORDER_OPENED", "POSITION_ACTIVE", "POSITION_CLOSED"}

\* _project_trade: a record leaves a state of a trade, closed stays closed, and a
\* close at a level closes.
LEMMA Advances ==
  ASSUME NEW was \in TradeStates, NEW event
  PROVE  /\ Room!Advance(was, event) \in TradeStates
         /\ was = "POSITION_CLOSED" \/ event \in Levels =>
              Room!Advance(was, event) = "POSITION_CLOSED"
  <1>1. Room!LifecycleState(event) \in TradeStates
    BY DEF Room!LifecycleState, TradeStates
  <1>2. event \in Levels => Room!LifecycleState(event) = "POSITION_CLOSED"
    BY RoomAssumption DEF Room!LifecycleState
  <1>3. Room!LifecycleState(event) = "POSITION_CLOSED" =>
          Room!Advance(was, event) = "POSITION_CLOSED"
    BY DEF Room!Advance, Room!Progress, TradeStates
  <1>4. was = "POSITION_CLOSED" => Room!Advance(was, event) = "POSITION_CLOSED"
    BY <1>1 DEF Room!Advance, Room!Progress, TradeStates
  <1>5. QED
    BY <1>1, <1>2, <1>3, <1>4 DEF Room!Advance

\* publish_result with read_from: the records a viewer still has to read are
\* records, and the snapshot's trades move on.
LEMMA Publishes ==
  ASSUME RoomTyped, NEW records \in Seq(Records), records # << >>,
         Room!Publish(records)
  PROVE  /\ unread' \subseteq Records /\ split' \in BOOLEAN
         /\ lifecycle' \in [Room!Orders -> DOMAIN Room!Progress]
         /\ \A id \in Room!Orders : ShownClosed(id) => ShownClosed(id)'
         /\ \A id \in Room!Orders :
              records[1].id = id /\ records[1].event \in Levels => ShownClosed(id)'
  <1> USE DEF ShownClosed
  <1>1. lifecycle \in [Room!Orders -> TradeStates]
    BY DEF RoomTyped, Room!TypeOK, Room!Progress, TradeStates
  <1>2. Len(records) \in Nat \ {0} /\ records[1] \in Records
    OBVIOUS
  <1>3. lifecycle' =
          [id \in Room!Orders |-> Room!Advanced(lifecycle[id], id, records)]
    BY DEF Room!Publish
  <1>4. ASSUME NEW id \in Room!Orders
        PROVE  /\ lifecycle'[id] \in TradeStates
               /\ ShownClosed(id) => ShownClosed(id)'
               /\ records[1].id = id /\ records[1].event \in Levels => ShownClosed(id)'
    <2> DEFINE After(was, r) == IF r.id = id THEN Room!Advance(was, r.event) ELSE was
               one == After(lifecycle[id], records[1])
    <2>1. /\ one \in TradeStates
          /\ ShownClosed(id) => one = "POSITION_CLOSED"
          /\ records[1].id = id /\ records[1].event \in Levels => one = "POSITION_CLOSED"
      BY <1>1, Advances
    <2>2. /\ After(one, records[2]) \in TradeStates
          /\ one = "POSITION_CLOSED" => After(one, records[2]) = "POSITION_CLOSED"
      BY <2>1, Advances
    <2>3. lifecycle'[id] = IF Len(records) = 1 THEN one ELSE After(one, records[2])
      BY <1>2, <1>3 DEF Room!Advanced
    <2>4. QED
      BY <2>1, <2>2, <2>3
  <1>5. lifecycle' \in [Room!Orders -> DOMAIN Room!Progress]
    BY <1>3, <1>4 DEF Room!Progress, TradeStates
  <1>6. unread' \subseteq Records
    <2> DEFINE read == IF split THEN Tail(records) ELSE records
    <2>1. read \in Seq(Records)
      OBVIOUS
    <2>2. Room!ToSet(read) \subseteq Records
      BY <2>1 DEF Room!ToSet
    <2>3. Room!Activity \in Records
      BY DEF Room!Activity, Room!Record, Records, RoomIds
    <2>4. QED
      BY <2>2, <2>3 DEF Room!Publish, RoomTyped
  <1>7. QED
    BY <1>4, <1>5, <1>6 DEF Room!Publish

\* A series is one record or two, a close at a level is one.
LEMMA SeriesOf ==
  ASSUME NEW result \in Results
  PROVE  /\ Room!Series(result) \in Seq(Records) /\ Room!Series(result) # << >>
         /\ result.event \in Levels =>
              Room!Series(result) = <<Room!Record(result.event, result.id)>>
  <1>1. \A event \in {"STATE_CHANGED", "order_filled", "ORDER_OPEN",
                      "CIRCUIT_BREAKER"} \cup Levels :
          \A id \in RoomIds : Room!Record(event, id) \in Records
    BY DEF Room!Record, Records
  <1>2. result.id \in RoomIds /\ Room!NoOrder \in RoomIds
    BY DEF Results, RoomIds
  <1>3. CASE result.event = "FILLED"
    <2>1. Room!Series(result) =
            <<Room!Record("order_filled", result.id), Room!Record("ORDER_OPEN", result.id)>>
      BY <1>3, RoomAssumption DEF Room!Series
    <2>2. QED
      BY <1>1, <1>2, <1>3, <2>1, RoomAssumption
  <1>4. CASE result.event \in Levels
    <2>1. Room!Series(result) = <<Room!Record(result.event, result.id)>>
      BY <1>4, RoomAssumption DEF Room!Series
    <2>2. Room!Record(result.event, result.id) \in Records
      BY <1>1, <1>2, <1>4
    <2>3. QED
      BY <1>4, <2>1, <2>2, RoomAssumption
  <1>5. CASE result.event = "HALTED"
    <2>1. Room!Series(result) = <<Room!Record("CIRCUIT_BREAKER", Room!NoOrder)>>
      BY <1>5, RoomAssumption DEF Room!Series
    <2>2. QED
      BY <1>1, <1>2, <1>5, <2>1, RoomAssumption
  <1>6. CASE result.event \notin {"FILLED", "HALTED"} \cup Levels
    <2>1. Room!Series(result) = <<Room!Activity>>
      BY <1>6 DEF Room!Series
    <2>2. QED
      BY <1>1, <1>2, <1>6, <2>1 DEF Room!Activity
  <1>7. QED
    BY <1>3, <1>4, <1>5, <1>6

\* Files, results and job stay, the sidecar may start again, no closed trade is
\* reopened: what is shown stays true.
LEMMA ShowKept ==
  ASSUME RoomTyped, ShowInv,
         row' = row, legacy' = legacy, printed' = printed, echoed' \in 0 .. echoed,
         roomFaults' # 0 \/ UNCHANGED <<roomFaults, roomJob>>,
         \A id \in Room!Orders : ShownClosed(id) => ShownClosed(id)'
  PROVE  ShowInv'
  <1>1. \A i : i \in 1 .. echoed' => i \in 1 .. echoed
    BY DEF RoomTyped, Room!TypeOK
  <1>2. QED
    BY <1>1 DEF ShowInv, ToAppend

\* An entry, an exit or a halt is saved, and its result begins.
LEMMA SavesKeep ==
  ASSUME RInv, (\E id \in Room!Orders : Room!Opens(id) \/ Room!Closes(id)) \/ Room!Halts
  PROVE  RInv'
  <1> USE DEF Room!Begins
  <1>1. /\ roomJob = Room!NoJob
        /\ UNCHANGED <<legacy, printed, echoed, unread, split, viewer, view, lifecycle,
                       told, shown, roomFaults, probes>>
    BY DEF Room!Opens, Room!Closes, Room!Halts, Room!Idle, Room!appended, Room!stream
  <1>2. \A id \in Room!Orders : ~ToAppend(id)
    BY <1>1 DEF ToAppend, Room!NoJob
  <1>3. PICK result \in Results :
          /\ roomJob' = [result |-> result,
                         left |-> IF legacy THEN << >> ELSE Room!Series(result)]
          /\ row' \in [Room!Orders -> {"NONE", "OPEN"} \cup Room!Reasons]
          /\ halted' \in BOOLEAN
          /\ \A id \in Room!Orders :
               row'[id] \in Levels => row[id] = row'[id] \/ result = Room!Result(row'[id], id)
    <2>1. CASE Room!Halts
      <3>1. Room!Result("HALTED", Room!NoOrder) \in Results
        BY DEF Room!Result, Results, RoomIds
      <3>2. QED
        BY <2>1, <3>1 DEF Room!Halts, RInv, RoomTyped, Room!TypeOK
    <2>2. ASSUME NEW id \in Room!Orders, Room!Opens(id) \/ Room!Closes(id)
          PROVE  \E reason \in {"OPEN"} \cup Room!Reasons :
                   /\ row' = [row EXCEPT ![id] = reason]
                   /\ Room!Begins(Room!Result(IF reason = "OPEN" THEN "FILLED" ELSE reason, id))
                   /\ halted' = halted
      BY <2>2, RoomAssumption DEF Room!Opens, Room!Closes, Room!Reasons
    <2>3. CASE \E id \in Room!Orders : Room!Opens(id) \/ Room!Closes(id)
      <3>1. PICK id \in Room!Orders, reason \in {"OPEN"} \cup Room!Reasons :
              /\ row' = [row EXCEPT ![id] = reason]
              /\ Room!Begins(Room!Result(IF reason = "OPEN" THEN "FILLED" ELSE reason, id))
              /\ halted' = halted
        BY <2>2, <2>3
      <3>2. Room!Result(IF reason = "OPEN" THEN "FILLED" ELSE reason, id) \in Results
        BY DEF Room!Result, Results, RoomIds
      <3>3. "OPEN" \notin Levels
        BY RoomAssumption
      <3>4. QED
        BY <3>1, <3>2, <3>3 DEF RInv, RoomTyped, Room!TypeOK, Results, RoomIds
    <2>4. QED
      BY <2>1, <2>3
  <1>4. RoomTyped'
    <2>1. roomJob' \in [result : Results, left : Seq(Records)]
      BY <1>3, SeriesOf
    <2>2. QED
      BY <1>1, <1>3, <2>1 DEF RInv, RoomTyped, Room!TypeOK, Results, RoomIds
  <1>5. ASSUME NEW id \in Room!Orders,
               ~legacy', roomFaults' = 0, row'[id] \in Levels
        PROVE  ShownClosed(id)' \/ ToAppend(id)'
    <2>1. CASE row[id] = row'[id]
      BY <1>1, <1>2, <1>5, <2>1 DEF RInv, ShowInv, ShownClosed
    <2>2. CASE result = Room!Result(row'[id], id)
      <3>1. Room!Series(result) = <<Room!Record(row'[id], id)>>
        BY <1>5, <2>2, SeriesOf DEF Room!Result
      <3>2. QED
        BY <1>1, <1>3, <1>5, <2>2, <3>1 DEF ToAppend
    <2>3. QED
      BY <1>3, <1>5, <2>1, <2>2
  <1>6. ShowInv'
    BY <1>1, <1>5 DEF RInv, ShowInv, ShownClosed
  <1>7. QED
    BY <1>4, <1>6 DEF RInv

\* A record of the job is appended.
LEMMA TraderPublishesKeeps ==
  ASSUME RInv, Room!TraderPublishes
  PROVE  RInv'
  <1> DEFINE record == Head(roomJob.left)
  <1>1. roomJob.left \in Seq(Records) /\ roomJob.left # << >>
    BY DEF RInv, RoomTyped, Room!TraderPublishes
  <1>2. <<record>> \in Seq(Records) /\ <<record>> # << >> /\ Room!Publish(<<record>>)
    BY <1>1 DEF Room!TraderPublishes
  <1>3. /\ unread' \subseteq Records /\ split' \in BOOLEAN
        /\ lifecycle' \in [Room!Orders -> DOMAIN Room!Progress]
        /\ \A id \in Room!Orders : ShownClosed(id) => ShownClosed(id)'
        /\ \A id \in Room!Orders :
             record.id = id /\ record.event \in Levels => ShownClosed(id)'
    <2> HIDE DEF record
    <2>1. <<record>>[1] = record
      OBVIOUS
    <2>2. QED
      BY <1>2, <2>1, Publishes DEF RInv
  <1>4. /\ UNCHANGED <<row, halted, legacy, printed, echoed, viewer, view, told, shown,
                       roomFaults, probes>>
        /\ roomJob' \in [result : Results, left : Seq(Records)]
    <2>1. Tail(roomJob.left) \in Seq(Records)
      BY <1>1
    <2>2. QED
      BY <2>1 DEF Room!TraderPublishes, Room!files, Room!stream, RInv, RoomTyped
  <1>5. RoomTyped'
    BY <1>3, <1>4 DEF RInv, RoomTyped, Room!TypeOK, Results, RoomIds
  <1>6. ASSUME NEW id \in Room!Orders, ToAppend(id), row[id] \in Levels
        PROVE  ShownClosed(id)'
    <2>1. record = Room!Record(row[id], id)
      BY <1>6 DEF ToAppend
    <2>2. QED
      BY <1>3, <1>6, <2>1 DEF Room!Record
  <1>7. ShowInv'
    BY <1>3, <1>4, <1>6 DEF RInv, ShowInv
  <1>8. QED
    BY <1>5, <1>7 DEF RInv

\* The result of the round is printed.
LEMMA PrintsKeeps ==
  ASSUME RInv, Room!Prints
  PROVE  RInv'
  <1>1. /\ UNCHANGED <<row, halted, legacy, echoed, unread, split, viewer, view,
                       lifecycle, told, shown, roomFaults, probes>>
        /\ printed' = Append(printed, roomJob.result)
        /\ roomJob' = Room!NoJob /\ roomJob.left = << >>
    BY DEF Room!Prints, Room!files, Room!appended, Room!stream
  <1>2. /\ printed' \in Seq(Results) /\ Len(printed') = Len(printed) + 1
        /\ echoed \in 0 .. Len(printed)
        /\ \A i \in 1 .. echoed : printed'[i] = printed[i]
    BY <1>1 DEF RInv, RoomTyped, Room!TypeOK, Results, RoomIds
  <1>3. roomJob' \in [result : Results, left : Seq(Records)]
    BY <1>1 DEF Room!NoJob, Room!NoResult, Room!Result, Results, RoomIds
  <1>4. RoomTyped'
    BY <1>1, <1>2, <1>3 DEF RInv, RoomTyped, Room!TypeOK, Results, RoomIds
  <1>5. \A id \in Room!Orders : ~ToAppend(id)
    <2>1. \A r : << >> # <<r>>
      OBVIOUS
    <2>2. ASSUME NEW id \in Room!Orders, ToAppend(id) PROVE FALSE
      <3>1. roomJob.left = <<Room!Record(row[id], id)>>
        BY <2>2 DEF ToAppend
      <3>2. QED
        BY <1>1, <2>1, <3>1
    <2>3. QED
      BY <2>2
  <1>6. ShowInv'
    BY <1>1, <1>2, <1>5 DEF RInv, ShowInv, ShownClosed
  <1>7. QED
    BY <1>4, <1>6 DEF RInv

\* The sidecar appends the series of the next printed result.
LEMMA EchoesKeeps ==
  ASSUME RInv, Room!Echoes
  PROVE  RInv'
  <1> DEFINE result == printed[echoed + 1]
             records == Room!Series(result)
  <1>1. /\ UNCHANGED <<row, halted, legacy, roomJob, printed, viewer, view, told, shown,
                       roomFaults, probes>>
        /\ echoed' = echoed + 1 /\ echoed < Len(printed) /\ Room!Publish(records)
    BY DEF Room!Echoes, Room!files, Room!trader, Room!stream
  <1>2. /\ echoed \in Nat /\ echoed' \in 0 .. Len(printed) /\ result \in Results
        /\ 1 .. echoed' = (1 .. echoed) \cup {echoed + 1}
    <2>1. printed \in Seq(Results) /\ echoed \in 0 .. Len(printed)
      BY DEF RInv, RoomTyped, Room!TypeOK
    <2>2. Len(printed) \in Nat /\ echoed + 1 \in 1 .. Len(printed)
      BY <1>1, <2>1
    <2>3. result \in Results
      BY <2>1, <2>2
    <2>4. QED
      BY <1>1, <2>1, <2>2, <2>3
  <1>3. /\ records \in Seq(Records) /\ records # << >>
        /\ result.event \in Levels =>
             records = <<Room!Record(result.event, result.id)>>
    BY <1>2, SeriesOf
  <1>4. /\ unread' \subseteq Records /\ split' \in BOOLEAN
        /\ lifecycle' \in [Room!Orders -> DOMAIN Room!Progress]
        /\ \A id \in Room!Orders : ShownClosed(id) => ShownClosed(id)'
        /\ \A id \in Room!Orders :
             records[1].id = id /\ records[1].event \in Levels => ShownClosed(id)'
    <2> HIDE DEF records
    <2>1. QED
      BY <1>1, <1>3, Publishes DEF RInv
  <1>5. RoomTyped'
    BY <1>1, <1>2, <1>4 DEF RInv, RoomTyped, Room!TypeOK, Results, RoomIds
  <1>6. ASSUME NEW id \in Room!Orders, result.id = id, result.event \in Levels
        PROVE  ShownClosed(id)'
    <2>1. records[1] = Room!Record(result.event, result.id)
      BY <1>3, <1>6
    <2>2. QED
      BY <1>4, <1>6, <2>1 DEF Room!Record
  <1>7. ShowInv'
    <2>1. ASSUME NEW id \in Room!Orders, NEW i \in 1 .. echoed',
                 printed'[i].id = id, printed'[i].event \in Levels
          PROVE  ShownClosed(id)'
      BY <1>1, <1>2, <1>4, <1>6, <2>1 DEF RInv, ShowInv
    <2>2. ASSUME NEW id \in Room!Orders, ~legacy', roomFaults' = 0, row'[id] \in Levels
          PROVE  ShownClosed(id)' \/ ToAppend(id)'
      BY <1>1, <1>4, <2>2 DEF RInv, ShowInv, ToAppend
    <2>3. QED
      BY <2>1, <2>2 DEF ShowInv
  <1>8. QED
    BY <1>5, <1>7 DEF RInv

\* A record that belongs to no trade.
LEMMA OthersPublishKeep ==
  ASSUME RInv, Room!Round \/ Room!Probe
  PROVE  RInv'
  <1>1. /\ UNCHANGED <<row, halted, legacy, roomJob, printed, echoed, viewer, view, told,
                       shown, roomFaults>>
        /\ probes' \in Nat
    BY DEF Room!Round, Room!Probe, Room!files, Room!trader, Room!stream, RInv, RoomTyped
  <1>2. PICK record \in Records : Room!Publish(<<record>>)
    <2>1. Room!Activity \in Records
      BY DEF Room!Activity, Room!Record, Records, RoomIds
    <2>2. [Room!Record("CIRCUIT_BREAKER", Room!NoOrder) EXCEPT !.validation = TRUE]
            \in Records
      BY DEF Room!Record, Records, RoomIds
    <2>3. QED
      BY <2>1, <2>2 DEF Room!Round, Room!Probe
  <1>3. <<record>> \in Seq(Records) /\ <<record>> # << >>
    OBVIOUS
  <1>4. /\ unread' \subseteq Records /\ split' \in BOOLEAN
        /\ lifecycle' \in [Room!Orders -> DOMAIN Room!Progress]
        /\ \A id \in Room!Orders : ShownClosed(id) => ShownClosed(id)'
    BY <1>2, <1>3, Publishes DEF RInv
  <1>5. RoomTyped'
    BY <1>1, <1>4 DEF RInv, RoomTyped, Room!TypeOK, Results, RoomIds
  <1>6. echoed' \in 0 .. echoed
    BY <1>1 DEF RInv, RoomTyped, Room!TypeOK, Results, RoomIds
  <1>7. QED
    BY <1>1, <1>4, <1>5, <1>6, ShowKept DEF RInv

\* The keys an event may have.
KeySpace == Room!Keyed \X RoomIds

\* The local variables of the stream.
Viewers ==
  [pc : Room!Labels, active : SUBSET Room!Orders, closed : SUBSET Room!Orders,
   halts : BOOLEAN, changed : BOOLEAN, emitted : SUBSET KeySpace]

\* _event_key of records, of rows and of the halt.
LEMMA KeyTypes ==
  /\ \A records \in SUBSET Records : Room!Keys(records) \subseteq KeySpace
  /\ \A event \in Room!Keyed, id \in RoomIds : Room!Key(event, id) \in KeySpace
  <1>1. \A event \in Room!Keyed, id \in RoomIds : Room!Key(event, id) \in KeySpace
    BY DEF Room!Key, KeySpace
  <1>2. \A r \in Records : r.id \in RoomIds
    BY DEF Records
  <1>3. QED
    BY <1>1, <1>2 DEF Room!Keys

\* The stream moves on in one of its reads, its snapshots or its messages.
LEMMA ViewerSteps ==
  ASSUME RInv, Room!Connects \/ Room!Serves \/ Room!Disconnects
  PROVE  /\ viewer' \in Viewers
         /\ view' \in [open : SUBSET Room!Orders, halted : BOOLEAN]
         /\ unread' \subseteq Records /\ split' \in BOOLEAN
         /\ roomFaults' = roomFaults \/ roomFaults' \in Nat \ {0}
         /\ UNCHANGED <<row, halted, legacy, roomJob, printed, echoed, lifecycle, probes>>
  <1> USE DEF Room!ViewerAt
  <1>1. /\ viewer \in Viewers /\ view \in [open : SUBSET Room!Orders, halted : BOOLEAN]
        /\ unread \subseteq Records /\ split \in BOOLEAN /\ halted \in BOOLEAN
        /\ roomFaults \in Nat
    BY DEF RInv, RoomTyped, Room!TypeOK, Viewers, KeySpace, RoomIds
  <1>2. Room!Files \in [open : SUBSET Room!Orders, halted : BOOLEAN]
    BY <1>1 DEF Room!Files
  <1>3. Room!ClosedRows \in SUBSET Room!Orders
    BY DEF Room!ClosedRows
  <1>4. \A id \in Room!Orders : Room!Key("ORDER_OPEN", id) \in KeySpace
    BY KeyTypes DEF Room!Keyed, RoomIds
  <1>5. Room!Key("CIRCUIT_BREAKER", Room!NoOrder) \in KeySpace
    BY KeyTypes DEF Room!Keyed, RoomIds
  <1>6. CASE Room!Connects
    BY <1>1, <1>6
    DEF Room!Connects, Room!files, Room!trader, Viewers, Room!Labels
  <1>7. ASSUME NEW label, NEW next \in Room!Labels, NEW loaded \in Viewers,
               Room!Loads(label, next, loaded)
        PROVE  /\ viewer' \in Viewers
               /\ UNCHANGED <<row, halted, legacy, roomJob, printed, echoed, unread, split,
                              lifecycle, view, roomFaults, probes>>
    BY <1>7 DEF Room!Loads, Room!files, Room!trader, Room!appended, Viewers
  <1>8. CASE Room!LoadsActive \/ Room!LoadsClosed \/ Room!LoadsHalts
    <2>1. "closed" \in Room!Labels /\ "halts" \in Room!Labels /\ "snapshot" \in Room!Labels
      BY DEF Room!Labels
    <2>2. [viewer EXCEPT !.active = Room!Files.open] \in Viewers
      BY <1>1, <1>2 DEF Viewers
    <2>3. [viewer EXCEPT !.closed = Room!ClosedRows] \in Viewers
      BY <1>1, <1>3 DEF Viewers
    <2>4. [viewer EXCEPT !.halts = halted,
                         !.emitted = {Room!Key("ORDER_OPEN", id) : id \in viewer.active}
                           \cup (IF halted THEN {Room!Key("CIRCUIT_BREAKER", Room!NoOrder)}
                                 ELSE {})] \in Viewers
      BY <1>1, <1>4, <1>5 DEF Viewers
    <2>5. QED
      BY <1>1, <1>7, <1>8, <2>1, <2>2, <2>3, <2>4
      DEF Room!LoadsActive, Room!LoadsClosed, Room!LoadsHalts
  <1>9. CASE Room!FirstSnapshot
    BY <1>1, <1>2, <1>9
    DEF Room!FirstSnapshot, Room!files, Room!trader, Room!appended, Viewers, Room!Labels
  <1>10. CASE Room!FirstOpens
    BY <1>1, <1>10
    DEF Room!FirstOpens, Room!files, Room!trader, Room!appended, Viewers, Room!Labels
  <1>11. CASE Room!ReadsJournal
    <2>1. Room!Keys(unread) \subseteq KeySpace
      BY <1>1, KeyTypes
    <2>2. viewer' \in Viewers
      BY <1>1, <1>11, <2>1 DEF Room!ReadsJournal, Viewers, Room!Labels
    <2>3. roomFaults' = roomFaults \/ roomFaults' \in Nat \ {0}
      BY <1>1, <1>11 DEF Room!ReadsJournal, Room!Fault
    <2>4. QED
      BY <1>1, <1>11, <2>2, <2>3 DEF Room!ReadsJournal, Room!files, Room!trader
  <1>12. ASSUME NEW keys \in SUBSET KeySpace, NEW next \in Room!Labels,
                NEW loaded \in Viewers, Room!FilesTell(keys, next, loaded)
         PROVE  viewer' \in Viewers
    BY <1>12 DEF Room!FilesTell, Viewers
  <1>13. "tellClosed" \in Room!Labels /\ "tellHalts" \in Room!Labels /\ "refresh" \in Room!Labels
    BY DEF Room!Labels
  <1>14. CASE Room!TellsOpens
    <2>1. {Room!Key("ORDER_OPEN", id) : id \in Room!Files.open \ viewer.active}
            \in SUBSET KeySpace
      BY <1>2, <1>4
    <2>2. [viewer EXCEPT !.active = Room!Files.open] \in Viewers
      BY <1>1, <1>2 DEF Viewers
    <2>3. viewer' \in Viewers
      BY <1>12, <1>13, <1>14, <2>1, <2>2 DEF Room!TellsOpens
    <2>4. QED
      BY <1>1, <1>14, <2>3 DEF Room!TellsOpens, Room!files, Room!trader, Room!appended
  <1>15. CASE Room!TellsClosed
    <2>1. {Room!Key(row[id], id) : id \in {n \in Room!NewlyClosed : row[n] \in Levels}}
            \in SUBSET KeySpace
      BY <1>3, KeyTypes DEF Room!NewlyClosed, Room!Keyed, RoomIds
    <2>2. [viewer EXCEPT !.closed = Room!ClosedRows] \in Viewers
      BY <1>1, <1>3 DEF Viewers
    <2>3. viewer' \in Viewers
      BY <1>12, <1>13, <1>15, <2>1, <2>2 DEF Room!TellsClosed
    <2>4. QED
      BY <1>1, <1>15, <2>3 DEF Room!TellsClosed, Room!files, Room!trader, Room!appended
  <1>16. CASE Room!TellsHalts
    <2>1. (IF halted /\ ~viewer.halts THEN {Room!Key("CIRCUIT_BREAKER", Room!NoOrder)}
           ELSE {}) \in SUBSET KeySpace
      BY <1>5
    <2>2. [viewer EXCEPT !.halts = halted] \in Viewers
      BY <1>1 DEF Viewers
    <2>3. viewer' \in Viewers
      BY <1>12, <1>13, <1>16, <2>1, <2>2 DEF Room!TellsHalts
    <2>4. QED
      BY <1>1, <1>16, <2>3 DEF Room!TellsHalts, Room!files, Room!trader, Room!appended
  <1>17. CASE Room!Refreshes
    BY <1>1, <1>2, <1>17
    DEF Room!Refreshes, Room!files, Room!trader, Room!appended, Viewers, Room!Labels
  <1>18. CASE Room!Disconnects
    BY <1>1, <1>18
    DEF Room!Disconnects, Room!files, Room!trader, Room!NoViewer, Viewers, Room!Labels
  <1>19. QED
    BY <1>6, <1>8, <1>9, <1>10, <1>11, <1>14, <1>15, <1>16, <1>17, <1>18 DEF Room!Serves

\* The viewer reads; a round fails; the sidecar rewinds.
LEMMA ReadersKeep ==
  ASSUME RInv,
         \/ Room!Connects \/ Room!Serves \/ Room!Disconnects
         \/ Room!RoundFails \/ Room!EchoRewinds
  PROVE  RInv'
  <1>1. CASE Room!Connects \/ Room!Serves \/ Room!Disconnects
    <2>1. RoomTyped'
      BY <1>1, ViewerSteps
      DEF RInv, RoomTyped, Room!TypeOK, Viewers, KeySpace, RoomIds
    <2>2. /\ echoed' \in 0 .. echoed
          /\ roomFaults' # 0 \/ UNCHANGED <<roomFaults, roomJob>>
          /\ UNCHANGED <<row, legacy, printed, lifecycle>>
      BY <1>1, ViewerSteps DEF RInv, RoomTyped, Room!TypeOK
    <2>3. QED
      BY <2>1, <2>2, ShowKept DEF RInv, ShownClosed
  <1>2. CASE Room!RoundFails \/ Room!EchoRewinds
    <2>1. /\ UNCHANGED <<row, halted, legacy, printed, unread, split, viewer, view,
                         lifecycle, told, shown, probes>>
          /\ roomFaults' = roomFaults + 1
          /\ roomJob' = roomJob \/ roomJob' = Room!NoJob
          /\ echoed' \in 0 .. echoed
      BY <1>2
      DEF Room!RoundFails, Room!EchoRewinds, Room!Fault, Room!files, Room!trader,
          Room!appended, Room!stream, RInv, RoomTyped, Room!TypeOK
    <2>2. roomJob' \in [result : Results, left : Seq(Records)]
      <3>1. Room!NoJob \in [result : Results, left : Seq(Records)]
        BY DEF Room!NoJob, Room!NoResult, Room!Result, Results, RoomIds
      <3>2. QED
        BY <2>1, <3>1 DEF RInv, RoomTyped
    <2>3. RoomTyped'
      BY <2>1, <2>2 DEF RInv, RoomTyped, Room!TypeOK, Results, RoomIds
    <2>4. roomFaults' # 0
      BY <2>1 DEF RInv, RoomTyped
    <2>5. \A id \in Room!Orders : ShownClosed(id) => ShownClosed(id)'
      BY <2>1 DEF ShownClosed
    <2>6. ShowInv'
      <3>1. /\ row' = row /\ legacy' = legacy /\ printed' = printed
            /\ echoed' \in 0 .. echoed
            /\ roomFaults' # 0 \/ UNCHANGED <<roomFaults, roomJob>>
        BY <2>1, <2>4
      <3>2. QED
        BY <2>5, <3>1, ShowKept DEF RInv
    <2>7. QED
      BY <2>3, <2>6 DEF RInv
  <1>3. QED
    BY <1>1, <1>2

\* Every step of the room keeps what is shown.
LEMMA RoomStepKeeps == RInv /\ [Room!Next]_roomVars => RInv'
  <1>1. ASSUME RInv, UNCHANGED roomVars PROVE RInv'
    BY <1>1
    DEF RInv, RoomTyped, Room!TypeOK, ShowInv, ShownClosed, ToAppend, roomVars
  <1>2. ASSUME RInv, Room!Next PROVE RInv'
    BY <1>2, SavesKeep, TraderPublishesKeeps, PrintsKeeps, EchoesKeeps,
       OthersPublishKeep, ReadersKeep
    DEF Room!Next, Room!Trader
  <1>3. QED
    BY <1>1, <1>2

\* It holds of a room in which nothing has happened.
LEMMA RoomInitial == Room!Init => RInv
  <1> SUFFICES ASSUME Room!Init PROVE RInv
    OBVIOUS
  <1>1. roomJob \in [result : Results, left : Seq(Records)]
    BY DEF Room!Init, Room!NoJob, Room!NoResult, Room!Result, Results, RoomIds
  <1>2. /\ row \in [Room!Orders -> {"NONE", "OPEN"} \cup Room!Reasons]
        /\ lifecycle \in [Room!Orders -> DOMAIN Room!Progress]
        /\ view \in [open : SUBSET Room!Orders, halted : BOOLEAN]
        /\ viewer \in Viewers
    BY DEF Room!Init, Room!Progress, Room!NoViewer, Viewers, Room!Labels
  <1>3. /\ printed = << >> /\ printed \in Seq(Results) /\ echoed = 0
        /\ echoed \in 0 .. Len(printed)
    BY DEF Room!Init
  <1>4. RoomTyped
    BY <1>1, <1>2, <1>3
    DEF Room!Init, RoomTyped, Room!TypeOK, Viewers, KeySpace, Results, RoomIds
  <1>5. ShowInv
    BY <1>3, RoomAssumption DEF Room!Init, ShowInv
  <1>6. QED
    BY <1>4, <1>5 DEF RInv

\* A step of the composition is a step of the one half, and the other stands still.
LEMMA Halves ==
  ASSUME [TraderRound \/ TraderSuffers \/ RoomMoves]_<<side, vars, roomVars>>
  PROVE  [Next]_vars /\ [Room!Next]_roomVars /\ side' = side
  BY DEF TraderRound, TraderSuffers, RoomMoves, Next

\* Next to the room the trader is the trader alone, so all of the above holds of
\* the composition, which the runs check.
LEMMA TraderAlone == RoomSpec => Spec
  <1>1. [TraderRound \/ TraderSuffers \/ RoomMoves]_<<side, vars, roomVars>> => [Next]_vars
    BY Halves
  <1>2. QED
    BY <1>1, PTL DEF RoomSpec, RoomInit, Spec

\* The room's invariant holds of the composition.
THEOREM RoomInvariance == RoomSpec => [](side \in {"trader", "room"} /\ RInv)
  <1>1. RoomInit => side \in {"trader", "room"} /\ RInv
    BY RoomInitial DEF RoomInit
  <1>2. /\ side \in {"trader", "room"} /\ RInv
        /\ [TraderRound \/ TraderSuffers \/ RoomMoves]_<<side, vars, roomVars>>
        => (side \in {"trader", "room"} /\ RInv)'
    BY Halves, RoomStepKeeps
  <1>3. QED
    BY <1>1, <1>2, PTL DEF RoomSpec

\* Every file, queue and local variable of the trader and of the room keeps its
\* type.
THEOREM RoomTypeCorrect == RoomSpec => []RoomTypeOK
  <1>1. side \in {"trader", "room"} /\ RInv /\ TypeOK => RoomTypeOK
    BY DEF RInv, RoomTyped, RoomTypeOK
  <1>2. QED
    BY RoomInvariance, TraderAlone, TypeCorrect, <1>1, PTL

\* The snapshot does not show a closed trade active: not when the sidecar echoes
\* late or again, unless a round died before it could publish the close.
THEOREM ClosedShown == RoomSpec => []ClosedIsNotActive
  <1>1. ASSUME RInv, NEW id \in Room!Orders, row[id] \in Levels,
               lifecycle[id] \in Room!ActiveTradeStates, ~(roomFaults > 0),
               ~(legacy /\ \A i \in 1 .. echoed : printed[i] # Room!Result(row[id], id))
        PROVE  roomJob.result = Room!Result(row[id], id)
    <2>1. roomFaults = 0 /\ ~ShownClosed(id)
      BY <1>1 DEF RInv, RoomTyped, ShownClosed, Room!ActiveTradeStates
    <2>2. CASE legacy
      <3>1. PICK i \in 1 .. echoed : printed[i] = Room!Result(row[id], id)
        BY <1>1, <2>2
      <3>2. printed[i].id = id /\ printed[i].event \in Levels
        BY <1>1, <3>1 DEF Room!Result
      <3>3. QED
        BY <1>1, <2>1, <3>2 DEF RInv, ShowInv
    <2>3. CASE ~legacy
      BY <1>1, <2>1, <2>3 DEF RInv, ShowInv, ToAppend
    <2>4. QED
      BY <2>2, <2>3
  <1>2. RInv => ClosedIsNotActive
    BY <1>1 DEF ClosedIsNotActive, Room!ClosedIsNotActive
  <1>3. QED
    BY RoomInvariance, <1>2, PTL

\* The books, the journal and the abstract trader in the composition.
THEOREM RoomKeepsTrader ==
  ASSUME Complete
  PROVE  RoomSpec => []BooksMatchExchange /\ JournaledBeforeSubmit /\ ImplementsFailClosed
  BY TraderAlone, BooksTrue, Journaled, Implementation
=============================================================================
