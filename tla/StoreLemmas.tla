----------------------------- MODULE StoreLemmas -----------------------------
(***************************************************************************)
(* What the methods of the two stores preserve and change, stated once so  *)
(* that the proofs about their users need not open the records.            *)
(***************************************************************************)
EXTENDS AutoTradeStateStore, PositionStore, TLAPS

\* Every method of AutoTradeStateStore keeps the file well formed.
LEMMA StateTypes ==
  ASSUME NEW Candles, NEW s \in States(Candles), NEW candle \in Candles \cup {0}
  PROVE  /\ Halt(s) \in States(Candles)
         /\ AssertReady(s) \in States(Candles)
         /\ MarkCandleProcessed(s, candle) \in States(Candles)
         /\ BeginOrderAttempt(s) \in States(Candles)
         /\ MarkOrderAcknowledged(s) \in States(Candles)
         /\ MarkOrderUncertain(s) \in States(Candles)
         /\ FinalizeOrderAttempt(s) \in States(Candles)
  <1>1. Halt(s) \in States(Candles)
    BY DEF Halt, States
  <1>2. AssertReady(s) \in States(Candles)
    BY <1>1 DEF AssertReady
  <1>3. MarkCandleProcessed(s, candle) \in States(Candles)
    BY DEF MarkCandleProcessed, States
  <1>4. [s EXCEPT !.attempt = "SUBMITTING"] \in States(Candles)
    BY DEF States, AttemptStatuses, ActiveAttempts
  <1>5. BeginOrderAttempt(s) \in States(Candles)
    BY <1>2, <1>4 DEF BeginOrderAttempt
  <1>6. MarkOrderAcknowledged(s) \in States(Candles)
    BY DEF MarkOrderAcknowledged, States, AttemptStatuses, ActiveAttempts
  <1>7. MarkOrderUncertain(s) \in States(Candles)
    BY DEF MarkOrderUncertain, States, AttemptStatuses, ActiveAttempts
  <1>8. FinalizeOrderAttempt(s) \in States(Candles)
    BY DEF FinalizeOrderAttempt, States, AttemptStatuses
  <1>9. QED
    BY <1>1, <1>2, <1>3, <1>5, <1>6, <1>7, <1>8

\* How the methods move the breaker and the attempt; none resets the breaker.
LEMMA StateEffects ==
  ASSUME NEW Candles, NEW s \in States(Candles), NEW candle
  PROVE  /\ Halt(s).halted
         /\ Ready(s) => AssertReady(s) = s
         /\ ~Ready(s) => AssertReady(s).halted
         /\ MarkCandleProcessed(s, candle).halted = s.halted
         /\ MarkCandleProcessed(s, candle).attempt = s.attempt
         /\ Ready(s) => /\ BeginOrderAttempt(s).attempt = "SUBMITTING"
                        /\ ~BeginOrderAttempt(s).halted
         /\ ~Ready(BeginOrderAttempt(s))
         /\ MarkOrderAcknowledged(s).halted = s.halted
         /\ MarkOrderAcknowledged(s).attempt = "ACKED"
         /\ MarkOrderUncertain(s).halted
         /\ FinalizeOrderAttempt(s).halted = s.halted
         /\ FinalizeOrderAttempt(s).attempt = "FINALIZED"
  <1>1. Halt(s).halted = TRUE
    BY DEF Halt, States
  <1>2. (Ready(s) => AssertReady(s) = s) /\ (~Ready(s) => AssertReady(s).halted)
    BY <1>1 DEF AssertReady, Ready
  <1>3. /\ MarkCandleProcessed(s, candle).halted = s.halted
        /\ MarkCandleProcessed(s, candle).attempt = s.attempt
    BY DEF MarkCandleProcessed, States
  <1>4. /\ [s EXCEPT !.attempt = "SUBMITTING"].attempt = "SUBMITTING"
        /\ [s EXCEPT !.attempt = "SUBMITTING"].halted = s.halted
    BY DEF States
  <1>5. Ready(s) => /\ BeginOrderAttempt(s).attempt = "SUBMITTING"
                    /\ ~BeginOrderAttempt(s).halted
    BY <1>4 DEF BeginOrderAttempt, Ready
  <1>6. ~Ready(BeginOrderAttempt(s))
    BY <1>2, <1>5 DEF BeginOrderAttempt, Ready, Unfinished, ActiveAttempts
  <1>7. /\ MarkOrderAcknowledged(s).halted = s.halted
        /\ MarkOrderAcknowledged(s).attempt = "ACKED"
    BY DEF MarkOrderAcknowledged, States
  <1>8. MarkOrderUncertain(s).halted = TRUE
    BY DEF MarkOrderUncertain, States
  <1>9. /\ FinalizeOrderAttempt(s).halted = s.halted
        /\ FinalizeOrderAttempt(s).attempt = "FINALIZED"
    BY DEF FinalizeOrderAttempt, States
  <1>10. QED
    BY <1>1, <1>2, <1>3, <1>5, <1>6, <1>7, <1>8, <1>9

\* The same, for what assert_ready sees.
LEMMA ReadyEffects ==
  ASSUME NEW Candles, NEW s \in States(Candles), NEW candle
  PROVE  /\ ~Ready(Halt(s))
         /\ Ready(AssertReady(s)) <=> Ready(s)
         /\ Ready(MarkCandleProcessed(s, candle)) <=> Ready(s)
         /\ ~Ready(MarkOrderAcknowledged(s))
         /\ Unfinished(MarkOrderAcknowledged(s))
         /\ ~Ready(MarkOrderUncertain(s))
         /\ ~Unfinished(FinalizeOrderAttempt(s))
  BY StateEffects DEF Ready, Unfinished, ActiveAttempts

\* _add_position keeps the file well formed and touches one record at most.
LEMMA AddPositionEffect ==
  ASSUME NEW Ids, NEW Strategies, NEW store \in [Ids -> Positions(Strategies)],
         NEW id \in Ids, NEW strategy \in Strategies
  PROVE  /\ AddPosition(store, id, strategy) \in [Ids -> Positions(Strategies)]
         /\ \A other \in Ids \ {id} :
              AddPosition(store, id, strategy)[other] = store[other]
         /\ Tracked(store, id) \/ AddRefused(store, id, strategy)
              => AddPosition(store, id, strategy) = store
         /\ ~Tracked(store, id) /\ ~AddRefused(store, id, strategy)
              => /\ AddPosition(store, id, strategy)[id].status = "OPEN"
                 /\ AddPosition(store, id, strategy)[id].strategy = strategy
  <1> DEFINE new == [NoPosition EXCEPT !.status = "OPEN", !.strategy = strategy,
                                       !.rec = "PENDING"]
  <1>1. /\ new \in Positions(Strategies)
        /\ new.status = "OPEN" /\ new.strategy = strategy
    BY DEF NoPosition, Positions, Statuses, UnresolvedStatuses, ExitKinds, RecStatuses
  <1>2. AddPosition(store, id, strategy) =
          IF Tracked(store, id) \/ AddRefused(store, id, strategy)
          THEN store ELSE [store EXCEPT ![id] = new]
    BY DEF AddPosition
  <1> HIDE DEF new
  <1>3. QED
    BY <1>1, <1>2

\* mark_closed keeps the file well formed and touches one record.
LEMMA MarkClosedEffect ==
  ASSUME NEW Ids, NEW Strategies, NEW store \in [Ids -> Positions(Strategies)],
         NEW id \in Ids, NEW exit \in ExitKinds
  PROVE  /\ MarkClosed(store, id, exit) \in [Ids -> Positions(Strategies)]
         /\ \A other \in Ids \ {id} :
              MarkClosed(store, id, exit)[other] = store[other]
         /\ MarkClosed(store, id, exit)[id].status = "CLOSED"
         /\ MarkClosed(store, id, exit)[id].strategy = store[id].strategy
  <1>1. /\ Closed(store[id], exit) \in Positions(Strategies)
        /\ Closed(store[id], exit).status = "CLOSED"
        /\ Closed(store[id], exit).strategy = store[id].strategy
    <2>1. store[id] \in Positions(Strategies)
      OBVIOUS
    <2>2. QED
      BY <2>1 DEF Closed, Positions, Statuses, RecStatuses
  <1>2. QED
    BY <1>1 DEF MarkClosed
=============================================================================
