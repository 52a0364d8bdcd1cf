------------------------- MODULE AutoTradeStateStore -------------------------
(***************************************************************************)
(* The JSON state file an automatic trader keeps beside its positions      *)
(* (app/auto_trading/state_store.py).  One record per trader: the last     *)
(* candle the trader finished, the circuit breaker, and the journal of its *)
(* latest order attempt.  Every method of the class loads the file,        *)
(* changes it and replaces it atomically, so a method is an operator from  *)
(* the old record to the new one.  The attempt is kept as its status: the  *)
(* code never branches on its other fields.                                *)
(***************************************************************************)
EXTENDS Naturals

ActiveAttempts == {"SUBMITTING", "ACKED", "UNCERTAIN"}

AttemptStatuses == ActiveAttempts \cup {"NONE", "FINALIZED"}

\* last = 0 stands for "no candle processed yet".
States(Candles) ==
  [last : Candles \cup {0}, halted : BOOLEAN, attempt : AttemptStatuses]

Default == [last |-> 0, halted |-> FALSE, attempt |-> "NONE"]

Halt(s) == [s EXCEPT !.halted = TRUE]

Unfinished(s) == s.attempt \in ActiveAttempts

\* assert_ready returns only in a ready state; what it leaves in the file is
\* AssertReady: an unfinished attempt trips the breaker.
Ready(s) == ~s.halted /\ ~Unfinished(s)

\* Mutant: assert_ready refuses without tripping the breaker.
AssertReadyQuiet(s) == s

AssertReady(s) == IF ~s.halted /\ Unfinished(s) THEN Halt(s) ELSE s

MarkCandleProcessed(s, candle) == [s EXCEPT !.last = candle]

\* begin_order_attempt starts with assert_ready.
BeginOrderAttempt(s) ==
  IF Ready(s) THEN [s EXCEPT !.attempt = "SUBMITTING"] ELSE AssertReady(s)

MarkOrderAcknowledged(s) == [s EXCEPT !.attempt = "ACKED"]

MarkOrderUncertain(s) == [s EXCEPT !.attempt = "UNCERTAIN", !.halted = TRUE]

FinalizeOrderAttempt(s) == [s EXCEPT !.attempt = "FINALIZED"]
=============================================================================
