--------------------------- MODULE FailClosedTrader ---------------------------
(***************************************************************************)
(* The promise of TestnetAutoTrader's docstring, "Fail-closed long-only    *)
(* automatic trader for one strategy and one symbol", and of its short     *)
(* twin, with nothing of how it is kept: no candles, no files, no crashes. *)
(* A trader is ready, busy with one order, or blocked for good; it holds   *)
(* one entry or none; its books say tracked or not.  "exited" is a holding *)
(* the exchange closed on its own and the books still show.                *)
(***************************************************************************)
CONSTANT Traders

VARIABLES mode, exposure, tracked

vars == <<mode, exposure, tracked>>

Modes     == {"ready", "busy", "blocked"}
Exposures == {"flat", "held", "exited"}

Init ==
  /\ mode = [t \in Traders |-> "ready"]
  /\ exposure = [t \in Traders |-> "flat"]
  /\ tracked = [t \in Traders |-> FALSE]

BooksMatch(t) == tracked[t] = (exposure[t] # "flat")

Move(t, from, to) == mode[t] = from /\ mode' = [mode EXCEPT ![t] = to]

\* An order is under way; only in a clean state.
Begin(t) ==
  /\ Move(t, "ready", "busy") /\ BooksMatch(t)
  /\ UNCHANGED <<exposure, tracked>>

Enter(t) ==
  /\ mode[t] = "busy" /\ exposure[t] = "flat" /\ ~tracked[t]
  /\ exposure' = [exposure EXCEPT ![t] = "held"]
  /\ UNCHANGED <<mode, tracked>>

Leave(t) ==
  /\ mode[t] = "busy" /\ exposure[t] = "held" /\ tracked[t]
  /\ exposure' = [exposure EXCEPT ![t] = "flat"]
  /\ UNCHANGED <<mode, tracked>>

\* The books catch up with the order.
Record(t) ==
  /\ mode[t] = "busy" /\ ~BooksMatch(t)
  /\ tracked' = [tracked EXCEPT ![t] = ~tracked[t]]
  /\ UNCHANGED <<mode, exposure>>

Settle(t) ==
  /\ Move(t, "busy", "ready") /\ BooksMatch(t)
  /\ UNCHANGED <<exposure, tracked>>

Block(t) ==
  /\ mode[t] # "blocked"
  /\ mode' = [mode EXCEPT ![t] = "blocked"]
  /\ UNCHANGED <<exposure, tracked>>

\* The exchange closes it on its own, at any time.
ForcedExit(t) ==
  /\ exposure[t] = "held"
  /\ exposure' = [exposure EXCEPT ![t] = "exited"]
  /\ UNCHANGED <<mode, tracked>>

\* Reconciliation writes such an exit into the books.
Reconcile(t) ==
  /\ mode[t] # "blocked" /\ exposure[t] = "exited" /\ tracked[t]
  /\ exposure' = [exposure EXCEPT ![t] = "flat"]
  /\ tracked' = [tracked EXCEPT ![t] = FALSE]
  /\ UNCHANGED mode

Next ==
  \E t \in Traders :
    \/ Begin(t) \/ Enter(t) \/ Leave(t) \/ Record(t) \/ Settle(t) \/ Block(t)
    \/ ForcedExit(t) \/ Reconcile(t)

Spec == Init /\ [][Next]_vars
=============================================================================
