-------------------------- MODULE Phase41Validation --------------------------
(***************************************************************************)
(* The Phase 4.1 validation trade (app/validation/phase41_trade.py): three *)
(* requests of the API process, entry, sample and exit, on a position file *)
(* of their own.  FastAPI serves them in a thread pool; there is no lock   *)
(* and no order journal.  A step is one call of the exchange or one load   *)
(* or save of the file; what a thread knows lives in `thread' and is lost  *)
(* with the process.  The account holds other coins too, so a SELL can     *)
(* execute twice.                                                          *)
(***************************************************************************)
EXTENDS PositionStore, FiniteSets

CONSTANTS
  Threads,     \* threads of the pool
  MaxEntries,  \* bound: BUYs
  MaxRequests, \* bound: requests
  MaxStops     \* bound: ends of the API process

VARIABLES
  book,    \* the rows of the lane's position file
  thread,  \* the request each thread works on
  entered, \* BUYs executed
  exited,  \* SELLs executed for the position of an entry
  unsure,  \* entries with an order whose request did not end well
  undone,  \* rows undone by the save of older rows
  raced,   \* entries that two exits found open
  spent    \* requests received and ends of the process so far

lane == <<book, thread, entered, exited, unsure, undone, raced, spent>>

Entries == 1 .. MaxEntries
Lane == 1 \* strategy_id phase41_validation, the only one in this file
NoEntry == 0
NoCopy == [id \in {} |-> NoPosition]

Kinds == {"entry", "sample", "exit"}

Idle == [kind |-> "none", pc |-> "idle", id |-> NoEntry, copy |-> NoCopy,
         left |-> {}, visit |-> <<>>]

Init ==
  /\ book = [id \in Entries |-> NoPosition]
  /\ thread = [r \in Threads |-> Idle]
  /\ entered = {} /\ exited = [id \in Entries |-> 0]
  /\ unsure = {} /\ undone = {} /\ raced = {}
  /\ spent = [requests |-> 0, stops |-> 0]

-----------------------------------------------------------------------------
At(r, label) == thread[r].pc = label

Kind(r, kinds) == thread[r].kind \in kinds

\* A request is answered, with a result or an HTTP error.
Answered(r) == thread' = [thread EXCEPT ![r] = Idle]

\* An error after an order was sent: the caller has to look.
AnsweredInDoubt(r, id) == Answered(r) /\ unsure' = unsure \cup {id}

Goes(r, label) == thread' = [thread EXCEPT ![r].pc = label]

\* A store method begins by loading the rows.  Where nothing of the file is
\* read between an answer of the exchange and this load, both are one step.
GoesLoaded(r, label) ==
  thread' = [thread EXCEPT ![r].pc = label, ![r].copy = book]

Asked == UNCHANGED <<book, entered, exited, unsure, undone, raced, spent>>

Open == ActivePositions(book, Lane)

\* The first call of a request that was let in.
First == [entry |-> "candles", sample |-> "price", exit |-> "order"]

\* A request passes the preflight and the look at the file: an entry is
\* refused when a position is open, the others when none is, and each when
\* "multiple Phase 4.1 validation positions" are.  A refusal changes nothing.
Starts(r, kind) ==
  \E id \in IF kind = "entry" THEN {NoEntry} ELSE Open :
    /\ At(r, "idle") /\ spent.requests < MaxRequests
    /\ Cardinality(Open) = (IF kind = "entry" THEN 0 ELSE 1)
    /\ spent' = [spent EXCEPT !.requests = @ + 1]
    /\ thread' = [thread EXCEPT ![r].kind = kind, ![r].id = id, ![r].pc = First[kind]]
    /\ raced' = IF kind = "exit" /\ \E s \in Threads \ {r} :
                                       thread[s].kind = "exit" /\ thread[s].id = id
                THEN raced \cup {id} ELSE raced
    /\ UNCHANGED <<book, entered, exited, unsure, undone>>

\* Closed candles, for the signal that the entry only reports.
ReadsCandles(r) == At(r, "candles") /\ Goes(r, "order") /\ Asked

ReadsPrice(r) == At(r, "price") /\ GoesLoaded(r, "observing") /\ Asked

\* A call that fails, or an order refused before the exchange executes it,
\* ends the request with nothing changed.
RequestFails(r) ==
  /\ thread[r].pc \in {"candles", "price", "order"}
  /\ Answered(r) /\ Asked

-----------------------------------------------------------------------------
\* A market order is filled, expires without a fill, or is filled and the
\* answer gets lost.
Answers == {"FILLED", "EXPIRED", "LOST"}

Executed(answer) == answer # "EXPIRED"

\* Mutant: an order id is enough.
AcknowledgedById(answer) == answer # "LOST"

\* "acknowledgement is missing fill data": an order without an average price
\* is an error.
Acknowledged(answer) == answer = "FILLED"

Buys(r, answer) ==
  LET id == Cardinality(entered) + 1
  IN /\ At(r, "order") /\ Kind(r, {"entry"}) /\ id \in Entries
     /\ entered' = IF Executed(answer) THEN entered \cup {id} ELSE entered
     /\ IF Acknowledged(answer)
        THEN /\ thread' = [thread EXCEPT ![r].id = id, ![r].pc = "adding",
                                           ![r].copy = book]
             /\ UNCHANGED unsure
        ELSE AnsweredInDoubt(r, id)
     /\ UNCHANGED <<book, exited, undone, raced, spent>>

Sells(r, answer) ==
  LET id == thread[r].id
  IN /\ At(r, "order") /\ Kind(r, {"exit"})
     /\ exited' = IF Executed(answer) THEN [exited EXCEPT ![id] = @ + 1] ELSE exited
     /\ IF Acknowledged(answer)
        THEN GoesLoaded(r, "closing") /\ UNCHANGED unsure
        ELSE AnsweredInDoubt(r, id)
     /\ UNCHANGED <<book, entered, undone, raced, spent>>

-----------------------------------------------------------------------------
\* The store's methods, by the point a request has reached: which raise on
\* the rows they loaded, what they save, where the request goes on.
Raises(r, old) ==
  LET id == thread[r].id
  IN CASE At(r, "adding") -> AddRefused(old, id, Lane)
       [] thread[r].pc \in {"attempting", "reconciling", "erroring"} ->
            ~Tracked(old, thread[r].visit[1])
       [] OTHER -> ~Tracked(old, id)

\* A sample changes no field the model keeps: it saves the rows it loaded.  Of
\* a reconciliation only whether it is terminal is kept, not the fees.
Saved(r, old) ==
  CASE At(r, "adding")  -> AddPosition(old, thread[r].id, Lane)
    [] At(r, "closing") -> MarkClosed(old, thread[r].id, "SOFTWARE")
    [] At(r, "erroring") -> MarkReconciliationError(old, thread[r].visit[1])
    [] At(r, "reconciling") ->
         ReconcileFills(old, thread[r].visit[1], thread[r].visit[2], TRUE)
    [] OTHER -> old

After ==
  [adding |-> "capturing", closing |-> "capturing", capturing |-> "sweep",
   observing |-> "answered", attempting |-> "fetching",
   reconciling |-> "sweeping", erroring |-> "failed"]

Captures(r) ==
  /\ At(r, "capturing") /\ thread[r].copy = NoCopy
  /\ GoesLoaded(r, "capturing") /\ Asked

Saves(r) ==
  LET old == thread[r].copy
  IN /\ old # NoCopy /\ ~Raises(r, old)
     /\ book' = Saved(r, old)
     /\ undone' = undone \cup {id \in Entries : old[id] # book[id]}
     /\ IF At(r, "observing")
        THEN Answered(r)
        ELSE thread' = [thread EXCEPT ![r].copy = NoCopy, ![r].pc = After[@]]
     /\ UNCHANGED <<entered, exited, unsure, raced, spent>>

\* The store refuses, or the row is gone: an HTTP error, but in the try block
\* of the reconciliation.
StoreRaises(r) ==
  /\ thread[r].copy # NoCopy /\ Raises(r, thread[r].copy)
  /\ IF At(r, "reconciling")
     THEN GoesLoaded(r, "erroring") /\ UNCHANGED unsure
     ELSE IF At(r, "observing")
     THEN Answered(r) /\ UNCHANGED unsure
     ELSE AnsweredInDoubt(r, thread[r].id)
  /\ UNCHANGED <<book, entered, exited, undone, raced, spent>>

\* reconcile_all, in the request: the rows due and their exit orders are
\* those loaded now.
Due(row) ==
  CASE row.status = "ABSENT" -> FALSE
    [] row.status = "CLOSED" -> row.rec # "RECONCILED"
    [] OTHER -> row.rec # "ENTRY_RECONCILED"

SweepStarts(r) ==
  /\ At(r, "sweep")
  /\ thread' = [thread EXCEPT ![r].pc = "sweeping",
                  ![r].left = {<<id, book[id].exit>> : id \in {i \in Entries : Due(book[i])}}]
  /\ Asked

\* The next row, or after a failure the same again.
Visits(r, job) ==
  /\ job \in thread[r].left \/ (At(r, "failed") /\ job = thread[r].visit)
  /\ thread[r].pc \in {"sweeping", "failed"}
  /\ thread' = [thread EXCEPT ![r].pc = "attempting", ![r].copy = book,
                              ![r].visit = job, ![r].left = @ \ {job}]
  /\ Asked

\* The fills of entry and exit order.
Fetches(r, success) ==
  /\ At(r, "fetching")
  /\ GoesLoaded(r, IF success THEN "reconciling" ELSE "erroring")
  /\ Asked

SweepEnds(r) ==
  /\ thread[r].pc \in {"sweeping", "failed"} /\ thread[r].left = {}
  /\ thread' = [thread EXCEPT ![r].pc = "tracking", ![r].visit = <<>>]
  /\ Asked

\* The answer shows the row; without one the request fails.
Reports(r) ==
  /\ At(r, "tracking")
  /\ IF Tracked(book, thread[r].id)
     THEN Answered(r) /\ UNCHANGED unsure
     ELSE AnsweredInDoubt(r, thread[r].id)
  /\ UNCHANGED <<book, entered, exited, undone, raced, spent>>

\* The API process ends and is started again.
ProcessEnds ==
  /\ spent.stops < MaxStops
  /\ spent' = [spent EXCEPT !.stops = @ + 1]
  /\ unsure' = unsure \cup
       {thread[r].id : r \in {s \in Threads : /\ thread[s].id # NoEntry
                                              /\ ~At(s, "order")
                                              /\ ~Kind(s, {"sample"})}}
  /\ thread' = [r \in Threads |-> Idle]
  /\ UNCHANGED <<book, entered, exited, undone, raced>>

\* All requests the bound allows are answered: the API waits.
Waits ==
  /\ spent.requests = MaxRequests /\ \A r \in Threads : At(r, "idle")
  /\ UNCHANGED lane

Next ==
  \/ Waits
  \/ \E r \in Threads :
       \/ \E kind \in Kinds : Starts(r, kind)
       \/ ReadsCandles(r) \/ ReadsPrice(r) \/ RequestFails(r)
       \/ \E answer \in Answers : Buys(r, answer) \/ Sells(r, answer)
       \/ Captures(r) \/ Saves(r) \/ StoreRaises(r)
       \/ SweepStarts(r) \/ SweepEnds(r) \/ Reports(r)
       \/ \E job \in Entries \X ExitKinds : Visits(r, job)
       \/ \E success \in BOOLEAN : Fetches(r, success)
  \/ ProcessEnds

Spec == Init /\ [][Next]_lane

-----------------------------------------------------------------------------
Labels ==
  {"idle", "candles", "price", "order", "sweep", "sweeping",
   "fetching", "failed", "tracking"} \cup DOMAIN After

\* Every row, request and count keeps its type.
TypeOK ==
  /\ book \in [Entries -> Positions({Lane})]
  /\ \A r \in Threads :
       /\ thread[r].kind \in Kinds \cup {"none"} /\ thread[r].pc \in Labels
       /\ thread[r].id \in Entries \cup {NoEntry}
       /\ thread[r].copy \in [Entries -> Positions({Lane})] \cup {NoCopy}
       /\ thread[r].left \subseteq Entries \X ExitKinds
  /\ entered \subseteq Entries
  /\ exited \in [Entries -> 0 .. MaxRequests]
  /\ unsure \cup undone \cup raced \subseteq Entries
  /\ spent \in [requests : 0 .. MaxRequests, stops : 0 .. MaxStops]

InProgress(id) == \E r \in Threads : thread[r].id = id /\ Kind(r, {"entry", "exit"})

\* The file never shows two open positions, whatever overlaps: the method that
\* adds one looks again at the rows it saves.  And it shows exactly the coins
\* that were bought and not sold, each sold once, unless the caller of an order
\* had an error or no answer, two exits raced, or a request saved rows that
\* another had changed since.
LossIsTold ==
  /\ Cardinality(Open) <= 1
  /\ \A id \in Entries :
       \/ id \in unsure \cup undone \cup raced
       \/ InProgress(id)
       \/ /\ book[id].status = "OPEN" <=> id \in entered /\ exited[id] = 0
          /\ exited[id] <= 1
=============================================================================
