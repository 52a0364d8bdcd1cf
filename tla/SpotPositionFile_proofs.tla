----------------------- MODULE SpotPositionFile_proofs -----------------------
(***************************************************************************)
(* Safety of the spot position file under all its writers, for any number  *)
(* of positions, script runs and crashes.  A save can bring back an older  *)
(* list, so the invariant is about every list there is: the file, what a   *)
(* process has loaded for a call, what a script loaded before its work.    *)
(* Each of their rows is right about the exchange (RowRight), and so are   *)
(* the arguments of every call under way (Sound).  Both only mention facts *)
(* of the exchange that stay once they are so (Grows).                     *)
(***************************************************************************)
EXTENDS SpotPositionFile, TLAPS

Methods ==
  {"none", "observe", "add", "close", "attempt", "reconcile", "error",
   "quarantine", "trigger", "sent"}

Calls ==
  [method : Methods, id : Ids \cup {NoId}, arg : ExitKinds \cup Hits, fees : BOOLEAN]

\* What a row says of exit, PnL, history and notification is so, and it is of
\* the strategy that bought it.
RowRight(row, id) ==
  /\ row.exit # "NONE" => row.exit = sold[id]
  /\ row.status = "CLOSED" \/ row.pnl => row.exit # "NONE"
  /\ row.rec \in {"RECONCILED", "PARTIAL"} => row.pnl
  /\ row.status # "ABSENT" => row.strategy = Strategy(id)
  /\ row.status = "ORPHANED" => id \in lost /\ row.exit = "NONE"
  /\ row.status \in {"TP_HIT", "SL_HIT"} /\ row.notified => id \in told

Right(list) == \A id \in Ids : RowRight(list[id], id)

RowsInv ==
  /\ Right(file)
  /\ \A p \in Procs : copy[p] # NoRows => Right(copy[p])
  /\ rows # NoRows => Right(rows)

\* What a call is about to write is so.
Sound(c) ==
  /\ c \in Calls
  /\ c.method \notin {"none", "observe"} => c.id \in Ids
  /\ c.method = "close" => c.arg = sold[c.id] /\ c.arg \in ExitKinds \ {"NONE"}
  /\ c.method = "trigger" => c.arg \in Hits /\ c.id \in Legacy
  /\ c.method = "quarantine" => c.id \in lost
  /\ c.method = "sent" => c.id \in told

CallInv(p) ==
  /\ Sound(call[p])
  /\ pc[p] = "adding" <=> call[p].method = "add"
  /\ pc[p] = "adding" => at[p] = call[p].id
  /\ call[p].method = "trigger" =>
       p = "monitor" /\ pc[p] \in {"triggering", "triggering_doomed"}

TraderInv ==
  pc["trader"] \in {"attempting", "fetching", "reconciling", "erroring", "failed",
                    "retrying"}
    => at["trader"] \in Ids /\ tries < Attempts

ScriptInv ==
  /\ pc["script"] \in {"auditing", "eligible", "apply", "dry", "closing", "restoring"}
       => at["script"] \in Ids
  /\ pc["script"] = "protecting" => at["script"] \in Ids \ Triple
  /\ pc["script"] \in {"auditing", "dry", "closing", "restoring"} => rows \in Rows
  /\ pc["script"] \in {"dry", "closing", "restoring"} => Tracked(rows, at["script"])
  /\ pc["script"] = "eligible" => at["script"] \in lost

MonitorInv ==
  pc["monitor"] \in {"scanning", "doomed", "triggering", "triggering_doomed"}
    => left["monitor"] \subseteq Legacy

\* Recorded, undone by another process, or a manual BUY that is still being
\* recorded or has failed with its caller knowing.
Safe(id) ==
  \/ Tracked(file, id) \/ id \in clobbered
  \/ /\ id \in Manual
     /\ \/ id \in refused \/ runs.crash > 0
        \/ call["script"].method = "add" /\ call["script"].id = id

\* The journal's attempt stands for the one BUY that is not recorded yet.
BoughtInv ==
  /\ \A id \in bought : Safe(id) \/ (unfinished /\ id \in Baseline \cup Triple)
  /\ pc["trader"] \in {"adding", "selling"} =>
       \A id \in bought : Safe(id) \/ (pc["trader"] = "adding" /\ id = at["trader"])
  /\ pc["trader"] = "settling" => ~unfinished

\* The engine alone sells the coins of the triple EMA trader, protective lists
\* those of the others.
Orders ==
  /\ protected \cap Triple = {}
  /\ \A id \in Ids : filled[id] > 0 => sold[id] = "PROTECTIVE"
  /\ \A id \in Ids : sold[id] # (IF id \in Triple THEN "PROTECTIVE" ELSE "SOFTWARE")

Typed == TypeOK /\ DOMAIN pc = Procs /\ call \in [Procs -> Calls] /\ Orders

IInv ==
  /\ Typed /\ RowsInv
  /\ \A p \in Procs : CallInv(p)
  /\ TraderInv /\ ScriptInv /\ MonitorInv
  /\ BoughtInv

(***************************************************************************)
(* What the steps have in common.                                          *)
(***************************************************************************)
\* What the exchange, LINE and the ghosts know stays known.
Grows ==
  /\ \A id \in Ids : sold[id] # "NONE" => sold'[id] = sold[id]
  /\ lost \subseteq lost' /\ told \subseteq told'
  /\ refused \subseteq refused' /\ clobbered \subseteq clobbered'
  /\ runs.crash > 0 => runs'.crash > 0

\* A record leaves the file only when a stale list is put back.
FileKept ==
  \A id \in Ids : Tracked(file, id) => Tracked(file', id) \/ id \in clobbered'

\* The lists there are come from the file; a new file is right again.
ListsMove ==
  /\ \A p \in Procs : copy'[p] \in {copy[p], file, NoRows}
  /\ rows' \in {rows, file, NoRows}
  /\ file' = file \/ Right(file')
  /\ FileKept

\* A process leaves what the others have in memory alone.
Others(p) ==
  /\ \A q \in Procs \ {p} :
       pc'[q] = pc[q] /\ call'[q] = call[q] /\ at'[q] = at[q] /\ left'[q] = left[q]
  /\ p # "trader" => tries' = tries
  /\ p # "script" => rows' = rows

Moves(p) == Grows /\ ListsMove /\ Others(p)

\* The two halves of the types: the world, the memory of the processes.
World ==
  /\ file \in Rows
  /\ sold \in [Ids -> ExitKinds] /\ filled \in [Ids -> 0..2] /\ Orders
  /\ bought \subseteq Ids /\ protected \subseteq Ids /\ lost \subseteq Ids
  /\ told \subseteq Ids /\ refused \subseteq Ids /\ clobbered \subseteq Ids
  /\ unfinished \in BOOLEAN
  /\ runs \in [script : 0..MaxScripts, hit : 0..MaxHits, crash : 0..MaxCrashes]

Memory ==
  /\ copy \in [Procs -> Rows \cup {NoRows}]
  /\ call \in [Procs -> Calls]
  /\ DOMAIN pc = Procs
  /\ at \in [Procs -> Ids \cup {NoId}]
  /\ rows \in Rows \cup {NoRows}
  /\ exits \in [Ids -> ExitKinds]
  /\ left \in [Procs -> SUBSET Ids]
  /\ tries \in 0..Attempts

\* Together they are the type invariant.
LEMMA TypeSplit == (Typed <=> World /\ Memory) /\ (Typed' <=> World' /\ Memory')
  <1>1. Typed <=> World /\ Memory
    BY DEF Typed, TypeOK, World, Memory
  <1>2. Typed' <=> World' /\ Memory'
    BY DEF Typed, TypeOK, World, Memory
  <1>3. QED
    BY <1>1, <1>2

\* The fields of a call.
LEMMA CallFields ==
  ASSUME NEW method \in Methods, NEW id \in Ids \cup {NoId},
         NEW arg \in ExitKinds \cup Hits
  PROVE  /\ Call(method, id, arg) \in Calls
         /\ Call(method, id, arg).method = method
         /\ Call(method, id, arg).id = id
         /\ Call(method, id, arg).arg = arg
  BY DEF Call, NoCall, Calls, Methods, ExitKinds

\* Doing nothing is sound.
LEMMA NoCallSound ==
  NoCall \in Calls /\ NoCall.method = "none" /\ Sound(NoCall) /\ Sound(NoCall)'
  <1>1. NoCall \in Calls /\ NoCall.method = "none"
    BY DEF NoCall, Calls, Methods, ExitKinds
  <1>2. QED
    BY <1>1 DEF Sound

\* What is so of the orders stays so while no order changes.
LEMMA SameOrders ==
  ASSUME World, UNCHANGED <<sold, protected, filled>>
  PROVE  Orders' /\ filled' \in [Ids -> 0..2]
  BY DEF World, Orders

\* What is right or sound stays so.
LEMMA StaysSo ==
  ASSUME Grows
  PROVE  /\ \A list : Right(list) => Right(list)'
         /\ \A c : Sound(c) => Sound(c)'
  <1>1. \A list : Right(list) => Right(list)'
    <2> SUFFICES ASSUME NEW list, NEW id \in Ids, RowRight(list[id], id)
                 PROVE  RowRight(list[id], id)'
      BY DEF Right
    <2>1. QED
      BY DEF RowRight, Grows
  <1>2. \A c : Sound(c) => Sound(c)'
    BY DEF Sound, Grows
  <1>3. QED
    BY <1>1, <1>2

(***************************************************************************)
(* The store methods.                                                      *)
(***************************************************************************)
\* A method that changes one record keeps the list right if the record is.
LEMMA OneRow ==
  ASSUME NEW old \in Rows, Right(old), NEW id \in Ids, NEW new \in Rows,
         \A other \in Ids \ {id} : new[other] = old[other],
         RowRight(new[id], id),
         Tracked(old, id) => Tracked(new, id)
  PROVE  Right(new) /\ \A other \in Ids : Tracked(old, other) => Tracked(new, other)
  BY DEF Right, Tracked

\* A sound call that saves keeps what is right, forgets no record and reopens
\* none except by the monitor's mark.
LEMMA SavedEffect ==
  ASSUME NEW c, Sound(c), NEW old \in Rows, Right(old), ~Raises(c, old),
         FileAssumption
  PROVE  /\ Saved(c, old) \in Rows
         /\ Right(Saved(c, old))
         /\ \A id \in Ids : Tracked(old, id) => Tracked(Saved(c, old), id)
         /\ c.method = "add" => Tracked(Saved(c, old), c.id)
         /\ \A id \in Ids :
              old[id].status = "CLOSED" /\ ~(c.method = "trigger" /\ c.id = id)
                => Saved(c, old)[id].status = "CLOSED"
  <1> DEFINE new == Saved(c, old)
             Fits == /\ new \in Rows /\ Right(new)
                     /\ \A id \in Ids : Tracked(old, id) => Tracked(new, id)
                     /\ c.method = "add" => Tracked(new, c.id)
                     /\ \A id \in Ids :
                          old[id].status = "CLOSED"
                            /\ ~(c.method = "trigger" /\ c.id = id)
                          => new[id].status = "CLOSED"
  <1>1. /\ c.method \in Methods
        /\ c.method \notin {"none", "observe"} => c.id \in Ids
        /\ c.arg \in ExitKinds \cup Hits
        /\ Hits \subseteq {"TP_HIT", "SL_HIT"}
    BY DEF Sound, Calls, FileAssumption
  <1>2. ASSUME NEW id \in Ids, id = c.id, NEW row \in Positions({1, 2}),
               new = [old EXCEPT ![id] = row], RowRight(row, id),
               row.status # "ABSENT",
               old[id].status = "CLOSED" /\ c.method # "trigger"
                 => row.status = "CLOSED"
        PROVE  Fits
    <2>1. /\ new \in Rows /\ new[id] = row
          /\ \A other \in Ids \ {id} : new[other] = old[other]
      BY <1>2 DEF Rows
    <2>2. Tracked(new, id)
      BY <1>2, <2>1 DEF Tracked
    <2> HIDE DEF new
    <2>3. RowRight(new[id], id)
      BY <1>2, <2>1
    <2>4. Right(new) /\ \A other \in Ids : Tracked(old, other) => Tracked(new, other)
      BY <2>1, <2>2, <2>3, OneRow
    <2>5. QED
      BY <1>2, <2>1, <2>2, <2>4
  <1>3. CASE c.method \in {"none", "observe", "attempt"}
    <2>1. new = old
      BY <1>3 DEF Saved
    <2>2. QED
      BY <1>3, <2>1
  <1> DEFINE id == c.id
             row == old[id]
  <1>4. c.method \notin {"none", "observe"} =>
          id \in Ids /\ row \in Positions({1, 2}) /\ RowRight(row, id)
    BY <1>1 DEF Rows, Right
  <1>5. CASE c.method = "add"
    <2> DEFINE opened == [NoPosition EXCEPT !.status = "OPEN",
                                            !.strategy = Strategy(id),
                                            !.rec = "PENDING"]
    <2>1. ~AddRefused(old, id, Strategy(id)) /\ new = AddPosition(old, id, Strategy(id))
      BY <1>5 DEF Raises, Saved
    <2>2. CASE Tracked(old, id)
      BY <1>5, <2>1, <2>2 DEF AddPosition
    <2>3. CASE ~Tracked(old, id)
      <3>1. new = [old EXCEPT ![id] = opened]
        BY <2>1, <2>3 DEF AddPosition
      <3>2. Strategy(id) \in {1, 2}
        BY DEF Strategy
      <3>3. /\ opened \in Positions({1, 2}) /\ opened.status = "OPEN"
            /\ opened.exit = "NONE" /\ ~opened.pnl
            /\ opened.rec = "PENDING" /\ opened.strategy = Strategy(id)
        BY <3>2 DEF NoPosition, Positions, Statuses, UnresolvedStatuses, ExitKinds,
                    RecStatuses
      <3>4. old[id].status = "ABSENT"
        BY <2>3 DEF Tracked
      <3> HIDE DEF opened
      <3>5. RowRight(opened, id)
        BY <3>3 DEF RowRight
      <3>6. QED
        BY <1>2, <1>4, <1>5, <3>1, <3>3, <3>4, <3>5
    <2>4. QED
      BY <2>2, <2>3
  <1>6. CASE c.method = "close"
    <2> DEFINE closed == Closed(row, c.arg)
    <2>1. new = [old EXCEPT ![id] = closed]
      BY <1>4, <1>6 DEF Saved, MarkClosed, Rows
    <2>2. c.arg = sold[id] /\ c.arg \in ExitKinds \ {"NONE"}
      BY <1>6 DEF Sound
    <2>3. /\ closed \in Positions({1, 2}) /\ closed.status = "CLOSED"
          /\ closed.exit = c.arg /\ closed.pnl = row.pnl
          /\ closed.rec = row.rec \/ closed.rec = "PENDING"
          /\ closed.strategy = row.strategy
      BY <1>4, <1>6, <2>2 DEF Closed, Positions, Statuses, RecStatuses
    <2> HIDE DEF closed
    <2>4. row.status # "ABSENT"
      BY <1>6 DEF Raises, Tracked
    <2>5. RowRight(closed, id)
      BY <1>4, <1>6, <2>2, <2>3, <2>4 DEF RowRight
    <2>6. QED
      BY <1>2, <1>4, <1>6, <2>1, <2>3, <2>5
  <1>7. CASE c.method = "trigger"
    <2> DEFINE hit == [row EXCEPT !.status = c.arg, !.notified = FALSE]
    <2>1. new = [old EXCEPT ![id] = hit]
      BY <1>4, <1>7 DEF Saved, MarkTriggered, Rows
    <2>2. c.arg \in {"TP_HIT", "SL_HIT"}
      BY <1>1, <1>7 DEF Sound
    <2>3. /\ hit \in Positions({1, 2}) /\ hit.status = c.arg /\ ~hit.notified
          /\ hit.exit = row.exit /\ hit.pnl = row.pnl
          /\ hit.rec = row.rec /\ hit.strategy = row.strategy
      BY <1>4, <1>7, <2>2 DEF Positions, Statuses, UnresolvedStatuses
    <2> HIDE DEF hit
    <2>4. row.status # "ABSENT"
      BY <1>7 DEF Raises, Tracked
    <2>5. RowRight(hit, id)
      BY <1>4, <1>7, <2>2, <2>3, <2>4 DEF RowRight
    <2>6. QED
      BY <1>2, <1>4, <1>7, <2>1, <2>2, <2>3, <2>5
  <1>8. CASE c.method = "sent"
    <2> DEFINE sent == [row EXCEPT !.notified = TRUE]
    <2>1. new = [old EXCEPT ![id] = sent]
      BY <1>4, <1>8 DEF Saved, MarkNotificationSent, Rows
    <2>2. id \in told /\ row.status # "ABSENT"
      BY <1>8 DEF Sound, Raises, Tracked
    <2>3. /\ sent \in Positions({1, 2}) /\ sent.status = row.status
          /\ sent.exit = row.exit /\ sent.pnl = row.pnl
          /\ sent.rec = row.rec /\ sent.strategy = row.strategy
      BY <1>4, <1>8 DEF Positions
    <2> HIDE DEF sent
    <2>4. RowRight(sent, id)
      BY <1>4, <1>8, <2>2, <2>3 DEF RowRight
    <2>5. QED
      BY <1>2, <1>4, <1>8, <2>1, <2>2, <2>3, <2>4
  <1>9. CASE c.method = "quarantine"
    <2> DEFINE orphan == [row EXCEPT !.status = "ORPHANED",
                                     !.rec = "EXCHANGE_HISTORY_LOST",
                                     !.notified = TRUE]
    <2>1. new = [old EXCEPT ![id] = orphan]
      BY <1>4, <1>9 DEF Saved, MarkExchangeHistoryLost, Rows
    <2>2. /\ id \in lost /\ row.status \in UnresolvedStatuses
          /\ row.exit = "NONE" /\ ~row.pnl
      BY <1>9 DEF Sound, Raises, MayQuarantine
    <2>3. /\ orphan \in Positions({1, 2}) /\ orphan.status = "ORPHANED"
          /\ orphan.exit = row.exit /\ orphan.pnl = row.pnl
          /\ orphan.rec = "EXCHANGE_HISTORY_LOST" /\ orphan.strategy = row.strategy
      BY <1>4, <1>9 DEF Positions, Statuses, RecStatuses
    <2> HIDE DEF orphan
    <2>4. RowRight(orphan, id)
      BY <1>4, <1>9, <2>2, <2>3 DEF RowRight, UnresolvedStatuses
    <2>5. QED
      BY <1>2, <1>4, <1>9, <2>1, <2>2, <2>3, <2>4 DEF UnresolvedStatuses
  <1>10. CASE c.method = "error"
    <2> DEFINE failed == [row EXCEPT !.rec = IF @ \in {"RECONCILED", "PARTIAL"}
                                             THEN @ ELSE "PENDING"]
    <2>1. new = [old EXCEPT ![id] = failed]
      BY <1>4, <1>10 DEF Saved, MarkReconciliationError, Rows
    <2>2. row.status # "ABSENT"
      BY <1>10 DEF Raises, Tracked
    <2>3. /\ failed \in Positions({1, 2}) /\ failed.status = row.status
          /\ failed.exit = row.exit /\ failed.pnl = row.pnl
          /\ failed.notified = row.notified /\ failed.strategy = row.strategy
          /\ failed.rec = row.rec \/ failed.rec = "PENDING"
      BY <1>4, <1>10 DEF Positions, RecStatuses
    <2> HIDE DEF failed
    <2>4. RowRight(failed, id)
      BY <1>4, <1>10, <2>3 DEF RowRight
    <2>5. QED
      BY <1>2, <1>4, <1>10, <2>1, <2>2, <2>3, <2>4
  <1>11. CASE c.method = "reconcile"
    <2> DEFINE done == ReconciledRow(row, c.arg, c.fees)
    <2>1. new = [old EXCEPT ![id] = done]
      BY <1>4, <1>11 DEF Saved, ReconcileFills, Rows
    <2>2. row.status # "ABSENT"
      BY <1>11 DEF Raises, Tracked
    <2>3. /\ done \in Positions({1, 2}) /\ done.status = row.status
          /\ done.exit = row.exit /\ done.notified = row.notified
          /\ done.pnl = row.pnl \/ row.status = "CLOSED"
          /\ done.rec \in {"RECONCILED", "PARTIAL"} => done.pnl
          /\ done.strategy = row.strategy
      BY <1>4, <1>11 DEF ReconciledRow, Positions, RecStatuses
    <2> HIDE DEF done
    <2>4. RowRight(done, id)
      BY <1>4, <1>11, <2>3 DEF RowRight
    <2>5. QED
      BY <1>2, <1>4, <1>11, <2>1, <2>2, <2>3, <2>4
  <1>12. QED
    BY <1>1, <1>3, <1>5, <1>6, <1>7, <1>8, <1>9, <1>10, <1>11 DEF Methods

(***************************************************************************)
(* The processes.                                                          *)
(***************************************************************************)
\* A process begins a call.
LEMMA BeginEffect ==
  ASSUME Memory, NEW p \in Procs, NEW c \in Calls, NEW label,
         Begin(p, c, label)
  PROVE  /\ call' \in [Procs -> Calls] /\ call'[p] = c
         /\ DOMAIN pc' = Procs /\ pc'[p] = label
         /\ at' \in [Procs -> Ids \cup {NoId}] /\ at'[p] = c.id
         /\ \A q \in Procs \ {p} : pc'[q] = pc[q] /\ call'[q] = call[q] /\ at'[q] = at[q]
  <1>1. c.id \in Ids \cup {NoId}
    BY DEF Calls
  <1>2. QED
    BY <1>1 DEF Begin, Memory

\* A process loads the file.
LEMMA LoadEffect ==
  ASSUME Memory, World, NEW p \in Procs, copy' = [copy EXCEPT ![p] = file]
  PROVE  /\ copy' \in [Procs -> Rows \cup {NoRows}]
         /\ \A q \in Procs : copy'[q] \in {copy[q], file, NoRows}
  BY DEF Memory, World

\* A call that ends, by saving or by raising.
LEMMA ReturnEffect ==
  ASSUME Memory, NEW p \in Procs, NEW next, Goes(p, next), Return(p)
  PROVE  /\ call' \in [Procs -> Calls] /\ call'[p] = NoCall
         /\ copy' \in [Procs -> Rows \cup {NoRows}]
         /\ \A q \in Procs : copy'[q] \in {copy[q], file, NoRows}
         /\ DOMAIN pc' = Procs /\ pc'[p] = next
         /\ at' \in [Procs -> Ids \cup {NoId}]
         /\ next \in {"fetching", "failed", "retrying", "restoring"} => at'[p] = at[p]
         /\ \A q \in Procs \ {p} : pc'[q] = pc[q] /\ call'[q] = call[q] /\ at'[q] = at[q]
  <1>1. /\ call' \in [Procs -> Calls] /\ call'[p] = NoCall
        /\ \A q \in Procs \ {p} : call'[q] = call[q]
    BY NoCallSound DEF Return, Memory
  <1>2. /\ copy' \in [Procs -> Rows \cup {NoRows}]
        /\ \A q \in Procs : copy'[q] \in {copy[q], file, NoRows}
    BY DEF Return, Memory
  <1>3. /\ DOMAIN pc' = Procs /\ pc'[p] = next
        /\ \A q \in Procs \ {p} : pc'[q] = pc[q]
    BY DEF Goes, Memory
  <1>4. /\ at' \in [Procs -> Ids \cup {NoId}]
        /\ next \in {"fetching", "failed", "retrying", "restoring"} => at'[p] = at[p]
        /\ \A q \in Procs \ {p} : at'[q] = at[q]
    BY DEF Goes, Memory
  <1>5. QED
    BY <1>1, <1>2, <1>3, <1>4

\* A process that ends keeps the types and leaves the others alone.
LEMMA ForgetEffect ==
  ASSUME Memory, NEW p \in Procs, NEW label, Forget(p, label)
  PROVE  /\ Memory' /\ Others(p)
         /\ call'[p] = NoCall /\ pc'[p] = label
         /\ \A q \in Procs : copy'[q] \in {copy[q], file, NoRows}
         /\ rows' \in {rows, NoRows}
         /\ left'[p] = {}
  <1>1. /\ call' \in [Procs -> Calls] /\ call'[p] = NoCall
        /\ \A q \in Procs \ {p} : call'[q] = call[q]
    BY NoCallSound DEF Forget, Memory
  <1>2. /\ copy' \in [Procs -> Rows \cup {NoRows}]
        /\ \A q \in Procs : copy'[q] \in {copy[q], file, NoRows}
    BY DEF Forget, Memory
  <1>3. /\ DOMAIN pc' = Procs /\ pc'[p] = label
        /\ \A q \in Procs \ {p} : pc'[q] = pc[q]
    BY DEF Forget, Memory
  <1>4. /\ at' \in [Procs -> Ids \cup {NoId}]
        /\ \A q \in Procs \ {p} : at'[q] = at[q]
    BY DEF Forget, Memory
  <1>5. /\ left' \in [Procs -> SUBSET Ids] /\ left'[p] = {}
        /\ \A q \in Procs \ {p} : left'[q] = left[q]
    BY DEF Forget, Memory
  <1>6. /\ rows' \in {rows, NoRows} /\ (p # "script" => rows' = rows)
        /\ exits' \in [Ids -> ExitKinds]
        /\ tries' \in 0..Attempts /\ (p # "trader" => tries' = tries)
    BY FileAssumption DEF Forget, Memory, ExitKinds
  <1>7. QED
    BY <1>1, <1>2, <1>3, <1>4, <1>5, <1>6 DEF Memory, Others

\* The invariant of the processes that do not move.
LEMMA OthersKeep ==
  ASSUME IInv, NEW p \in Procs, Grows, Others(p)
  PROVE  /\ \A q \in Procs \ {p} : CallInv(q)'
         /\ p # "trader" => TraderInv'
         /\ p # "script" => ScriptInv'
         /\ p # "monitor" => MonitorInv'
  <1> USE DEF IInv
  <1>1. ASSUME NEW q \in Procs \ {p} PROVE CallInv(q)'
    <2>1. CallInv(q) /\ call'[q] = call[q] /\ pc'[q] = pc[q] /\ at'[q] = at[q]
      BY DEF Others
    <2>2. Sound(call[q])'
      BY <2>1, StaysSo DEF CallInv
    <2>3. QED
      BY <2>1, <2>2 DEF CallInv
  <1>2. {"trader", "script", "monitor"} \subseteq Procs
    BY DEF Procs
  <1>3. p # "trader" => TraderInv'
    BY <1>2 DEF Others, TraderInv
  <1>4. p # "script" => ScriptInv'
    BY <1>2 DEF Others, ScriptInv, Tracked, Grows
  <1>5. p # "monitor" => MonitorInv'
    BY <1>2 DEF Others, MonitorInv
  <1>6. QED
    BY <1>1, <1>3, <1>4, <1>5

\* A call that begins.
LEMMA CallBegun ==
  ASSUME NEW p \in Procs, NEW c, Sound(c)', call'[p] = c, at'[p] = c.id,
         pc'[p] = "adding" <=> c.method = "add",
         c.method = "trigger" =>
           p = "monitor" /\ pc'[p] \in {"triggering", "triggering_doomed"}
  PROVE  CallInv(p)'
  BY DEF CallInv

\* A call that has ended.
LEMMA CallEnded ==
  ASSUME NEW p \in Procs, call'[p] = NoCall, pc'[p] # "adding"
  PROVE  CallInv(p)'
  BY NoCallSound DEF CallInv

\* A process that moves outside its calls.
LEMMA CallIdle ==
  ASSUME NEW p \in Procs, CallInv(p), Grows, call'[p] = call[p],
         pc[p] \notin {"adding", "triggering", "triggering_doomed"},
         pc'[p] # "adding"
  PROVE  CallInv(p)'
  <1>1. Sound(call[p])'
    BY StaysSo DEF CallInv
  <1>2. QED
    BY <1>1 DEF CallInv

\* A process that does not move.
LEMMA CallSame ==
  ASSUME NEW p \in Procs, CallInv(p), Grows,
         call'[p] = call[p], pc'[p] = pc[p], at'[p] = at[p]
  PROVE  CallInv(p)'
  <1>1. Sound(call[p])'
    BY StaysSo DEF CallInv
  <1>2. QED
    BY <1>1 DEF CallInv

(***************************************************************************)
(* The file.                                                               *)
(***************************************************************************)
\* A process saves the list it loaded, with its call done to it.
Saves(p) ==
  /\ InCall(p, pc[p]) /\ ~Raises(call[p], copy[p])
  /\ file' = Saved(call[p], copy[p])
  /\ clobbered' = clobbered \cup Undone(copy[p])

\* A save keeps the file well formed and right, and forgets a record, or
\* reopens a closed one, only if another process had written it meanwhile;
\* the monitor's mark is the exception.
LEMMA SaveEffect ==
  ASSUME IInv, NEW p \in Procs, Saves(p)
  PROVE  /\ file' \in Rows /\ clobbered' \subseteq Ids /\ clobbered \subseteq clobbered'
         /\ Right(file')
         /\ FileKept
         /\ call[p].method = "add" => Tracked(file', call[p].id)
         /\ \A id \in Ids :
              file[id].status = "CLOSED" =>
                \/ file'[id].status = "CLOSED" \/ id \in clobbered'
                \/ call[p].method = "trigger" /\ call[p].id = id
  <1> DEFINE old == copy[p]
             c == call[p]
             new == Saved(c, old)
  <1>1. old \in Rows /\ Right(old) /\ Sound(c) /\ ~Raises(c, old)
    BY DEF IInv, Typed, TypeOK, RowsInv, CallInv, Saves, InCall
  <1>2. /\ file' = new
        /\ \A id \in Ids : id \in clobbered' \/ old[id] = file[id]
        /\ clobbered' \subseteq Ids /\ clobbered \subseteq clobbered'
    BY DEF Saves, Undone, IInv, Typed, TypeOK
  <1> HIDE DEF old, c
  <1>3. /\ new \in Rows /\ Right(new)
        /\ \A id \in Ids : Tracked(old, id) => Tracked(new, id)
        /\ c.method = "add" => Tracked(new, c.id)
        /\ \A id \in Ids :
             old[id].status = "CLOSED" /\ ~(c.method = "trigger" /\ c.id = id)
               => new[id].status = "CLOSED"
    BY <1>1, SavedEffect, FileAssumption
  <1> HIDE DEF new
  <1>4. FileKept
    BY <1>2, <1>3 DEF FileKept, Tracked
  <1>5. QED
    BY <1>2, <1>3, <1>4 DEF old, c

\* The end of a dry run: the rows loaded before are right, the position it
\* worked on is among them.
LEMMA RestoreEffect ==
  ASSUME IInv, DryRunRestores
  PROVE  /\ file' \in Rows /\ clobbered' \subseteq Ids /\ clobbered \subseteq clobbered'
         /\ Right(file')
         /\ FileKept
         /\ \A id \in Ids :
              file[id].status = "CLOSED" /\ id # at["script"] =>
                file'[id].status = "CLOSED" \/ id \in clobbered'
  <1> DEFINE id0 == at["script"]
             marked == MarkClosed(rows, id0, "PROTECTIVE")
  <1>1. id0 \in Ids /\ rows \in Rows /\ Tracked(rows, id0)
    BY DEF IInv, ScriptInv, DryRunRestores, ScriptAt
  <1>2. Right(rows)
    <2>1. rows # NoRows
      BY <1>1 DEF Rows, NoRows
    <2>2. QED
      BY <2>1 DEF IInv, RowsInv
  <1>3. /\ file' = rows
        /\ \A id \in Ids : id \in clobbered' \/ marked[id] = file[id]
        /\ clobbered' \subseteq Ids /\ clobbered \subseteq clobbered'
    BY DEF DryRunRestores, Undone, IInv, Typed, TypeOK
  <1>4. \A id \in Ids \ {id0} : marked[id] = rows[id]
    BY <1>1 DEF MarkClosed, Rows
  <1> HIDE DEF id0, marked
  <1>5. FileKept
    BY <1>1, <1>3, <1>4 DEF FileKept, Tracked
  <1>6. QED
    BY <1>1, <1>2, <1>3, <1>4, <1>5 DEF id0

\* The lists stay right.
LEMMA RowsKeep ==
  ASSUME IInv, Grows, ListsMove
  PROVE  RowsInv'
  <1>1. Right(file)'
    BY StaysSo DEF IInv, RowsInv, ListsMove
  <1>2. \A p \in Procs : copy'[p] # NoRows => Right(copy'[p])
    BY DEF IInv, RowsInv, ListsMove
  <1>3. rows' # NoRows => Right(rows')
    BY DEF IInv, RowsInv, ListsMove
  <1>4. QED
    BY <1>1, <1>2, <1>3, StaysSo DEF RowsInv

\* What accounts for bought coins goes on doing so, unless it is the call that
\* records them; that call ends with the row in the file, with a refusal, or
\* with its process.
LEMMA SafeStays ==
  ASSUME Grows, FileKept,
         \/ call'["script"] = call["script"]
         \/ call["script"].method # "add"
         \/ runs'.crash > 0
         \/ call["script"].id \in refused'
         \/ Tracked(file', call["script"].id)
  PROVE  \A id \in Ids : Safe(id) => Safe(id)'
  BY DEF Safe, Grows, FileKept, Tracked

\* Steps that buy nothing and end no attempt of the trading process.
LEMMA BoughtStays ==
  ASSUME BoughtInv, World, \A id \in Ids : Safe(id) => Safe(id)',
         bought' = bought, unfinished' = unfinished,
         \/ pc'["trader"] = pc["trader"] /\ at'["trader"] = at["trader"]
         \/ pc'["trader"] \notin {"adding", "selling", "settling"}
  PROVE  BoughtInv'
  BY DEF BoughtInv, World

\* The coins of every entry are accounted for outside an attempt of the
\* trading process.
LEMMA AllSafe ==
  ASSUME IInv, ~unfinished
  PROVE  \A id \in bought : Safe(id)
  BY DEF IInv, BoughtInv

\* From a step of one process to the invariant of all.
LEMMA Assemble ==
  ASSUME IInv, NEW p \in Procs, Moves(p), World', Memory', CallInv(p)', BoughtInv',
         p = "trader" => TraderInv',
         p = "script" => ScriptInv',
         p = "monitor" => MonitorInv'
  PROVE  IInv'
  <1>1. \A q \in Procs : CallInv(q)'
    BY OthersKeep DEF Moves
  <1>2. TraderInv' /\ ScriptInv' /\ MonitorInv'
    BY OthersKeep DEF Moves
  <1>3. Typed' /\ RowsInv'
    BY TypeSplit, RowsKeep DEF Moves
  <1>4. QED
    BY <1>1, <1>2, <1>3 DEF IInv

\* In the steps that leave the world alone.
LEMMA WorldSame ==
  ASSUME UNCHANGED <<file, exchange, ghosts, runs>>
  PROVE  Grows /\ FileKept
  BY DEF exchange, ghosts, Grows, FileKept, Tracked

\* A save moves the lists; nothing else in the world changes.
LEMMA SaveMoves ==
  ASSUME IInv, NEW p \in Procs, NEW label, NEW next, Save(p, label, next),
         UNCHANGED <<rows, left>>, p # "trader" => tries' = tries,
         unfinished' \in BOOLEAN, exits' = exits, tries' \in 0..Attempts
  PROVE  /\ Moves(p) /\ World' /\ Memory'
         /\ pc[p] = label /\ pc'[p] = next
         /\ call'[p] = NoCall
         /\ next \in {"fetching", "failed", "retrying", "restoring"} => at'[p] = at[p]
         /\ UNCHANGED <<bought, sold, lost, told, refused, runs>>
         /\ call[p].method = "add" => Tracked(file', call[p].id)
  <1>1. pc[p] = label /\ Saves(p) /\ Goes(p, next) /\ Return(p)
    BY DEF Save, Saves, InCall
  <1>2. World /\ Memory
    BY TypeSplit DEF IInv
  <1>3. UNCHANGED <<bought, sold, protected, filled, lost, told, refused, runs>>
    BY DEF Save, exchange
  <1>4. World'
    BY <1>1, <1>2, <1>3, SaveEffect, SameOrders DEF World
  <1>5. Memory'
    BY <1>1, <1>2, ReturnEffect DEF Memory
  <1>6. Grows
    BY <1>1, <1>3, SaveEffect DEF Grows
  <1>7. ListsMove
    BY <1>1, <1>2, SaveEffect, ReturnEffect DEF ListsMove
  <1>8. Others(p)
    BY <1>1, <1>2, ReturnEffect DEF Others
  <1>9. QED
    BY <1>1, <1>2, <1>3, <1>4, <1>5, <1>6, <1>7, <1>8, ReturnEffect, SaveEffect
    DEF Moves

\* A call that raises leaves the file as it is.
LEMMA RaiseMoves ==
  ASSUME IInv, NEW p \in Procs, NEW label, NEW next, Raise(p, label, next),
         UNCHANGED <<loops, unfinished>>,
         refused \subseteq refused', refused' \subseteq Ids
  PROVE  /\ Moves(p) /\ World' /\ Memory'
         /\ pc[p] = label /\ pc'[p] = next
         /\ call'[p] = NoCall
         /\ next \in {"fetching", "failed", "retrying", "restoring"} => at'[p] = at[p]
         /\ UNCHANGED <<file, bought, sold, lost, told, runs, rows, left, tries>>
  <1>1. pc[p] = label /\ Goes(p, next) /\ Return(p)
    BY DEF Raise, InCall
  <1>2. World /\ Memory
    BY TypeSplit DEF IInv
  <1>3. /\ UNCHANGED <<file, bought, sold, protected, filled, lost, told, clobbered, runs>>
        /\ UNCHANGED <<rows, exits, left, tries>>
    BY DEF Raise, exchange, loops
  <1>4. World'
    BY <1>2, <1>3, SameOrders DEF World
  <1>5. Memory'
    BY <1>1, <1>2, <1>3, ReturnEffect DEF Memory
  <1>6. Grows /\ FileKept
    BY <1>3 DEF Grows, FileKept, Tracked
  <1>7. ListsMove
    BY <1>1, <1>2, <1>3, <1>6, ReturnEffect DEF ListsMove
  <1>8. Others(p)
    BY <1>1, <1>2, <1>3, ReturnEffect DEF Others
  <1>9. QED
    BY <1>1, <1>2, <1>3, <1>4, <1>5, <1>6, <1>7, <1>8, ReturnEffect DEF Moves

\* A call that begins moves no list but the loaded one.
LEMMA BeginMoves ==
  ASSUME IInv, NEW p \in Procs, NEW c \in Calls, NEW label,
         Begin(p, c, label),
         copy' = copy \/ copy' = [copy EXCEPT ![p] = file],
         UNCHANGED <<file, rows, exits>>,
         left' \in [Procs -> SUBSET Ids],
         \A q \in Procs \ {p} : left'[q] = left[q],
         tries' \in 0..Attempts, p # "trader" => tries' = tries,
         Grows
  PROVE  /\ Moves(p) /\ Memory'
         /\ call'[p] = c /\ pc'[p] = label /\ at'[p] = c.id
  <1>1. World /\ Memory
    BY TypeSplit DEF IInv
  <1>2. /\ copy' \in [Procs -> Rows \cup {NoRows}]
        /\ \A q \in Procs : copy'[q] \in {copy[q], file, NoRows}
    <2>1. CASE copy' = copy
      BY <1>1, <2>1 DEF Memory
    <2>2. QED
      BY <1>1, <2>1, LoadEffect
  <1>3. Memory'
    BY <1>1, <1>2, BeginEffect DEF Memory
  <1>4. ListsMove
    BY <1>2 DEF ListsMove, FileKept, Tracked
  <1>5. Others(p)
    BY <1>1, BeginEffect DEF Others
  <1>6. QED
    BY <1>1, <1>3, <1>4, <1>5, BeginEffect DEF Moves

(***************************************************************************)
(* The trading process.                                                    *)
(***************************************************************************)
\* What its steps have to show, once they move only what is theirs.
LEMMA TraderStepKeeps ==
  ASSUME IInv, Moves("trader"), World', Memory', CallInv("trader")', TraderInv',
         (\A id \in Ids : Safe(id) => Safe(id)') => BoughtInv'
  PROVE  IInv'
  <1>1. "trader" \in Procs /\ "script" \in Procs
    BY DEF Procs
  <1>2. call'["script"] = call["script"]
    BY <1>1 DEF Moves, Others
  <1>3. \A id \in Ids : Safe(id) => Safe(id)'
    BY <1>2, SafeStays DEF Moves, ListsMove
  <1>4. QED
    BY <1>1, <1>3, Assemble

\* The engine begins to record what it does at the exchange.
LEMMA EngineOrders ==
  ASSUME IInv, NEW id \in Ids, EngineBuy(id) \/ EngineSell(id) \/ EngineSettle(id)
  PROVE  IInv'
  <1>1. World /\ Memory /\ "trader" \in Procs
    BY TypeSplit DEF IInv, Procs
  <1>2. /\ ~unfinished
        /\ UNCHANGED <<file, copy, rows, exits, left, tries, protected, filled, lost,
                       told, refused, clobbered, runs>>
    BY DEF EngineBuy, EngineSell, EngineSettle, EngineAt, loops, exchange, ghosts
  <1>3. \A i \in bought : Safe(i)
    BY <1>2, AllSafe
  <1>4. left' \in [Procs -> SUBSET Ids] /\ tries' \in 0..Attempts
    BY <1>1, <1>2 DEF Memory
  <1>5. CASE EngineBuy(id)
    <2>1. /\ Begin("trader", Call("add", id, "NONE"), "adding") /\ unfinished' = TRUE
          /\ id \in Baseline \cup Triple
          /\ bought' = bought \cup {id} /\ sold' = sold
      BY <1>5 DEF EngineBuy
    <2>2. PICK c \in Calls : /\ Begin("trader", c, "adding")
                             /\ c.method = "add" /\ c.id = id
      BY <2>1, CallFields DEF Methods, ExitKinds
    <2>3. Grows
      BY <1>2, <2>1 DEF Grows
    <2>4. /\ Moves("trader") /\ Memory'
          /\ call'["trader"] = c /\ pc'["trader"] = "adding" /\ at'["trader"] = id
      BY <1>1, <1>2, <1>4, <2>1, <2>2, <2>3, BeginMoves
    <2>5. World'
      BY <1>1, <1>2, <2>1, SameOrders DEF World
    <2>6. CallInv("trader")'
      BY <1>1, <2>2, <2>4, CallBegun DEF Sound
    <2>7. TraderInv'
      BY <2>4 DEF TraderInv
    <2>8. (\A i \in Ids : Safe(i) => Safe(i)') => BoughtInv'
      BY <1>1, <1>3, <2>1, <2>4 DEF BoughtInv, World
    <2>9. QED
      BY <2>4, <2>5, <2>6, <2>7, <2>8, TraderStepKeeps
  <1>6. CASE EngineSell(id)
    <2>1. /\ Begin("trader", Call("close", id, "SOFTWARE"), "selling") /\ unfinished' = TRUE
          /\ id \in Triple /\ sold' = [sold EXCEPT ![id] = "SOFTWARE"]
          /\ bought' = bought
      BY <1>6 DEF EngineSell
    <2>2. PICK c \in Calls : /\ Begin("trader", c, "selling")
                             /\ c.method = "close" /\ c.id = id /\ c.arg = "SOFTWARE"
      BY <2>1, CallFields DEF Methods, ExitKinds
    <2>3. /\ sold' \in [Ids -> ExitKinds] /\ sold'[id] = "SOFTWARE"
          /\ sold[id] \in {"NONE", "SOFTWARE"}
          /\ \A other \in Ids \ {id} : sold'[other] = sold[other]
      BY <1>1, <2>1 DEF World, Orders, ExitKinds
    <2>4. Grows /\ Orders'
      <3>1. Grows
        BY <1>2, <2>3 DEF Grows
      <3>2. Orders /\ filled \in [Ids -> 0..2]
        BY <1>1 DEF World
      <3>3. filled[id] = 0
        BY <2>3, <3>2 DEF Orders
      <3>4. QED
        BY <1>2, <2>1, <2>3, <3>1, <3>2, <3>3 DEF Orders
    <2>5. /\ Moves("trader") /\ Memory'
          /\ call'["trader"] = c /\ pc'["trader"] = "selling" /\ at'["trader"] = id
      BY <1>1, <1>2, <1>4, <2>1, <2>2, <2>4, BeginMoves
    <2>6. World'
      BY <1>1, <1>2, <2>1, <2>3, <2>4 DEF World
    <2>7. CallInv("trader")'
      BY <1>1, <2>2, <2>3, <2>5, CallBegun DEF Sound, ExitKinds
    <2>8. TraderInv'
      BY <2>5 DEF TraderInv
    <2>9. (\A i \in Ids : Safe(i) => Safe(i)') => BoughtInv'
      BY <1>1, <1>3, <2>1, <2>5 DEF BoughtInv, World
    <2>10. QED
      BY <2>5, <2>6, <2>7, <2>8, <2>9, TraderStepKeeps
  <1>7. CASE EngineSettle(id)
    <2>1. /\ Begin("trader", Call("close", id, "PROTECTIVE"), "settling") /\ unfinished' = unfinished
          /\ sold[id] = "PROTECTIVE" /\ sold' = sold /\ bought' = bought
      BY <1>1, <1>7 DEF EngineSettle, ExitFound, exchange, World, Orders
    <2>2. PICK c \in Calls : /\ Begin("trader", c, "settling")
                             /\ c.method = "close" /\ c.id = id /\ c.arg = "PROTECTIVE"
      BY <2>1, CallFields DEF Methods, ExitKinds
    <2>3. Grows
      BY <1>2, <2>1 DEF Grows
    <2>4. /\ Moves("trader") /\ Memory'
          /\ call'["trader"] = c /\ pc'["trader"] = "settling" /\ at'["trader"] = id
      BY <1>1, <1>2, <1>4, <2>1, <2>2, <2>3, BeginMoves
    <2>5. World'
      BY <1>1, <1>2, <2>1, SameOrders DEF World
    <2>6. CallInv("trader")'
      BY <1>1, <2>1, <2>2, <2>4, CallBegun DEF Sound, ExitKinds
    <2>7. TraderInv'
      BY <2>4 DEF TraderInv
    <2>8. (\A i \in Ids : Safe(i) => Safe(i)') => BoughtInv'
      BY <1>1, <1>2, <1>3, <2>1, <2>4 DEF BoughtInv, World
    <2>9. QED
      BY <2>4, <2>5, <2>6, <2>7, <2>8, TraderStepKeeps
  <1>8. QED
    BY <1>5, <1>6, <1>7

\* The other calls the trading process begins: the observer's, the attempts of
\* the fill sweep and what it records of their outcome.
LEMMA TraderBegins ==
  ASSUME IInv,
         \/ EngineIdle \/ Observe \/ FetchFails \/ Retry
         \/ \E id \in Ids : SweepVisits(id)
         \/ \E fees \in BOOLEAN : FetchSucceeds(fees)
  PROVE  IInv'
  <1>1. World /\ Memory /\ "trader" \in Procs
    BY TypeSplit DEF IInv, Procs
  <1>2. /\ UNCHANGED <<file, rows, exits, bought, sold, protected, filled, lost,
                       unfinished, told, refused, clobbered, runs>>
        /\ copy' = copy \/ copy' = [copy EXCEPT !["trader"] = file]
    BY DEF EngineIdle, Observe, FetchFails, Retry, SweepVisits, FetchSucceeds,
           BeginLoaded, loops, exchange, ghosts
  <1>3. World' /\ Grows
    BY <1>1, <1>2, SameOrders DEF World, Grows
  <1>4. ASSUME NEW c \in Calls, NEW label, Begin("trader", c, label),
               c.method \notin {"none", "observe"} => c.id \in Ids /\ tries' < Attempts,
               c.method \in {"observe", "attempt", "error", "reconcile"},
               label \in IF c.method = "observe" THEN {"capturing", "observing"}
                         ELSE {"attempting", "reconciling", "erroring"},
               left' \in [Procs -> SUBSET Ids],
               \A q \in Procs \ {"trader"} : left'[q] = left[q],
               tries' \in 0..Attempts
        PROVE  IInv'
    <2>1. /\ Moves("trader") /\ Memory'
          /\ call'["trader"] = c /\ pc'["trader"] = label /\ at'["trader"] = c.id
      BY <1>1, <1>2, <1>3, <1>4, BeginMoves
    <2>2. CallInv("trader")'
      BY <1>1, <1>4, <2>1, CallBegun DEF Sound
    <2>3. TraderInv'
      BY <1>4, <2>1 DEF TraderInv
    <2>4. (\A i \in Ids : Safe(i) => Safe(i)') => BoughtInv'
      BY <1>1, <1>2, <1>4, <2>1, BoughtStays DEF IInv
    <2>5. QED
      BY <1>3, <2>1, <2>2, <2>3, <2>4, TraderStepKeeps
  <1>5. tries \in 0..Attempts /\ left \in [Procs -> SUBSET Ids]
    BY <1>1 DEF Memory
  <1>6. CASE EngineIdle \/ Observe
    <2>1. PICK label \in {"capturing", "observing"} :
            Begin("trader", Call("observe", NoId, "NONE"), label)
      BY <1>6 DEF EngineIdle, Observe, BeginLoaded
    <2>2. PICK c \in Calls : Begin("trader", c, label) /\ c.method = "observe"
      BY <2>1, CallFields DEF Methods, ExitKinds
    <2>3. tries' = tries /\ left' = left
      BY <1>6 DEF EngineIdle, Observe, loops
    <2>4. QED
      BY <1>4, <1>5, <2>1, <2>2, <2>3
  <1>7. ASSUME NEW id \in Ids, SweepVisits(id)
        PROVE  IInv'
    <2>1. PICK c \in Calls : /\ Begin("trader", c, "attempting")
                             /\ c.method = "attempt" /\ c.id = id
      BY <1>7, CallFields DEF Methods, ExitKinds, SweepVisits, BeginLoaded
    <2>2. /\ tries' = 0 /\ left' \in [Procs -> SUBSET Ids]
          /\ \A q \in Procs \ {"trader"} : left'[q] = left[q]
      BY <1>5, <1>7 DEF SweepVisits
    <2>3. QED
      BY <1>4, <2>1, <2>2, FileAssumption
  <1>8. CASE FetchFails \/ Retry \/ \E fees \in BOOLEAN : FetchSucceeds(fees)
    <2>1. /\ pc["trader"] \in {"fetching", "failed", "retrying"}
          /\ tries' = tries /\ left' = left
      BY <1>8 DEF FetchFails, Retry, FetchSucceeds, TraderAt, loops
    <2>2. at["trader"] \in Ids /\ tries < Attempts
      BY <2>1 DEF IInv, TraderInv
    <2>3. \E c \in Calls, label \in {"attempting", "reconciling", "erroring"} :
            /\ Begin("trader", c, label)
            /\ c.method \in {"attempt", "error", "reconcile"} /\ c.id = at["trader"]
      <3>1. CASE FetchFails
        BY <2>2, <3>1, CallFields DEF Methods, ExitKinds, FetchFails, BeginLoaded
      <3>2. CASE Retry
        BY <2>2, <3>2, CallFields DEF Methods, ExitKinds, Retry, BeginLoaded
      <3>3. ASSUME NEW fees \in BOOLEAN, FetchSucceeds(fees)
            PROVE  \E c \in Calls : /\ Begin("trader", c, "reconciling")
                                    /\ c.method = "reconcile" /\ c.id = at["trader"]
        <4>1. PICK c0 \in Calls : /\ c0.method = "reconcile" /\ c0.id = at["trader"]
                                  /\ c0 = Call("reconcile", at["trader"],
                                               exits[at["trader"]])
          BY <1>1, <2>2, CallFields DEF Methods, ExitKinds, Memory
        <4>2. /\ [c0 EXCEPT !.fees = fees] \in Calls
              /\ [c0 EXCEPT !.fees = fees].method = "reconcile"
              /\ [c0 EXCEPT !.fees = fees].id = at["trader"]
          BY <4>1 DEF Calls
        <4>3. Begin("trader", [c0 EXCEPT !.fees = fees], "reconciling")
          BY <3>3, <4>1 DEF FetchSucceeds, BeginLoaded
        <4>4. QED
          BY <4>2, <4>3
      <3>4. QED
        BY <1>8, <3>1, <3>2, <3>3
    <2>4. QED
      BY <1>4, <1>5, <2>1, <2>2, <2>3
  <1>9. QED
    BY <1>6, <1>7, <1>8

\* Its saves.  Only the engine's end an attempt: with the entry recorded, or
\* with a close, in which nothing was bought.
LEMMA TraderSaves ==
  ASSUME IInv,
         \/ EngineSaves \/ ObserverSaves \/ AttemptSaved \/ FillsSaved \/ ErrorSaved
  PROVE  IInv'
  <1>1. World /\ Memory /\ "trader" \in Procs /\ CallInv("trader")
    BY TypeSplit DEF IInv, Procs
  <1>2. UNCHANGED <<rows, exits, left>>
    BY DEF EngineSaves, ObserverSaves, AttemptSaved, FillsSaved, ErrorSaved, loops
  <1>3. ASSUME NEW label, NEW next, Save("trader", label, next),
               unfinished' \in BOOLEAN, tries' \in 0..Attempts,
               \/ next \in {"capture", "observe", "sweep", "sweeping"}
               \/ /\ next \in {"fetching", "retrying"}
                  /\ at["trader"] \in Ids /\ tries' < Attempts
        PROVE  /\ bought' = bought /\ pc["trader"] = label /\ pc'["trader"] = next
               /\ label = "adding" => Tracked(file', at["trader"])
               /\ \A i \in Ids : Safe(i) => Safe(i)'
               /\ BoughtInv' => IInv'
    <2>1. /\ Moves("trader") /\ World' /\ Memory' /\ pc'["trader"] = next
          /\ call'["trader"] = NoCall
          /\ next \in {"fetching", "retrying"} => at'["trader"] = at["trader"]
          /\ bought' = bought /\ pc["trader"] = label
          /\ call["trader"].method = "add" => Tracked(file', call["trader"].id)
      BY <1>1, <1>2, <1>3, SaveMoves
    <2>2. CallInv("trader")'
      BY <1>1, <1>3, <2>1, CallEnded
    <2>3. TraderInv'
      BY <1>3, <2>1 DEF TraderInv
    <2>4. label = "adding" => Tracked(file', at["trader"])
      BY <1>1, <2>1 DEF CallInv
    <2>5. \A i \in Ids : Safe(i) => Safe(i)'
      BY <2>1, SafeStays DEF Moves, ListsMove, Others, Procs
    <2>6. BoughtInv' => IInv'
      BY <2>1, <2>2, <2>3, TraderStepKeeps
    <2>7. QED
      BY <2>1, <2>4, <2>5, <2>6
  <1>4. tries \in 0..Attempts /\ unfinished \in BOOLEAN
    BY <1>1 DEF Memory, World
  <1>5. BoughtInv
    BY DEF IInv
  <1>6. CASE EngineSaves
    <2>1. PICK label \in {"adding", "selling", "settling"}, next \in {"capture", "observe"} :
            Save("trader", label, next)
      BY <1>6 DEF EngineSaves
    <2>2. unfinished' = FALSE /\ unfinished' \in BOOLEAN /\ tries' = tries
      BY <1>6 DEF EngineSaves, loops
    <2>3. /\ bought' = bought /\ pc["trader"] = label /\ pc'["trader"] = next
          /\ label = "adding" => Tracked(file', at["trader"])
          /\ \A i \in Ids : Safe(i) => Safe(i)'
          /\ BoughtInv' => IInv'
      BY <1>3, <1>4, <2>1, <2>2
    <2>4. \A i \in bought : Safe(i) \/ Tracked(file', i)
      <3>1. CASE label = "settling"
        BY <1>5, <2>3, <3>1 DEF BoughtInv
      <3>2. QED
        BY <1>5, <2>1, <2>3, <3>1 DEF BoughtInv
    <2>5. \A i \in bought : Safe(i)'
      BY <1>1, <2>3, <2>4 DEF World, Safe
    <2>6. BoughtInv'
      BY <2>1, <2>3, <2>5 DEF BoughtInv
    <2>7. QED
      BY <2>3, <2>6
  <1>7. ASSUME NEW label, NEW next, Save("trader", label, next),
               unfinished' = unfinished, tries' \in 0..Attempts,
               \/ next \in {"observe", "sweep", "sweeping"}
               \/ /\ next \in {"fetching", "retrying"}
                  /\ at["trader"] \in Ids /\ tries' < Attempts
        PROVE  IInv'
    <2>1. /\ bought' = bought /\ pc'["trader"] = next
          /\ \A i \in Ids : Safe(i) => Safe(i)'
          /\ BoughtInv' => IInv'
      BY <1>3, <1>4, <1>7
    <2>2. BoughtInv'
      BY <1>1, <1>5, <1>7, <2>1, BoughtStays
    <2>3. QED
      BY <2>1, <2>2
  <1>8. CASE ObserverSaves
    <2>1. PICK label \in {"capturing", "observing"}, next \in {"observe", "sweep"} :
            Save("trader", label, next)
      BY <1>8 DEF ObserverSaves
    <2>2. unfinished' = unfinished /\ tries' = tries
      BY <1>8 DEF ObserverSaves, loops
    <2>3. QED
      BY <1>4, <1>7, <2>1, <2>2
  <1>9. CASE AttemptSaved
    <2>1. /\ Save("trader", "attempting", "fetching")
          /\ unfinished' = unfinished /\ tries' = tries
      BY <1>9 DEF AttemptSaved, loops
    <2>2. at["trader"] \in Ids /\ tries < Attempts
      BY <2>1 DEF IInv, TraderInv, Save, InCall
    <2>3. QED
      BY <1>4, <1>7, <2>1, <2>2
  <1>10. CASE FillsSaved
    <2>1. /\ Save("trader", "reconciling", "sweeping")
          /\ unfinished' = unfinished /\ tries' = tries
      BY <1>10 DEF FillsSaved, loops
    <2>2. QED
      BY <1>4, <1>7, <2>1
  <1>11. CASE ErrorSaved
    <2>1. PICK next \in {"retrying", "sweeping"} :
            /\ Save("trader", "erroring", next)
            /\ next = "retrying" => tries + 1 < Attempts
      BY <1>11 DEF ErrorSaved
    <2>2. unfinished' = unfinished /\ tries' = tries + 1
      BY <1>11 DEF ErrorSaved
    <2>3. at["trader"] \in Ids /\ tries < Attempts
      BY <2>1 DEF IInv, TraderInv, Save, InCall
    <2>4. tries' \in 0..Attempts
      BY <1>4, <2>2, <2>3, FileAssumption
    <2>5. QED
      BY <1>4, <1>7, <2>1, <2>2, <2>3, <2>4
  <1>12. QED
    BY <1>6, <1>8, <1>9, <1>10, <1>11

\* Its calls that raise.  After the engine's the attempt stays unfinished.
LEMMA TraderFails ==
  ASSUME IInv, EngineFails \/ FillsRefused \/ SweepDies
  PROVE  IInv'
  <1>1. World /\ Memory /\ "trader" \in Procs /\ CallInv("trader") /\ BoughtInv
    BY TypeSplit DEF IInv, Procs
  <1>2. ASSUME NEW label, NEW next, Raise("trader", label, next),
               UNCHANGED <<loops, unfinished>>,
               refused \subseteq refused', refused' \subseteq Ids,
               \/ next \in {"observe", "stopped", "down"}
               \/ next = "failed" /\ at["trader"] \in Ids /\ tries < Attempts
        PROVE  IInv'
    <2>1. /\ Moves("trader") /\ World' /\ Memory' /\ pc'["trader"] = next
          /\ call'["trader"] = NoCall
          /\ next = "failed" => at'["trader"] = at["trader"]
          /\ bought' = bought /\ tries' = tries
      BY <1>1, <1>2, RaiseMoves
    <2>2. CallInv("trader")'
      BY <1>1, <1>2, <2>1, CallEnded
    <2>3. TraderInv'
      BY <1>2, <2>1 DEF TraderInv
    <2>4. (\A i \in Ids : Safe(i) => Safe(i)') => BoughtInv'
      BY <1>1, <1>2, <2>1, BoughtStays
    <2>5. QED
      BY <2>1, <2>2, <2>3, <2>4, TraderStepKeeps
  <1>3. refused \subseteq Ids
    BY <1>1 DEF World
  <1>4. CASE EngineFails
    <2>1. UNCHANGED <<loops, unfinished>>
      BY <1>4 DEF EngineFails
    <2>2. PICK label \in {"adding", "selling", "settling"}, next \in {"observe", "stopped"} :
            /\ Raise("trader", label, next)
            /\ IF label = "adding" THEN refused' = refused \cup {at["trader"]}
                                   ELSE refused' = refused
      BY <1>4 DEF EngineFails
    <2>3. label = "adding" => at["trader"] \in Ids
      BY <1>1, <2>2 DEF CallInv, Sound, Raise, InCall
    <2>4. refused \subseteq refused' /\ refused' \subseteq Ids
      BY <1>3, <2>2, <2>3
    <2>5. QED
      BY <1>2, <2>1, <2>2, <2>4
  <1>5. CASE FillsRefused
    <2>1. /\ Raise("trader", "reconciling", "failed")
          /\ UNCHANGED <<loops, unfinished>> /\ refused' = refused
      BY <1>5 DEF FillsRefused
    <2>2. at["trader"] \in Ids /\ tries < Attempts
      BY <2>1 DEF IInv, TraderInv, Raise, InCall
    <2>3. QED
      BY <1>2, <1>3, <2>1, <2>2
  <1>6. CASE SweepDies
    <2>1. PICK label \in {"attempting", "erroring"} : Raise("trader", label, "down")
      BY <1>6 DEF SweepDies
    <2>2. UNCHANGED <<loops, unfinished>> /\ refused' = refused
      BY <1>6 DEF SweepDies
    <2>3. QED
      BY <1>2, <1>3, <2>1, <2>2
  <1>7. QED
    BY <1>4, <1>5, <1>6

\* Its steps between the calls.
LEMMA TraderGoesOn ==
  ASSUME IInv,
         \/ EngineHalts \/ SweepStarts \/ SweepEnds
         \/ \E id \in Ids : EngineProtect(id)
  PROVE  IInv'
  <1>1. World /\ Memory /\ "trader" \in Procs /\ CallInv("trader") /\ BoughtInv
    BY TypeSplit DEF IInv, Procs
  <1>2. /\ UNCHANGED <<file, copy, call, at, rows, bought, sold, filled, lost, unfinished,
                       told, refused, clobbered, runs>>
        /\ \E next \in {"stopped", "sweeping", "engine", "observe"} :
             pc' = [pc EXCEPT !["trader"] = next]
        /\ pc["trader"] \in {"engine", "sweep", "sweeping"}
    BY DEF EngineHalts, SweepStarts, SweepEnds, EngineProtect, TraderGoes, EngineAt,
           TraderAt, loops, exchange, ghosts
  <1>3. protected' \subseteq Ids /\ Orders'
    <2>1. ASSUME NEW id \in Ids, EngineProtect(id)
          PROVE  id \notin Triple /\ protected' = protected \cup {id}
      <3>1. Tracked(file, id) /\ file[id].strategy = 1
        BY <2>1 DEF EngineProtect, Held, UnresolvedPositions, Unresolved, UnresolvedStatuses,
                    Tracked
      <3>2. Strategy(id) = 1
        BY <3>1 DEF IInv, RowsInv, Right, RowRight, Tracked
      <3>3. QED
        BY <2>1, <3>2 DEF EngineProtect, Strategy
    <2>2. \/ protected' = protected
          \/ \E id \in Ids \ Triple : protected' = protected \cup {id}
      BY <2>1 DEF EngineHalts, SweepStarts, SweepEnds, TraderGoes, exchange
    <2>3. QED
      BY <1>1, <1>2, <2>2 DEF World, Orders
  <1>4. /\ exits' \in [Ids -> ExitKinds]
        /\ left' \in [Procs -> SUBSET Ids]
        /\ \A q \in Procs \ {"trader"} : left'[q] = left[q]
        /\ tries' \in 0..Attempts
    <2>1. CASE SweepStarts
      <3>1. \A id \in Ids : file[id].exit \in ExitKinds
        BY <1>1 DEF World, Rows, Positions
      <3>2. exits' \in [Ids -> ExitKinds]
        BY <2>1, <3>1 DEF SweepStarts, ExitKinds
      <3>3. QED
        BY <1>1, <2>1, <3>2 DEF SweepStarts, Memory
    <2>2. CASE SweepEnds
      BY <1>1, <2>2, FileAssumption DEF SweepEnds, Memory, ExitKinds
    <2>3. CASE EngineHalts \/ \E id \in Ids : EngineProtect(id)
      BY <1>1, <2>3 DEF EngineHalts, EngineProtect, loops, Memory
    <2>4. QED
      BY <2>1, <2>2, <2>3
  <1>5. /\ DOMAIN pc' = Procs
        /\ pc'["trader"] \in {"stopped", "sweeping", "engine", "observe"}
        /\ \A q \in Procs \ {"trader"} : pc'[q] = pc[q]
    BY <1>1, <1>2 DEF Memory
  <1>6. World' /\ Memory'
    BY <1>1, <1>2, <1>3, <1>4, <1>5 DEF World, Memory
  <1>7. Moves("trader")
    <2>1. Grows /\ FileKept
      BY <1>2 DEF Grows, FileKept, Tracked
    <2>2. ListsMove
      BY <1>2, <2>1 DEF ListsMove
    <2>3. Others("trader")
      BY <1>2, <1>4, <1>5 DEF Others
    <2>4. QED
      BY <2>1, <2>2, <2>3 DEF Moves
  <1>8. CallInv("trader")'
    BY <1>1, <1>2, <1>5, <1>7, CallIdle DEF Moves
  <1>9. TraderInv'
    BY <1>5 DEF TraderInv
  <1>10. (\A i \in Ids : Safe(i) => Safe(i)') => BoughtInv'
    BY <1>1, <1>2, <1>5, BoughtStays
  <1>11. QED
    BY <1>6, <1>7, <1>8, <1>9, <1>10, TraderStepKeeps

(***************************************************************************)
(* Any process.                                                            *)
(***************************************************************************)
\* A process loads the file for the call it is in.
LEMMA Loads ==
  ASSUME IInv, NEW p \in Procs, Load(p)
  PROVE  IInv'
  <1>1. World /\ Memory /\ CallInv(p) /\ BoughtInv
    BY TypeSplit DEF IInv
  <1>2. /\ UNCHANGED <<file, call, pc, at, rows, exits, left, tries, bought, sold,
                       protected, filled, lost, unfinished, told, refused, clobbered, runs>>
        /\ copy' = [copy EXCEPT ![p] = file]
    BY DEF Load, loops, exchange, ghosts
  <1>3. World' /\ Memory'
    BY <1>1, <1>2, LoadEffect, SameOrders DEF World, Memory
  <1>4. Grows /\ FileKept
    BY <1>2 DEF Grows, FileKept, Tracked
  <1>5. ListsMove
    BY <1>1, <1>2, <1>4, LoadEffect DEF ListsMove
  <1>6. Moves(p)
    BY <1>2, <1>4, <1>5 DEF Moves, Others
  <1>7. CallInv(p)'
    BY <1>1, <1>2, <1>4, CallSame
  <1>8. TraderInv' /\ ScriptInv' /\ MonitorInv'
    BY <1>2 DEF IInv, TraderInv, ScriptInv, MonitorInv, Tracked
  <1>9. BoughtInv'
    <2>1. \A id \in Ids : Safe(id) => Safe(id)'
      BY <1>2, <1>4, SafeStays
    <2>2. QED
      BY <1>1, <1>2, <2>1, BoughtStays
  <1>10. QED
    BY <1>3, <1>6, <1>7, <1>8, <1>9, Assemble

\* A process ends, of itself or by a crash; the protection script when it has
\* attached an order list.  The script that was recording a
\* BUY ends only by a crash.
LEMMA Forgets ==
  ASSUME IInv, NEW p \in Procs, NEW label, Forget(p, label),
         label \in {"idle", "down", "engine"},
         UNCHANGED <<file, bought, sold, filled, lost, unfinished, told, refused,
                     clobbered>>,
         \/ protected' = protected
         \/ \E id \in Ids \ Triple : protected' = protected \cup {id},
         \/ runs' = runs
         \/ runs.crash < MaxCrashes /\ runs' = [runs EXCEPT !.crash = @ + 1],
         runs' = runs => p # "script" \/ call["script"].method # "add"
  PROVE  IInv'
  <1>1. World /\ Memory /\ CallInv(p) /\ BoughtInv
    BY TypeSplit DEF IInv
  <1>2. /\ runs' \in [script : 0..MaxScripts, hit : 0..MaxHits, crash : 0..MaxCrashes]
        /\ runs.crash > 0 => runs'.crash > 0
        /\ runs' = runs \/ runs'.crash > 0
    BY <1>1, FileAssumption DEF World
  <1>3. World'
    <2>1. protected' \subseteq Ids /\ Orders'
      BY <1>1 DEF World, Orders
    <2>2. QED
      BY <1>1, <1>2, <2>1 DEF World
  <1>4. /\ Memory' /\ Others(p)
        /\ call'[p] = NoCall /\ pc'[p] = label
        /\ \A q \in Procs : copy'[q] \in {copy[q], file, NoRows}
        /\ rows' \in {rows, NoRows}
    BY <1>1, ForgetEffect
  <1>5. Grows /\ FileKept
    BY <1>2 DEF Grows, FileKept, Tracked
  <1>6. ListsMove
    BY <1>4, <1>5 DEF ListsMove
  <1>7. Moves(p)
    BY <1>4, <1>5, <1>6 DEF Moves
  <1>8. CallInv(p)'
    BY <1>4, CallEnded
  <1>9. /\ p = "trader" => TraderInv'
        /\ p = "script" => ScriptInv'
        /\ p = "monitor" => MonitorInv'
    BY <1>4 DEF TraderInv, ScriptInv, MonitorInv
  <1>10. BoughtInv'
    <2>1. p # "script" => call'["script"] = call["script"]
      BY <1>4 DEF Others, Procs
    <2>2. \A id \in Ids : Safe(id) => Safe(id)'
      BY <1>2, <1>5, <2>1, SafeStays
    <2>3. \/ pc'["trader"] = pc["trader"] /\ at'["trader"] = at["trader"]
          \/ pc'["trader"] \notin {"adding", "selling", "settling"}
      BY <1>4 DEF Others, Procs
    <2>4. QED
      BY <1>1, <2>2, <2>3, BoughtStays
  <1>11. QED
    BY <1>3, <1>4, <1>7, <1>8, <1>9, <1>10, Assemble

(***************************************************************************)
(* The manual scripts.                                                     *)
(***************************************************************************)
\* What their steps have to show.
LEMMA ScriptStepKeeps ==
  ASSUME IInv, Moves("script"), World', Memory', CallInv("script")', ScriptInv',
         bought' = bought, unfinished' = unfinished,
         \A id \in Ids : Safe(id) => Safe(id)'
  PROVE  IInv'
  <1>1. "trader" \in Procs /\ "script" \in Procs /\ World /\ BoughtInv
    BY TypeSplit DEF Procs, IInv
  <1>2. pc'["trader"] = pc["trader"] /\ at'["trader"] = at["trader"]
    BY <1>1 DEF Moves, Others
  <1>3. BoughtInv'
    BY <1>1, <1>2, BoughtStays
  <1>4. QED
    BY <1>1, <1>3, Assemble

\* The order script buys: the call that records the coins is under way.
LEMMA ScriptBuys ==
  ASSUME IInv, NEW id \in Ids, ManualBuy(id)
  PROVE  IInv'
  <1>1. World /\ Memory /\ "script" \in Procs /\ "trader" \in Procs /\ CallInv("script")
    BY TypeSplit DEF IInv, Procs
  <1>2. /\ UNCHANGED <<file, copy, rows, exits, left, tries, sold, protected, filled, lost,
                       unfinished, told, refused, clobbered>>
        /\ bought' = bought \cup {id} /\ id \in Manual
        /\ runs' = [runs EXCEPT !.script = @ + 1] /\ runs.script < MaxScripts
        /\ pc["script"] = "idle"
        /\ Begin("script", Call("add", id, "NONE"), "adding")
    BY DEF ManualBuy, ScriptAt, loops, exchange, ghosts
  <1>3. PICK c \in Calls : /\ Begin("script", c, "adding")
                           /\ c.method = "add" /\ c.id = id
    BY <1>2, CallFields DEF Methods, ExitKinds
  <1>4. /\ runs' \in [script : 0..MaxScripts, hit : 0..MaxHits, crash : 0..MaxCrashes]
        /\ runs'.crash = runs.crash
    BY <1>1, <1>2, FileAssumption DEF World
  <1>5. Grows /\ World'
    BY <1>1, <1>2, <1>4, SameOrders DEF Grows, World
  <1>6. left' \in [Procs -> SUBSET Ids] /\ tries' \in 0..Attempts
    BY <1>1, <1>2 DEF Memory
  <1>7. /\ Moves("script") /\ Memory'
        /\ call'["script"] = c /\ pc'["script"] = "adding" /\ at'["script"] = id
    BY <1>1, <1>2, <1>3, <1>5, <1>6, BeginMoves
  <1>8. CallInv("script")'
    BY <1>1, <1>3, <1>7, CallBegun DEF Sound
  <1>9. ScriptInv'
    BY <1>7 DEF ScriptInv
  <1>10. BoughtInv'
    <2>1. \A i \in Ids : Safe(i) => Safe(i)'
      BY <1>1, <1>2, <1>5, <1>7, SafeStays DEF CallInv, Moves, ListsMove
    <2>2. Safe(id)'
      BY <1>2, <1>3, <1>7 DEF Safe
    <2>3. pc'["trader"] = pc["trader"] /\ at'["trader"] = at["trader"]
      BY <1>1, <1>7 DEF Moves, Others
    <2>4. QED
      BY <1>1, <1>2, <2>1, <2>2, <2>3 DEF BoughtInv, IInv, World
  <1>11. QED
    BY <1>1, <1>5, <1>7, <1>8, <1>9, <1>10, Assemble

\* The other calls they begin.
LEMMA ScriptBegins ==
  ASSUME IInv, NEW c \in Calls, NEW label,
         Begin("script", c, label),
         copy' = copy \/ copy' = [copy EXCEPT !["script"] = file],
         UNCHANGED <<file, loops, exchange, unfinished, ghosts, runs>>,
         pc["script"] \in {"eligible", "apply", "dry"},
         c.id = at["script"],
         \/ c.method = "quarantine" /\ pc["script"] = "eligible" /\ label = "quarantining"
         \/ /\ c.method = "close" /\ c.arg = "PROTECTIVE" /\ ExitFound(c.id)
            /\ \/ pc["script"] = "apply" /\ label = "applying"
               \/ pc["script"] = "dry" /\ label = "closing"
  PROVE  IInv'
  <1>1. World /\ Memory /\ "script" \in Procs /\ CallInv("script") /\ ScriptInv
    BY TypeSplit DEF IInv, Procs
  <1>2. UNCHANGED <<rows, exits, left, tries, bought, sold, protected, filled, lost,
                    unfinished, told, refused, clobbered, runs>>
    BY DEF loops, exchange, ghosts
  <1>3. Grows /\ World'
    BY <1>1, <1>2, SameOrders DEF Grows, World
  <1>4. left' \in [Procs -> SUBSET Ids] /\ tries' \in 0..Attempts
    BY <1>1, <1>2 DEF Memory
  <1>5. /\ Moves("script") /\ Memory'
        /\ call'["script"] = c /\ pc'["script"] = label /\ at'["script"] = c.id
    BY <1>1, <1>2, <1>3, <1>4, BeginMoves
  <1>6. c.id \in Ids /\ (c.method = "quarantine" => c.id \in lost)
    BY <1>1 DEF ScriptInv
  <1>7. Sound(c)
    BY <1>1, <1>6 DEF Sound, ExitFound, ExitKinds, World, Orders
  <1>8. CallInv("script")'
    BY <1>1, <1>3, <1>5, <1>7, CallBegun, StaysSo
  <1>9. ScriptInv'
    BY <1>1, <1>2, <1>5, <1>6 DEF ScriptInv, Tracked
  <1>10. \A i \in Ids : Safe(i) => Safe(i)'
    BY <1>1, <1>5, SafeStays DEF CallInv, Moves, ListsMove
  <1>11. QED
    BY <1>2, <1>3, <1>5, <1>8, <1>9, <1>10, ScriptStepKeeps

\* Their steps between the calls.
LEMMA ScriptGoesOn ==
  ASSUME IInv,
         \/ \E id \in Ids, label \in {"protecting", "auditing", "apply", "dry"} :
              ScriptLoads(id, label)
         \/ Audited /\ AuditEligible(rows[at["script"]], at["script"])
  PROVE  IInv'
  <1>1. World /\ Memory /\ "script" \in Procs /\ CallInv("script") /\ ScriptInv
    BY TypeSplit DEF IInv, Procs
  <1>2. /\ UNCHANGED <<file, copy, call, exits, left, tries, bought, sold, protected,
                       filled, lost, unfinished, told, refused, clobbered>>
        /\ rows' \in {rows, file, NoRows}
        /\ pc["script"] \in {"idle", "auditing"}
        /\ \/ runs' = runs
           \/ runs.script < MaxScripts /\ runs' = [runs EXCEPT !.script = @ + 1]
    BY DEF ScriptLoads, Audited, ScriptAt, loops, exchange, ghosts
  <1>3. /\ runs' \in [script : 0..MaxScripts, hit : 0..MaxHits, crash : 0..MaxCrashes]
        /\ runs'.crash = runs.crash
    BY <1>1, <1>2, FileAssumption DEF World
  <1>4. Grows /\ World' /\ FileKept
    BY <1>1, <1>2, <1>3, SameOrders DEF Grows, World, FileKept, Tracked
  <1>5. /\ DOMAIN pc' = Procs /\ at' \in [Procs -> Ids \cup {NoId}]
        /\ \A q \in Procs \ {"script"} : pc'[q] = pc[q] /\ at'[q] = at[q]
        /\ pc'["script"] # "adding"
        /\ ScriptInv'
    <2>1. ASSUME NEW id \in Ids, NEW label \in {"protecting", "auditing", "apply", "dry"},
                 ScriptLoads(id, label)
          PROVE  /\ pc' = [pc EXCEPT !["script"] = label]
                 /\ at' = [at EXCEPT !["script"] = id]
                 /\ label \in {"auditing", "dry"} => rows' = file
                 /\ Tracked(file, id)
                 /\ label = "protecting" => id \notin Triple
      BY <2>1 DEF ScriptLoads
    <2>2. CASE \E id \in Ids, label \in {"protecting", "auditing", "apply", "dry"} : ScriptLoads(id, label)
      <3>1. PICK id \in Ids, label \in {"protecting", "auditing", "apply", "dry"} :
              /\ pc' = [pc EXCEPT !["script"] = label]
              /\ at' = [at EXCEPT !["script"] = id]
              /\ label \in {"auditing", "dry"} => rows' = file
              /\ Tracked(file, id)
              /\ label = "protecting" => id \notin Triple
        BY <2>1, <2>2
      <3>2. /\ DOMAIN pc' = Procs /\ at' \in [Procs -> Ids \cup {NoId}]
            /\ \A q \in Procs \ {"script"} : pc'[q] = pc[q] /\ at'[q] = at[q]
            /\ pc'["script"] = label /\ at'["script"] = id
        BY <1>1, <3>1 DEF Memory
      <3>3. label \in {"auditing", "dry"} => rows' \in Rows /\ Tracked(rows', id)
        BY <1>1, <3>1 DEF World, Tracked
      <3>4. ScriptInv'
        BY <3>1, <3>2, <3>3 DEF ScriptInv, Tracked
      <3>5. QED
        BY <3>2, <3>4
    <2>3. CASE Audited /\ AuditEligible(rows[at["script"]], at["script"])
      <3>1. /\ pc["script"] = "auditing" /\ pc' = [pc EXCEPT !["script"] = "eligible"]
            /\ at' = at /\ at["script"] \in lost
        BY <2>3 DEF Audited, ScriptAt, AuditEligible
      <3>2. QED
        BY <1>1, <1>2, <3>1 DEF Memory, ScriptInv
    <2>4. QED
      BY <2>2, <2>3
  <1>6. Memory'
    BY <1>1, <1>2, <1>5 DEF Memory, World
  <1>7. Moves("script")
    <2>1. ListsMove
      BY <1>2, <1>4 DEF ListsMove
    <2>2. QED
      BY <1>2, <1>4, <1>5, <2>1 DEF Moves, Others
  <1>8. CallInv("script")'
    BY <1>1, <1>2, <1>4, <1>5, CallIdle
  <1>9. \A i \in Ids : Safe(i) => Safe(i)'
    BY <1>2, <1>4, SafeStays
  <1>10. QED
    BY <1>2, <1>4, <1>5, <1>6, <1>7, <1>8, <1>9, ScriptStepKeeps

\* Their calls that end.  A refused BUY is remembered as refused.
LEMMA ScriptEnds ==
  ASSUME IInv, ScriptSaves \/ ScriptFails \/ ManualRefused
  PROVE  IInv'
  <1>1. World /\ Memory /\ "script" \in Procs /\ CallInv("script") /\ ScriptInv
    BY TypeSplit DEF IInv, Procs
  <1>2. UNCHANGED <<rows, exits, left, tries, unfinished>>
    BY DEF ScriptSaves, ScriptFails, ManualRefused, loops
  <1>3. tries \in 0..Attempts /\ unfinished \in BOOLEAN /\ refused \subseteq Ids
    BY <1>1 DEF Memory, World
  <1>4. CASE ScriptSaves
    <2>1. PICK label, next : /\ Save("script", label, next)
                             /\ \/ next = "idle"
                                \/ label = "closing" /\ next = "restoring"
      BY <1>4 DEF ScriptSaves
    <2>2. tries' \in 0..Attempts /\ unfinished' \in BOOLEAN
      BY <1>2, <1>3
    <2>3. /\ Moves("script") /\ World' /\ Memory'
          /\ pc["script"] = label /\ pc'["script"] = next
          /\ call'["script"] = NoCall
          /\ next = "restoring" => at'["script"] = at["script"]
          /\ bought' = bought
          /\ call["script"].method = "add" => Tracked(file', call["script"].id)
      BY <1>1, <1>2, <2>1, <2>2, SaveMoves
    <2>4. CallInv("script")'
      BY <1>1, <2>1, <2>3, CallEnded
    <2>5. ScriptInv'
      BY <1>1, <1>2, <2>1, <2>3 DEF ScriptInv, Tracked
    <2>6. \A i \in Ids : Safe(i) => Safe(i)'
      BY <2>3, SafeStays DEF Moves, ListsMove
    <2>7. QED
      BY <1>2, <2>3, <2>4, <2>5, <2>6, ScriptStepKeeps
  <1>5. CASE ScriptFails \/ ManualRefused
    <2>1. PICK label : /\ Raise("script", label, "idle")
                       /\ \/ label # "adding" /\ refused' = refused
                          \/ label = "adding" /\ refused' = refused \cup {at["script"]}
      BY <1>5 DEF ScriptFails, ManualRefused
    <2>2. pc["script"] = label
      BY <2>1 DEF Raise, InCall
    <2>3. label = "adding" => at["script"] \in Ids /\ at["script"] = call["script"].id
      BY <1>1, <2>2 DEF CallInv, Sound
    <2>4. refused \subseteq refused' /\ refused' \subseteq Ids
      BY <1>3, <2>1, <2>3
    <2>5. UNCHANGED <<loops, unfinished>>
      BY <1>2 DEF loops
    <2>6. /\ Moves("script") /\ World' /\ Memory'
          /\ pc'["script"] = "idle" /\ call'["script"] = NoCall /\ bought' = bought
      BY <1>1, <2>1, <2>4, <2>5, RaiseMoves
    <2>7. CallInv("script")' /\ ScriptInv'
      BY <1>1, <2>6, CallEnded DEF ScriptInv
    <2>8. call["script"].method = "add" => call["script"].id \in refused'
      BY <1>1, <2>1, <2>2, <2>3 DEF CallInv
    <2>9. \A i \in Ids : Safe(i) => Safe(i)'
      BY <2>6, <2>8, SafeStays DEF Moves, ListsMove
    <2>10. QED
      BY <1>2, <2>6, <2>7, <2>9, ScriptStepKeeps
  <1>6. QED
    BY <1>4, <1>5

\* A dry run ends: the file is what it was before, whoever wrote it since.
LEMMA ScriptRestores ==
  ASSUME IInv, DryRunRestores
  PROVE  IInv'
  <1>1. World /\ Memory /\ "script" \in Procs /\ CallInv("script")
    BY TypeSplit DEF IInv, Procs
  <1>2. /\ UNCHANGED <<bought, sold, protected, filled, lost, unfinished, told, refused,
                       runs>>
        /\ pc["script"] = "restoring" /\ Forget("script", "idle")
    BY DEF DryRunRestores, ScriptAt, exchange
  <1>3. World'
    BY <1>1, <1>2, RestoreEffect, SameOrders DEF World
  <1>4. /\ Memory' /\ Others("script")
        /\ call'["script"] = NoCall /\ pc'["script"] = "idle"
        /\ \A q \in Procs : copy'[q] \in {copy[q], file, NoRows}
        /\ rows' \in {rows, NoRows}
    BY <1>1, <1>2, ForgetEffect
  <1>5. Grows /\ ListsMove
    BY <1>2, <1>4, RestoreEffect DEF Grows, ListsMove
  <1>6. Moves("script")
    BY <1>4, <1>5 DEF Moves
  <1>7. CallInv("script")' /\ ScriptInv'
    BY <1>1, <1>4, CallEnded DEF ScriptInv
  <1>8. \A i \in Ids : Safe(i) => Safe(i)'
    BY <1>1, <1>2, <1>5, SafeStays DEF CallInv, ListsMove
  <1>9. QED
    BY <1>2, <1>3, <1>4, <1>6, <1>7, <1>8, ScriptStepKeeps

\* All steps of the scripts.
LEMMA ScriptKeeps ==
  ASSUME IInv, ScriptStep
  PROVE  IInv'
  <1>1. World /\ Memory /\ "script" \in Procs /\ CallInv("script") /\ ScriptInv
    BY TypeSplit DEF IInv, Procs
  <1>2. CASE ScriptSaves \/ ScriptFails \/ ManualRefused
    BY <1>2, ScriptEnds
  <1>3. ASSUME Forget("script", "idle"), pc["script"] # "adding",
               UNCHANGED <<file, exchange, unfinished, ghosts, runs>>
        PROVE  IInv'
    BY <1>1, <1>3, Forgets DEF CallInv, exchange, ghosts
  <1>4. CASE Audited
    <2>1. CASE AuditEligible(rows[at["script"]], at["script"])
      BY <1>4, <2>1, ScriptGoesOn
    <2>2. CASE ~AuditEligible(rows[at["script"]], at["script"])
      BY <1>3, <1>4, <2>2 DEF Audited, ScriptAt
    <2>3. QED
      BY <2>1, <2>2
  <1>5. CASE Quarantine
    <2>1. pc["script"] = "eligible" /\ at["script"] \in Ids
      BY <1>1, <1>5 DEF Quarantine, ScriptAt, ScriptInv
    <2>2. PICK c \in Calls : /\ Begin("script", c, "quarantining")
                             /\ c.method = "quarantine" /\ c.id = at["script"]
      BY <1>5, <2>1, CallFields DEF Quarantine, Methods, ExitKinds
    <2>3. UNCHANGED <<file, copy, loops, exchange, unfinished, ghosts, runs>>
      BY <1>5 DEF Quarantine
    <2>4. QED
      BY <2>1, <2>2, <2>3, ScriptBegins
  <1>6. ASSUME NEW from, NEW label, ScriptReconciles(from, label),
               \/ from = "apply" /\ label = "applying"
               \/ from = "dry" /\ label = "closing"
        PROVE  IInv'
    <2>1. /\ pc["script"] = from /\ at["script"] \in Ids
          /\ UNCHANGED <<file, exchange, unfinished, ghosts, runs>>
      BY <1>1, <1>6 DEF ScriptReconciles, ScriptAt, ScriptInv
    <2>2. CASE Unresolved(file, at["script"]) /\ ExitFound(at["script"])
      <3>1. /\ BeginLoaded("script", Call("close", at["script"], "PROTECTIVE"), label)
            /\ UNCHANGED loops
        BY <1>6, <2>2 DEF ScriptReconciles
      <3>2. PICK c \in Calls : /\ Begin("script", c, label)
                               /\ c.method = "close" /\ c.id = at["script"]
                               /\ c.arg = "PROTECTIVE"
        BY <2>1, <3>1, CallFields DEF Methods, ExitKinds, BeginLoaded
      <3>3. copy' = [copy EXCEPT !["script"] = file]
        BY <3>1 DEF BeginLoaded
      <3>4. QED
        BY <1>6, <2>1, <2>2, <3>1, <3>2, <3>3, ScriptBegins
    <2>3. CASE ~(Unresolved(file, at["script"]) /\ ExitFound(at["script"]))
      BY <1>3, <1>6, <2>1, <2>3 DEF ScriptReconciles
    <2>4. QED
      BY <2>2, <2>3
  <1>7. CASE ManualProtect
    <2>1. /\ \E id \in Ids \ Triple : protected' = protected \cup {id}
          /\ Forget("script", "idle") /\ pc["script"] = "protecting"
          /\ UNCHANGED <<file, bought, sold, filled, lost, unfinished, ghosts, runs>>
      BY <1>1, <1>7 DEF ManualProtect, ScriptAt, ScriptInv
    <2>2. QED
      BY <1>1, <2>1, Forgets DEF CallInv, ghosts
  <1>8. QED
    BY <1>1, <1>2, <1>4, <1>5, <1>6, <1>7, ScriptBuys, ScriptGoesOn, ScriptRestores, Loads
    DEF ScriptStep

(***************************************************************************)
(* The monitor.                                                            *)
(***************************************************************************)
\* What its steps have to show.
LEMMA MonitorStepKeeps ==
  ASSUME IInv, Moves("monitor"), World', Memory', CallInv("monitor")', MonitorInv',
         bought' = bought, unfinished' = unfinished
  PROVE  IInv'
  <1>1. "trader" \in Procs /\ "script" \in Procs /\ "monitor" \in Procs
        /\ World /\ BoughtInv
    BY TypeSplit DEF Procs, IInv
  <1>2. /\ pc'["trader"] = pc["trader"] /\ at'["trader"] = at["trader"]
        /\ call'["script"] = call["script"]
    BY <1>1 DEF Moves, Others
  <1>3. \A i \in Ids : Safe(i) => Safe(i)'
    BY <1>2, SafeStays DEF Moves, ListsMove
  <1>4. BoughtInv'
    BY <1>1, <1>2, <1>3, BoughtStays
  <1>5. QED
    BY <1>1, <1>4, Assemble

\* The list it scans holds legacy positions only.
LEMMA MonitorGoesOn ==
  ASSUME IInv,
         \/ MonitorLoads \/ MonitorScanned
         \/ \E id \in Ids : MonitorNoHit(id)
  PROVE  IInv'
  <1>1. World /\ Memory /\ "monitor" \in Procs /\ CallInv("monitor") /\ MonitorInv
    BY TypeSplit DEF IInv, Procs
  <1>2. /\ UNCHANGED <<file, copy, call, at, rows, exits, tries, bought, sold, protected,
                       filled, lost, unfinished, told, refused, clobbered, runs>>
        /\ pc["monitor"] \in {"idle", "scanning", "doomed"}
    BY DEF MonitorLoads, MonitorScanned, MonitorNoHit, MonitorAt, Scanning, exchange,
           ghosts
  <1>3. Grows /\ World' /\ FileKept
    BY <1>1, <1>2, SameOrders DEF Grows, World, FileKept, Tracked
  <1>4. /\ DOMAIN pc' = Procs /\ left' \in [Procs -> SUBSET Ids]
        /\ \A q \in Procs \ {"monitor"} : pc'[q] = pc[q] /\ left'[q] = left[q]
        /\ pc'["monitor"] \in {"doomed", "scanning", "notifying"}
        /\ pc'["monitor"] # "notifying" => left'["monitor"] \subseteq Legacy
    <2>1. CASE MonitorLoads
      <3>1. {id \in Legacy : file[id].status = "OPEN"} \in SUBSET Ids
        BY DEF Ids
      <3>2. QED
        BY <1>1, <2>1, <3>1 DEF MonitorLoads, Memory
    <2>2. CASE MonitorScanned
      <3>1. {id \in PendingNotifications(file) : ~FixedLevels(id)} \in SUBSET Ids
        BY <1>1 DEF PendingNotifications, World, Rows
      <3>2. QED
        BY <1>1, <2>2, <3>1 DEF MonitorScanned, Memory
    <2>3. ASSUME NEW id \in Ids, MonitorNoHit(id)
          PROVE  /\ pc' = pc /\ pc["monitor"] \in {"scanning", "doomed"}
                 /\ left' = [left EXCEPT !["monitor"] = @ \ {id}]
      BY <2>3 DEF MonitorNoHit, Scanning
    <2>4. CASE \E id \in Ids : MonitorNoHit(id)
      BY <1>1, <2>3, <2>4 DEF Memory, MonitorInv
    <2>5. QED
      BY <2>1, <2>2, <2>4
  <1>5. Memory'
    BY <1>1, <1>2, <1>4 DEF Memory
  <1>6. Moves("monitor")
    <2>1. ListsMove
      BY <1>2, <1>3 DEF ListsMove
    <2>2. QED
      BY <1>2, <1>3, <1>4, <2>1 DEF Moves, Others
  <1>7. CallInv("monitor")'
    BY <1>1, <1>2, <1>3, <1>4, CallIdle
  <1>8. MonitorInv'
    BY <1>4 DEF MonitorInv
  <1>9. QED
    BY <1>2, <1>3, <1>5, <1>6, <1>7, <1>8, MonitorStepKeeps

\* It records a hit of a legacy position, or marks what it has just told LINE.
LEMMA MonitorBegins ==
  ASSUME IInv, NEW id \in Ids,
         MonitorTells(id) \/ \E event \in Hits : MonitorHit(id, event)
  PROVE  IInv'
  <1>1. World /\ Memory /\ "monitor" \in Procs /\ CallInv("monitor") /\ MonitorInv
    BY TypeSplit DEF IInv, Procs
  <1>2. /\ UNCHANGED <<file, rows, exits, tries, bought, sold, protected, filled, lost,
                       unfinished, refused, clobbered>>
        /\ copy' = [copy EXCEPT !["monitor"] = file]
        /\ left' = [left EXCEPT !["monitor"] = @ \ {id}]
    BY DEF MonitorTells, MonitorHit, BeginLoaded, exchange, ghosts
  <1>3. /\ left' \in [Procs -> SUBSET Ids] /\ left'["monitor"] \subseteq left["monitor"]
        /\ \A q \in Procs \ {"monitor"} : left'[q] = left[q]
        /\ tries' \in 0..Attempts
    BY <1>1, <1>2 DEF Memory
  <1>4. /\ runs' \in [script : 0..MaxScripts, hit : 0..MaxHits, crash : 0..MaxCrashes]
        /\ runs'.crash = runs.crash
        /\ told' \subseteq Ids /\ told \subseteq told'
    <2>1. CASE MonitorTells(id)
      BY <1>1, <2>1 DEF MonitorTells, World
    <2>2. CASE \E event \in Hits : MonitorHit(id, event)
      <3>1. /\ runs.hit < MaxHits /\ runs' = [runs EXCEPT !.hit = @ + 1]
            /\ told' = told
        BY <2>2 DEF MonitorHit, ghosts
      <3>2. QED
        BY <1>1, <3>1, FileAssumption DEF World
    <2>3. QED
      BY <2>1, <2>2
  <1>5. Grows /\ World'
    BY <1>1, <1>2, <1>4, SameOrders DEF Grows, World
  <1>6. PICK c \in Calls, label \in {"marking", "triggering", "triggering_doomed"} :
          /\ Begin("monitor", c, label) /\ Sound(c)'
          /\ IF label = "marking" THEN c.method = "sent"
             ELSE c.method = "trigger" /\ id \in left["monitor"]
                    /\ pc["monitor"] \in {"scanning", "doomed"}
    <2>1. CASE MonitorTells(id)
      <3>1. PICK c \in Calls : /\ Begin("monitor", c, "marking")
                               /\ c.method = "sent" /\ c.id = id
        BY <2>1, CallFields DEF MonitorTells, BeginLoaded, Methods, ExitKinds
      <3>2. id \in told'
        BY <2>1 DEF MonitorTells
      <3>3. Sound(c)'
        BY <3>1, <3>2 DEF Sound
      <3>4. QED
        BY <3>1, <3>3
    <2>2. ASSUME NEW event \in Hits, MonitorHit(id, event)
          PROVE  \E c \in Calls, label \in {"triggering", "triggering_doomed"} :
                   /\ Begin("monitor", c, label) /\ Sound(c)'
                   /\ c.method = "trigger" /\ id \in left["monitor"]
                   /\ pc["monitor"] \in {"scanning", "doomed"}
      <3>1. PICK c \in Calls, label \in {"triggering", "triggering_doomed"} :
              /\ Begin("monitor", c, label)
              /\ c.method = "trigger" /\ c.id = id /\ c.arg = event
        BY <2>2, CallFields DEF MonitorHit, BeginLoaded, Methods
      <3>2. id \in left["monitor"] /\ pc["monitor"] \in {"scanning", "doomed"}
        BY <2>2 DEF MonitorHit, Scanning
      <3>3. Sound(c)'
        BY <1>1, <3>1, <3>2 DEF Sound, MonitorInv
      <3>4. QED
        BY <3>1, <3>2, <3>3
    <2>3. QED
      BY <2>1, <2>2
  <1>7. /\ Moves("monitor") /\ Memory'
        /\ call'["monitor"] = c /\ pc'["monitor"] = label /\ at'["monitor"] = c.id
    BY <1>1, <1>2, <1>3, <1>5, <1>6, BeginMoves
  <1>8. CallInv("monitor")'
    BY <1>1, <1>6, <1>7, CallBegun
  <1>9. MonitorInv'
    BY <1>1, <1>3, <1>6, <1>7 DEF MonitorInv
  <1>10. QED
    BY <1>2, <1>5, <1>7, <1>8, <1>9, MonitorStepKeeps

\* Its saves return it to the list it works through.
LEMMA MonitorEndsCall ==
  ASSUME IInv, MonitorSaves
  PROVE  IInv'
  <1>1. World /\ Memory /\ "monitor" \in Procs /\ MonitorInv
    BY TypeSplit DEF IInv, Procs
  <1>2. UNCHANGED <<rows, exits, left, tries, unfinished>>
    BY DEF MonitorSaves, loops
  <1>3. tries' \in 0..Attempts /\ unfinished' \in BOOLEAN
    BY <1>1, <1>2 DEF Memory, World
  <1>4. PICK label, next : /\ Save("monitor", label, next)
                           /\ \/ label = "marking" /\ next = "notifying"
                              \/ /\ label \in {"triggering", "triggering_doomed"}
                                 /\ next \in {"scanning", "doomed"}
    BY DEF MonitorSaves
  <1>5. /\ Moves("monitor") /\ World' /\ Memory'
        /\ pc["monitor"] = label /\ pc'["monitor"] = next
        /\ call'["monitor"] = NoCall /\ bought' = bought
    BY <1>1, <1>2, <1>3, <1>4, SaveMoves
  <1>6. CallInv("monitor")'
    BY <1>1, <1>4, <1>5, CallEnded
  <1>7. MonitorInv'
    BY <1>1, <1>2, <1>4, <1>5 DEF MonitorInv
  <1>8. QED
    BY <1>2, <1>5, <1>6, <1>7, MonitorStepKeeps

\* All steps of the monitor.
LEMMA MonitorKeeps ==
  ASSUME IInv, MonitorStep
  PROVE  IInv'
  <1>1. "monitor" \in Procs /\ "script" \in Procs
    BY DEF Procs
  <1>2. CASE MonitorRaises \/ MonitorFails \/ MonitorEnds
    <2>1. /\ Forget("monitor", "idle")
          /\ UNCHANGED <<file, exchange, unfinished, ghosts, runs>>
      BY <1>2 DEF MonitorRaises, MonitorFails, MonitorEnds
    <2>2. QED
      BY <1>1, <2>1, Forgets DEF exchange, ghosts
  <1>3. QED
    BY <1>2, MonitorGoesOn, MonitorBegins, MonitorEndsCall DEF MonitorStep

(***************************************************************************)
(* The invariant.                                                          *)
(***************************************************************************)
\* All steps of the trading process.
LEMMA TraderKeeps ==
  ASSUME IInv, TraderStep
  PROVE  IInv'
  <1>1. "trader" \in Procs
    BY DEF Procs
  <1>2. CASE Restart
    <2>1. /\ Forget("trader", "engine")
          /\ UNCHANGED <<file, exchange, unfinished, ghosts, runs>>
      BY <1>2 DEF Restart
    <2>2. QED
      BY <1>1, <2>1, Forgets DEF exchange, ghosts
  <1>3. QED
    BY <1>1, <1>2, EngineOrders, TraderBegins, TraderSaves, TraderFails, TraderGoesOn,
       Loads
    DEF TraderStep

\* The exchange fills a protective leg, or forgets all orders.
LEMMA ExchangeKeeps ==
  ASSUME IInv, Reset \/ \E id \in Ids : FillProtective(id)
  PROVE  IInv'
  <1>1. World /\ Memory /\ "trader" \in Procs /\ CallInv("trader") /\ BoughtInv
    BY TypeSplit DEF IInv, Procs
  <1>2. UNCHANGED <<file, copy, call, pc, at, rows, exits, left, tries, bought, unfinished,
                    told, refused, clobbered, runs>>
    BY DEF Reset, FillProtective, loops, ghosts
  <1>3. sold \in [Ids -> ExitKinds] /\ filled \in [Ids -> 0..2] /\ Orders
    BY <1>1 DEF World
  <1>4. /\ sold' \in [Ids -> ExitKinds] /\ filled' \in [Ids -> 0..2] /\ Orders'
        /\ \A id \in Ids : sold[id] # "NONE" => sold'[id] = sold[id]
        /\ lost' \subseteq Ids /\ lost \subseteq lost' /\ protected' \subseteq Ids
    <2>1. CASE Reset
      BY <1>1, <1>3, <2>1 DEF Reset, World, Orders
    <2>2. ASSUME NEW id \in Ids, FillProtective(id)
          PROVE  /\ sold' \in [Ids -> ExitKinds] /\ filled' \in [Ids -> 0..2] /\ Orders'
                 /\ \A other \in Ids : sold[other] # "NONE" => sold'[other] = sold[other]
                 /\ lost' = lost /\ protected' \subseteq protected
      <3>1. /\ sold' = [sold EXCEPT ![id] = "PROTECTIVE"] /\ id \in protected
            /\ filled' = [filled EXCEPT ![id] = IF filled[id] = 0 THEN 1 ELSE 2]
            /\ protected' = protected \ {id} /\ lost' = lost
        BY <2>2 DEF FillProtective
      <3>2. id \notin Triple /\ sold[id] \in {"NONE", "PROTECTIVE"}
        BY <1>3, <3>1 DEF Orders, ExitKinds
      <3>3. /\ sold' \in [Ids -> ExitKinds] /\ sold'[id] = "PROTECTIVE"
            /\ \A other \in Ids \ {id} : sold'[other] = sold[other]
        BY <1>3, <3>1 DEF ExitKinds
      <3>4. /\ filled' \in [Ids -> 0..2]
            /\ \A other \in Ids \ {id} : filled'[other] = filled[other]
        BY <1>3, <3>1
      <3>5. Orders'
        BY <1>3, <3>1, <3>2, <3>3, <3>4 DEF Orders
      <3>6. QED
        BY <3>1, <3>2, <3>3, <3>4, <3>5
    <2>3. QED
      BY <1>1, <2>1, <2>2 DEF World
  <1>5. World' /\ Memory'
    BY <1>1, <1>2, <1>4 DEF World, Memory
  <1>6. Grows /\ FileKept
    BY <1>2, <1>4 DEF Grows, FileKept, Tracked
  <1>7. ListsMove
    BY <1>2, <1>6 DEF ListsMove
  <1>8. Moves("trader")
    BY <1>2, <1>6, <1>7 DEF Moves, Others
  <1>9. CallInv("trader")'
    BY <1>1, <1>2, <1>6, CallSame
  <1>10. TraderInv'
    BY <1>2 DEF IInv, TraderInv
  <1>11. (\A i \in Ids : Safe(i) => Safe(i)') => BoughtInv'
    BY <1>1, <1>2, BoughtStays
  <1>12. QED
    BY <1>5, <1>8, <1>9, <1>10, <1>11, TraderStepKeeps

\* A process crashes.
LEMMA CrashKeeps ==
  ASSUME IInv, NEW p \in Procs, Crash(p)
  PROVE  IInv'
  <1>1. PICK label \in {"idle", "down"} : Forget(p, label)
    BY DEF Crash
  <1>2. /\ runs.crash < MaxCrashes /\ runs' = [runs EXCEPT !.crash = @ + 1]
        /\ UNCHANGED <<file, bought, sold, protected, filled, lost, unfinished, told,
                       refused, clobbered>>
    BY DEF Crash, exchange, ghosts
  <1>3. runs' # runs
    <2>1. runs \in [script : 0..MaxScripts, hit : 0..MaxHits, crash : 0..MaxCrashes]
      BY TypeSplit DEF IInv, World
    <2>2. runs'.crash = runs.crash + 1 /\ runs.crash \in Nat
      BY <1>2, <2>1
    <2>3. QED
      BY <2>2
  <1>4. QED
    BY <1>1, <1>2, <1>3, Forgets

\* Every step keeps the invariant.
LEMMA StepKeeps ==
  ASSUME IInv, [Next]_vars
  PROVE  IInv'
  <1>1. CASE UNCHANGED vars
    BY <1>1
    DEF vars, loops, exchange, ghosts, IInv, Typed, TypeOK, Orders, RowsInv, Right, RowRight,
        CallInv, Sound, TraderInv, ScriptInv, MonitorInv, BoughtInv, Safe, Tracked
  <1>2. CASE Next
    BY <1>2, TraderKeeps, ScriptKeeps, MonitorKeeps, ExchangeKeeps, CrashKeeps DEF Next
  <1>3. QED
    BY <1>1, <1>2

\* At the start every row is fresh and nothing is under way.
LEMMA Initial == Init => IInv
  <1> SUFFICES ASSUME Init PROVE IInv
    OBVIOUS
  <1>1. /\ DOMAIN pc = Procs
        /\ \A p \in Procs : pc[p] \in {"engine", "idle", "off"}
    BY DEF Init
  <1>2. /\ copy = [p \in Procs |-> NoRows] /\ call = [p \in Procs |-> NoCall]
        /\ at = [p \in Procs |-> NoId] /\ rows = NoRows
        /\ exits = [id \in Ids |-> "NONE"] /\ left = [p \in Procs |-> {}] /\ tries = 0
        /\ sold = [id \in Ids |-> "NONE"] /\ protected = {} /\ lost = {} /\ told = {}
        /\ filled = [id \in Ids |-> 0]
        /\ refused = {} /\ clobbered = {} /\ unfinished = FALSE
        /\ runs = [script |-> 0, hit |-> 0, crash |-> 0]
        /\ bought = IF MonitorRuns THEN Legacy ELSE {}
    BY DEF Init
  <1> DEFINE legacy(id) == [NoPosition EXCEPT !.status = "OPEN",
                                              !.strategy = Strategy(id),
                                              !.rec = "PENDING"]
  <1>3. file = [id \in Ids |-> IF id \in Legacy /\ MonitorRuns THEN legacy(id)
                                                               ELSE NoPosition]
    BY DEF Init
  <1>4. ASSUME NEW id \in Ids
        PROVE  /\ legacy(id) \in Positions({1, 2}) /\ legacy(id).status = "OPEN"
               /\ legacy(id).exit = "NONE" /\ ~legacy(id).pnl
               /\ legacy(id).rec = "PENDING" /\ legacy(id).strategy = Strategy(id)
               /\ NoPosition \in Positions({1, 2}) /\ NoPosition.status = "ABSENT"
               /\ NoPosition.exit = "NONE" /\ ~NoPosition.pnl /\ NoPosition.rec = "NONE"
    <2>1. Strategy(id) \in {1, 2}
      BY DEF Strategy
    <2>2. QED
      BY <2>1 DEF NoPosition, Positions, Statuses, UnresolvedStatuses, ExitKinds,
                  RecStatuses
  <1> HIDE DEF legacy
  <1>5. /\ file \in Rows
        /\ \A id \in Ids : /\ file[id].status \in {"OPEN", "ABSENT"}
                           /\ file[id].exit = "NONE" /\ ~file[id].pnl
                           /\ file[id].rec \in {"NONE", "PENDING"}
                           /\ file[id].status = "OPEN" => file[id].strategy = Strategy(id)
                           /\ id \in Legacy /\ MonitorRuns => file[id].status = "OPEN"
    BY <1>3, <1>4 DEF Rows
  <1>6. World
    <2>1. bought \subseteq Ids
      BY <1>2 DEF Ids
    <2>2. runs \in [script : 0..MaxScripts, hit : 0..MaxHits, crash : 0..MaxCrashes]
      BY <1>2, FileAssumption
    <2>3. sold \in [Ids -> ExitKinds] /\ filled \in [Ids -> 0..2] /\ Orders
      BY <1>2 DEF ExitKinds, Orders
    <2>4. QED
      BY <1>2, <1>5, <2>1, <2>2, <2>3 DEF World
  <1>7. Memory
    BY <1>1, <1>2, NoCallSound, FileAssumption DEF Memory, ExitKinds
  <1>8. RowsInv
    <2>1. Right(file)
      BY <1>5 DEF Right, RowRight
    <2>2. QED
      BY <1>2, <2>1 DEF RowsInv
  <1>9. \A p \in Procs : CallInv(p)
    BY <1>1, <1>2, NoCallSound DEF CallInv
  <1>10. TraderInv /\ ScriptInv /\ MonitorInv
    BY <1>1 DEF TraderInv, ScriptInv, MonitorInv, Procs
  <1>11. BoughtInv
    <2>1. \A id \in bought : Safe(id)
      BY <1>2, <1>5 DEF Safe, Tracked, Ids
    <2>2. pc["trader"] \notin {"adding", "selling", "settling"}
      BY <1>1 DEF Procs
    <2>3. QED
      BY <2>1, <2>2 DEF BoughtInv
  <1>12. QED
    BY <1>6, <1>7, <1>8, <1>9, <1>10, <1>11, TypeSplit DEF IInv

\* The inductive invariant holds in every reachable state.
THEOREM Invariance == Spec => []IInv
  BY Initial, StepKeeps, PTL DEF Spec

\* The file, what the processes hold of it, and the ghosts keep their types.
THEOREM TypeCorrect == Spec => []TypeOK
  <1>1. IInv => TypeOK
    BY DEF IInv, Typed
  <1>2. QED
    BY <1>1, Invariance, PTL

\* Whatever saves undo each other, a row never says of an exit, of the PnL or
\* of a lost history what is not so.
THEOREM BooksTrue == Spec => []BooksMatchExchange
  <1>1. IInv => BooksMatchExchange
    BY DEF IInv, RowsInv, Right, RowRight, BooksMatchExchange
  <1>2. QED
    BY <1>1, Invariance, PTL

\* The monitor marks no hit as notified that LINE was not told.
THEOREM ToldFirst == Spec => []ToldBeforeMarked
  <1>1. IInv => ToldBeforeMarked
    BY DEF IInv, RowsInv, Right, RowRight, ToldBeforeMarked
  <1>2. QED
    BY <1>1, Invariance, PTL

\* Coins that were bought are in the file, or one of the named reasons why not
\* is so.
THEOREM CoinsAccounted == Spec => []BoughtIsTracked
  <1>1. IInv => BoughtIsTracked
    BY DEF IInv, BoughtInv, Safe, BoughtIsTracked
  <1>2. QED
    BY <1>1, Invariance, PTL

(***************************************************************************)
(* What a step does to a closed position.                                  *)
(***************************************************************************)
\* The file changes by a save or at the end of a dry run.
LEMMA FileSteps ==
  ASSUME Next, file' # file
  PROVE  DryRunRestores \/ \E p \in Procs : Saves(p)
  <1>1. ASSUME NEW p \in Procs, NEW label, NEW next, Save(p, label, next)
        PROVE  Saves(p)
    BY <1>1 DEF Save, Saves, InCall
  <1>2. "trader" \in Procs /\ "script" \in Procs /\ "monitor" \in Procs
    BY DEF Procs
  <1>3. CASE TraderStep
    <2>1. EngineSaves \/ ObserverSaves \/ AttemptSaved \/ FillsSaved \/ ErrorSaved
      BY <1>3
      DEF TraderStep, EngineIdle, EngineHalts, EngineFails, EngineBuy, EngineSell,
          EngineSettle, EngineProtect, SweepVisits, Observe, SweepStarts, FetchFails,
          FetchSucceeds, FillsRefused, Retry, SweepDies, SweepEnds, Restart, Load,
          TraderGoes, Raise
    <2>2. \E label, next : Save("trader", label, next)
      BY <2>1 DEF EngineSaves, ObserverSaves, AttemptSaved, FillsSaved, ErrorSaved
    <2>3. QED
      BY <1>1, <1>2, <2>2
  <1>4. CASE ScriptStep
    <2>1. ScriptSaves \/ DryRunRestores
      BY <1>4
      DEF ScriptStep, ManualBuy, ManualProtect, ScriptLoads, ManualRefused, Audited,
          Quarantine, ScriptReconciles, ScriptFails, Load, Raise
    <2>2. ScriptSaves => \E label, next : Save("script", label, next)
      BY DEF ScriptSaves
    <2>3. QED
      BY <1>1, <1>2, <2>1, <2>2
  <1>5. CASE MonitorStep
    <2>1. MonitorSaves
      BY <1>5
      DEF MonitorStep, MonitorLoads, MonitorRaises, MonitorScanned, MonitorFails,
          MonitorEnds, MonitorTells, MonitorNoHit, MonitorHit
    <2>2. \E label, next : Save("monitor", label, next)
      BY <2>1 DEF MonitorSaves
    <2>3. QED
      BY <1>1, <1>2, <2>2
  <1>6. QED
    BY <1>3, <1>4, <1>5 DEF Next, Reset, FillProtective, Crash

\* Only the end of a dry run, the monitor's mark and a save of an older list
\* reopen a closed position.
LEMMA ClosedStep ==
  ASSUME IInv, [Next]_vars, NEW id \in Ids, file[id].status = "CLOSED"
  PROVE  \/ file'[id].status = "CLOSED"
         \/ id \in clobbered'
         \/ ScriptAt("restoring") /\ id = at["script"]
         \/ pc["monitor"] \in {"triggering", "triggering_doomed"} /\ id \in Legacy
  <1>1. CASE file' = file
    BY <1>1
  <1>2. CASE file' # file
    <2>1. DryRunRestores \/ \E p \in Procs : Saves(p)
      BY <1>2, FileSteps DEF vars
    <2>2. CASE DryRunRestores
      BY <2>2, RestoreEffect DEF DryRunRestores
    <2>3. ASSUME NEW p \in Procs, Saves(p)
          PROVE  \/ file'[id].status = "CLOSED" \/ id \in clobbered'
                 \/ /\ pc["monitor"] \in {"triggering", "triggering_doomed"}
                    /\ id \in Legacy
      <3>1. \/ file'[id].status = "CLOSED" \/ id \in clobbered'
            \/ call[p].method = "trigger" /\ call[p].id = id
        BY <2>3, SaveEffect
      <3>2. CallInv(p)
        BY DEF IInv
      <3>3. QED
        BY <3>1, <3>2 DEF CallInv, Sound
    <2>4. QED
      BY <2>1, <2>2, <2>3
  <1>3. QED
    BY <1>1, <1>2

\* Once closed, a position stays closed but for those three.
THEOREM ClosedFinal == Spec => ClosedIsFinal
  <1> DEFINE Stays(id) ==
        file[id].status = "CLOSED" =>
          \/ file'[id].status = "CLOSED"
          \/ id \in clobbered'
          \/ ScriptAt("restoring") /\ id = at["script"]
          \/ pc["monitor"] \in {"triggering", "triggering_doomed"} /\ id \in Legacy
  <1>1. IInv /\ [Next]_vars => \A id \in Ids : Stays(id)
    BY ClosedStep
  <1>2. QED
    BY <1>1, Invariance, PTL DEF Spec, ClosedIsFinal
=============================================================================
