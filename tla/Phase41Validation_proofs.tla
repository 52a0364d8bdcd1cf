----------------------- MODULE Phase41Validation_proofs -----------------------
(***************************************************************************)
(* Safety of the Phase 4.1 validation trade, for any number of threads,    *)
(* orders, requests and restarts of the API.  Every list of rows there is, *)
(* the file and the copies that requests work on, shows one open entry at  *)
(* most (RowsInv); of an entry no request has lost, undone or raced for,   *)
(* the file agrees with what was bought and sold, save between the order   *)
(* and the save of the request at work on it (EntryInv).                   *)
(***************************************************************************)
EXTENDS Phase41Validation, FiniteSetTheorems, TLAPS

\* What TradingRuntime assumes of the bounds.
Bounds == MaxEntries \in Nat /\ MaxRequests \in Nat /\ MaxStops \in Nat

Lists == [Entries -> Positions({Lane})]

Jobs == Entries \X ExitKinds

Requests ==
  [kind : Kinds \cup {"none"}, pc : Labels, id : Entries \cup {NoEntry},
   copy : Lists \cup {NoCopy}, left : SUBSET Jobs, visit : Jobs \cup {<<>>}]

\* What a request is at each point.
Sound(t) ==
  /\ t.pc = "idle" => t = Idle
  /\ t.pc = "candles" => t.kind = "entry" /\ t.id = NoEntry
  /\ t.pc \in {"price", "observing"} => t.kind = "sample"
  /\ t.pc = "order" =>
       \/ t.kind = "entry" /\ t.id = NoEntry
       \/ t.kind = "exit" /\ t.id # NoEntry
  /\ t.pc = "adding" => t.kind = "entry"
  /\ t.pc = "closing" => t.kind = "exit"
  /\ t.pc \notin {"idle", "candles", "price", "observing", "order"} =>
       t.kind \in {"entry", "exit"}
  /\ t.pc \notin {"idle", "candles", "order"} => t.id # NoEntry
  /\ t.pc \in {"attempting", "fetching", "reconciling", "erroring", "failed"} =>
       t.visit \in Jobs
  /\ t.copy # NoCopy => t.pc \in DOMAIN After

Typed ==
  /\ TypeOK /\ thread \in [Threads -> Requests]
  /\ \A r \in Threads : Sound(thread[r])

\* A list of rows: an entry has a row only if it was bought, and one is open
\* at most.
RowsRight(rows) ==
  /\ \A id \in Entries :
       /\ rows[id].status \in {"ABSENT", "OPEN", "CLOSED"}
       /\ rows[id].status # "ABSENT" => rows[id].strategy = Lane /\ id \in entered
  /\ \A id, other \in Entries :
       rows[id].status = "OPEN" /\ rows[other].status = "OPEN" => id = other

RowsInv ==
  /\ RowsRight(book)
  /\ \A r \in Threads : thread[r].copy # NoCopy => RowsRight(thread[r].copy)

\* A request works for an entry that was bought, the only one by its BUY.
EntersInv ==
  /\ \E n \in 0 .. MaxEntries : entered = 1 .. n
  /\ \A id \in Entries : exited[id] # 0 => id \in entered
  /\ \A r \in Threads : thread[r].id # NoEntry => thread[r].id \in entered
  /\ \A r, s \in Threads :
       /\ thread[r].kind = "entry" /\ thread[s].kind = "entry"
       /\ thread[r].id = thread[s].id /\ thread[r].id # NoEntry
       => r = s

Exits(id) == {r \in Threads : thread[r].id = id /\ thread[r].kind = "exit"}

Sellers(id) == {r \in Exits(id) : thread[r].pc = "order"}

\* Every SELL is of a request of its own.
SalesInv ==
  \A id \in Entries :
    /\ IsFiniteSet(Sellers(id))
    /\ exited[id] + Cardinality(Sellers(id)) <= spent.requests

Adding(id) == \E r \in Threads : thread[r].id = id /\ thread[r].pc = "adding"

Closing(id) == \E r \in Threads : thread[r].id = id /\ thread[r].pc = "closing"

\* What the file says of an entry that nothing has happened to.
EntryInv(id) ==
  /\ \A r, s \in Exits(id) : r = s
  /\ Adding(id) => book[id].status = "ABSENT" /\ exited[id] = 0 /\ Exits(id) = {}
  /\ Closing(id) => book[id].status = "OPEN" /\ exited[id] = 1
  /\ ~Adding(id) /\ ~Closing(id) /\ id \in entered =>
       exited[id] \in {0, 1} /\ (book[id].status = "OPEN" <=> exited[id] = 0)
  /\ \A r \in Exits(id) :
       thread[r].pc # "closing" => (exited[id] = 0 <=> thread[r].pc = "order")

Spoilt == unsure \cup undone \cup raced

VInv ==
  /\ Typed /\ RowsInv /\ EntersInv /\ SalesInv
  /\ \A id \in Entries \ Spoilt : EntryInv(id)

\* A request moves from t to new and the part it has in the entry id stays.
Quiet(t, new, id) ==
  \/ new = Idle /\ t.pc \notin {"adding", "closing"}
  \/ /\ new.id = t.id /\ new.kind = t.kind
     /\ t.pc \notin {"order", "adding", "closing"}
     /\ new.pc \notin {"order", "adding", "closing"}
  \/ t.id # id /\ new.id # id
  \/ /\ t.kind # "exit" /\ t.pc \notin {"adding", "closing"}
     /\ new.kind # "exit" /\ new.pc \notin {"adding", "closing"}

(***************************************************************************)
(* Rows and requests.                                                      *)
(***************************************************************************)
\* Counting a set with one element at most.
LEMMA AtMostOne ==
  ASSUME NEW S, \A x, y \in S : x = y
  PROVE  Cardinality(S) \in {0, 1} /\ (Cardinality(S) = 1 => S # {})
  <1>1. CASE S = {}
    BY <1>1, FS_EmptySet
  <1>2. ASSUME NEW x \in S PROVE Cardinality(S) = 1
    <2>1. S = {x}
      OBVIOUS
    <2>2. QED
      BY <2>1, FS_Singleton
  <1>3. QED
    BY <1>1, <1>2

\* The open rows of a list.
LEMMA OneOpen ==
  ASSUME NEW rows \in Lists, RowsRight(rows)
  PROVE  /\ Cardinality(ActivePositions(rows, Lane)) <= 1
         /\ Cardinality(ActivePositions(rows, Lane)) = 1 => ActivePositions(rows, Lane) # {}
         /\ \A id \in ActivePositions(rows, Lane) : id \in Entries /\ rows[id].status = "OPEN"
  <1>1. \A id \in ActivePositions(rows, Lane) : id \in Entries /\ rows[id].status = "OPEN"
    BY DEF ActivePositions, Lists
  <1>2. \A x, y \in ActivePositions(rows, Lane) : x = y
    <2>1. \A x, y \in Entries : rows[x].status = "OPEN" /\ rows[y].status = "OPEN" => x = y
      BY DEF RowsRight
    <2>2. QED
      BY <1>1, <2>1
  <1>3. QED
    BY <1>1, <1>2, AtMostOne

\* A row is added only to rows without an open one.
LEMMA RowsAdd ==
  ASSUME NEW rows \in Lists, RowsRight(rows), NEW id \in Entries, id \in entered,
         ~AddRefused(rows, id, Lane)
  PROVE  /\ AddPosition(rows, id, Lane) \in Lists
         /\ RowsRight(AddPosition(rows, id, Lane))
         /\ \A other \in Entries \ {id} : AddPosition(rows, id, Lane)[other] = rows[other]
         /\ ~Tracked(rows, id) => AddPosition(rows, id, Lane)[id].status = "OPEN"
  <1>1. PICK new : new = AddPosition(rows, id, Lane)
    OBVIOUS
  <1>2. /\ new \in Lists
        /\ \A other \in Entries \ {id} : new[other] = rows[other]
        /\ Tracked(rows, id) => new = rows
        /\ ~Tracked(rows, id) => new[id].status = "OPEN" /\ new[id].strategy = Lane
    <2>1. PICK row : row = [NoPosition EXCEPT !.status = "OPEN", !.strategy = Lane,
                                              !.rec = "PENDING"]
      OBVIOUS
    <2>2. row \in Positions({Lane}) /\ row.status = "OPEN" /\ row.strategy = Lane
      BY <2>1 DEF NoPosition, Positions, Statuses, UnresolvedStatuses, ExitKinds, RecStatuses
    <2>3. new = IF Tracked(rows, id) THEN rows ELSE [rows EXCEPT ![id] = row]
      BY <1>1, <2>1 DEF AddPosition
    <2>4. QED
      BY <2>2, <2>3 DEF Lists
  <1>3. CASE Tracked(rows, id)
    BY <1>1, <1>2, <1>3
  <1>4. CASE ~Tracked(rows, id)
    <2>1. UnresolvedPositions(rows, Lane) = {}
      BY <1>4 DEF AddRefused
    <2>2. ASSUME NEW other \in Entries PROVE rows[other].status # "OPEN"
      <3>1. other \notin UnresolvedPositions(rows, Lane)
        BY <2>1
      <3>2. ~(Unresolved(rows, other) /\ rows[other].strategy = Lane)
        BY <3>1 DEF UnresolvedPositions, Lists
      <3>3. rows[other].status # "ABSENT" => rows[other].strategy = Lane
        BY DEF RowsRight
      <3>4. QED
        BY <3>2, <3>3 DEF Unresolved, UnresolvedStatuses
    <2>3. RowsRight(new)
      BY <1>2, <1>4, <2>2 DEF RowsRight
    <2>4. QED
      BY <1>1, <1>2, <2>3
  <1>5. QED
    BY <1>3, <1>4

\* A tracked row is closed.
LEMMA RowsClose ==
  ASSUME NEW rows \in Lists, RowsRight(rows), NEW id \in Entries, Tracked(rows, id)
  PROVE  /\ MarkClosed(rows, id, "SOFTWARE") \in Lists
         /\ RowsRight(MarkClosed(rows, id, "SOFTWARE"))
         /\ \A other \in Entries \ {id} : MarkClosed(rows, id, "SOFTWARE")[other] = rows[other]
         /\ MarkClosed(rows, id, "SOFTWARE")[id].status = "CLOSED"
  <1>1. PICK new : new = MarkClosed(rows, id, "SOFTWARE")
    OBVIOUS
  <1>2. /\ new \in Lists
        /\ \A other \in Entries \ {id} : new[other] = rows[other]
        /\ new[id].status = "CLOSED" /\ new[id].strategy = rows[id].strategy
    <2>1. rows[id] \in Positions({Lane}) /\ "SOFTWARE" \in ExitKinds
      BY DEF Lists, ExitKinds
    <2>2. PICK row : row = Closed(rows[id], "SOFTWARE")
      OBVIOUS
    <2>3. row \in Positions({Lane}) /\ row.status = "CLOSED" /\ row.strategy = rows[id].strategy
      BY <2>1, <2>2 DEF Closed, Positions, Statuses, RecStatuses
    <2>4. new = [rows EXCEPT ![id] = row]
      BY <1>1, <2>2 DEF MarkClosed
    <2>5. QED
      BY <2>3, <2>4 DEF Lists
  <1>3. RowsRight(new)
    BY <1>2 DEF RowsRight, Tracked
  <1>4. QED
    BY <1>1, <1>2, <1>3

\* A list with the same states is as right.
LEMMA RowsSame ==
  ASSUME NEW rows \in Lists, RowsRight(rows), NEW new \in Lists,
         \A id \in Entries : /\ new[id].status = rows[id].status
                             /\ new[id].strategy = rows[id].strategy
  PROVE  RowsRight(new)
  BY DEF RowsRight

\* A reconciliation, done or failed, leaves every status.
LEMMA RowsReconcile ==
  ASSUME NEW rows \in Lists, NEW id \in Entries, NEW exit \in ExitKinds
  PROVE  /\ ReconcileFills(rows, id, exit, TRUE) \in Lists
         /\ MarkReconciliationError(rows, id) \in Lists
         /\ \A other \in Entries :
              /\ ReconcileFills(rows, id, exit, TRUE)[other].status = rows[other].status
              /\ ReconcileFills(rows, id, exit, TRUE)[other].strategy = rows[other].strategy
              /\ MarkReconciliationError(rows, id)[other].status = rows[other].status
              /\ MarkReconciliationError(rows, id)[other].strategy = rows[other].strategy
  <1>1. rows[id] \in Positions({Lane})
    BY DEF Lists
  <1>2. /\ ReconciledRow(rows[id], exit, TRUE) \in Positions({Lane})
        /\ ReconciledRow(rows[id], exit, TRUE).status = rows[id].status
        /\ ReconciledRow(rows[id], exit, TRUE).strategy = rows[id].strategy
    BY <1>1 DEF ReconciledRow, Positions, RecStatuses
  <1>3. PICK new : new = [rows[id] EXCEPT !.rec =
                            IF @ \in {"RECONCILED", "PARTIAL"} THEN @ ELSE "PENDING"]
    OBVIOUS
  <1>4. /\ new \in Positions({Lane})
        /\ new.status = rows[id].status /\ new.strategy = rows[id].strategy
    BY <1>1, <1>3 DEF Positions, RecStatuses
  <1>5. MarkReconciliationError(rows, id) = [rows EXCEPT ![id] = new]
    BY <1>3 DEF MarkReconciliationError, Lists
  <1>6. QED
    BY <1>2, <1>4, <1>5 DEF ReconcileFills, Lists

(***************************************************************************)
(* One thread moves.                                                       *)
(***************************************************************************)
\* The other threads stay.
LEMMA Others ==
  ASSUME thread \in [Threads -> Requests], NEW r \in Threads, NEW new \in Requests,
         thread' = [thread EXCEPT ![r] = new]
  PROVE  /\ thread' \in [Threads -> Requests] /\ thread'[r] = new
         /\ \A s \in Threads \ {r} : thread'[s] = thread[s]
  OBVIOUS

\* What TypeOK says of the threads is in the set of requests.
LEMMA TypedNow ==
  ASSUME Typed
  PROVE  /\ book \in Lists /\ entered \subseteq Entries
         /\ exited \in [Entries -> 0 .. MaxRequests]
         /\ unsure \cup undone \cup raced \subseteq Entries
         /\ spent \in [requests : 0 .. MaxRequests, stops : 0 .. MaxStops]
         /\ thread \in [Threads -> Requests] /\ \A r \in Threads : Sound(thread[r])
  BY DEF Typed, TypeOK, Lists

\* The types after a step of one thread.
LEMMA TypesAfter ==
  ASSUME Typed, NEW r \in Threads, NEW new \in Requests, Sound(new),
         thread' = [thread EXCEPT ![r] = new],
         book' \in Lists, entered' \subseteq Entries,
         exited' \in [Entries -> 0 .. MaxRequests],
         unsure' \cup undone' \cup raced' \subseteq Entries,
         spent' \in [requests : 0 .. MaxRequests, stops : 0 .. MaxStops]
  PROVE  Typed'
  <1>1. /\ thread' \in [Threads -> Requests] /\ thread'[r] = new
        /\ \A s \in Threads \ {r} : thread'[s] = thread[s]
    BY Others, TypedNow
  <1>2. \A s \in Threads : Sound(thread'[s])
    BY <1>1, TypedNow
  <1>3. \A s \in Threads :
          /\ thread'[s].kind \in Kinds \cup {"none"} /\ thread'[s].pc \in Labels
          /\ thread'[s].id \in Entries \cup {NoEntry}
          /\ thread'[s].copy \in Lists \cup {NoCopy}
          /\ thread'[s].left \subseteq Jobs
    BY <1>1 DEF Requests
  <1>4. TypeOK'
    BY <1>3 DEF TypeOK, Lists, Jobs
  <1>5. \A s \in Threads : Sound(thread[s])'
    BY <1>2 DEF Sound, Idle, NoCopy
  <1>6. QED
    BY <1>1, <1>4, <1>5 DEF Typed

\* A list stays right when more is bought.
LEMMA RowsMore ==
  ASSUME NEW rows, RowsRight(rows), entered \subseteq entered'
  PROVE  RowsRight(rows)'
  BY DEF RowsRight

\* The lists after a step of one thread.
LEMMA RowsAfter ==
  ASSUME Typed, RowsInv, NEW r \in Threads, NEW new \in Requests,
         thread' = [thread EXCEPT ![r] = new], entered \subseteq entered',
         new.copy \in {NoCopy, thread[r].copy, book},
         book' = book \/ RowsRight(book')
  PROVE  RowsInv'
  <1>1. /\ thread'[r] = new
        /\ \A s \in Threads \ {r} : thread'[s] = thread[s]
    BY Others, TypedNow
  <1>2. ASSUME NEW rows, RowsRight(rows) PROVE RowsRight(rows)'
    BY <1>2, RowsMore
  <1>3. RowsRight(book)'
    <2>1. PICK rows : rows = book'
      OBVIOUS
    <2>2. RowsRight(rows)
      BY <2>1 DEF RowsInv
    <2>3. RowsRight(rows)'
      BY <1>2, <2>2
    <2>4. QED
      BY <2>1, <2>3
  <1>4. ASSUME NEW s \in Threads, thread'[s].copy # NoCopy
        PROVE  RowsRight(thread[s].copy)'
    <2>1. PICK rows : rows = thread'[s].copy
      OBVIOUS
    <2>2. RowsRight(rows)
      BY <1>1, <1>4, <2>1 DEF RowsInv
    <2>3. RowsRight(rows)'
      BY <1>2, <2>2
    <2>4. QED
      BY <2>1, <2>3
  <1>5. QED
    BY <1>3, <1>4 DEF RowsInv, NoCopy

\* The sales after a step of one thread: it may send the SELL of an exit, or
\* begin a request.
LEMMA SalesAfter ==
  ASSUME Bounds, Typed, SalesInv, NEW r \in Threads, NEW new \in Requests,
         thread' = [thread EXCEPT ![r] = new], NEW id \in Entries,
         spent.requests <= spent'.requests, spent'.requests \in Nat, exited'[id] \in Nat,
         \/ /\ exited'[id] = exited[id]
            /\ ~(new.id = id /\ new.kind = "exit" /\ new.pc = "order")
         \/ /\ exited'[id] = exited[id] + 1 /\ r \in Sellers(id)
            /\ ~(new.id = id /\ new.kind = "exit" /\ new.pc = "order")
         \/ /\ exited'[id] = exited[id] /\ r \notin Sellers(id)
            /\ spent'.requests = spent.requests + 1
  PROVE  /\ IsFiniteSet(Sellers(id)')
         /\ exited'[id] + Cardinality(Sellers(id)') <= spent'.requests
  <1>1. PICK old, now : old = Sellers(id) /\ now = Sellers(id)'
    OBVIOUS
  <1>2. IsFiniteSet(old) /\ exited[id] + Cardinality(old) <= spent.requests
    BY <1>1 DEF SalesInv
  <1>3. /\ thread'[r] = new /\ \A s \in Threads \ {r} : thread'[s] = thread[s]
    BY Others, TypedNow
  <1>4. now \ {r} = old \ {r}
    BY <1>1, <1>3 DEF Sellers, Exits
  <1>5. r \in now <=> new.id = id /\ new.kind = "exit" /\ new.pc = "order"
    BY <1>1, <1>3 DEF Sellers, Exits
  <1>6. exited[id] \in Nat /\ spent.requests \in Nat
    BY TypedNow DEF Bounds
  <1>7. Cardinality(old) \in Nat
    BY <1>2, FS_CardinalityType
  <1>8. CASE r \notin now /\ exited'[id] = exited[id]
    <2>1. now \subseteq old
      BY <1>4, <1>8
    <2>2. IsFiniteSet(now) /\ Cardinality(now) <= Cardinality(old)
      BY <1>2, <2>1, FS_Subset
    <2>3. Cardinality(now) \in Nat
      BY <2>2, FS_CardinalityType
    <2>4. QED
      BY <1>1, <1>2, <1>6, <1>7, <1>8, <2>2, <2>3
  <1>9. CASE r \notin now /\ r \in old /\ exited'[id] = exited[id] + 1
    <2>1. now = old \ {r}
      BY <1>4, <1>9
    <2>2. IsFiniteSet(now) /\ Cardinality(now) = Cardinality(old) - 1
      BY <1>2, <1>9, <2>1, FS_RemoveElement
    <2>3. QED
      BY <1>1, <1>2, <1>6, <1>7, <1>9, <2>2
  <1>10. CASE r \in now /\ r \notin old /\ exited'[id] = exited[id]
              /\ spent'.requests = spent.requests + 1
    <2>1. now = old \cup {r}
      BY <1>4, <1>10
    <2>2. IsFiniteSet(now) /\ Cardinality(now) = Cardinality(old) + 1
      BY <1>2, <1>10, <2>1, FS_AddElement
    <2>3. QED
      BY <1>1, <1>2, <1>6, <1>7, <1>10, <2>2
  <1>11. QED
    BY <1>1, <1>5, <1>8, <1>9, <1>10

\* An entry in which no thread has changed its part.
LEMMA EntryAfter ==
  ASSUME Typed, NEW r \in Threads, NEW new \in Requests,
         thread' = [thread EXCEPT ![r] = new], NEW id \in Entries, EntryInv(id),
         Quiet(thread[r], new, id),
         book'[id].status = book[id].status, exited'[id] = exited[id],
         id \in entered' <=> id \in entered
  PROVE  EntryInv(id)'
  <1>1. /\ thread'[r] = new /\ \A s \in Threads \ {r} : thread'[s] = thread[s]
    BY Others, TypedNow
  <1>2. Idle.id = NoEntry /\ Idle.pc = "idle" /\ Idle.kind = "none" /\ NoEntry \notin Entries
    BY DEF Idle, NoEntry, Entries
  <1>3. Adding(id)' <=> Adding(id)
    BY <1>1, <1>2 DEF Adding, Quiet
  <1>4. Closing(id)' <=> Closing(id)
    BY <1>1, <1>2 DEF Closing, Quiet
  <1>5. Exits(id)' \subseteq Exits(id)
    BY <1>1, <1>2 DEF Exits, Quiet
  <1>6. \A s \in Exits(id)' : /\ thread'[s].pc = "order" <=> thread[s].pc = "order"
                              /\ thread'[s].pc = "closing" <=> thread[s].pc = "closing"
    BY <1>1, <1>2 DEF Exits, Quiet
  <1>7. QED
    BY <1>3, <1>4, <1>5, <1>6 DEF EntryInv

\* A thread that sends no order, at a file it leaves as it was.
LEMMA QuietStep ==
  ASSUME Bounds, VInv, NEW r \in Threads, NEW new \in Requests, Sound(new),
         thread' = [thread EXCEPT ![r] = new],
         new.copy \in {NoCopy, thread[r].copy, book},
         new.id # NoEntry => new.id = thread[r].id /\ new.kind = thread[r].kind,
         ~(new.kind = "exit" /\ new.pc = "order"),
         UNCHANGED <<book, entered, exited, undone, raced, spent>>,
         unsure \subseteq unsure', unsure' \subseteq Entries,
         \A id \in Entries : id \in unsure' \/ Quiet(thread[r], new, id)
  PROVE  VInv'
  <1>1. Typed /\ RowsInv /\ EntersInv /\ SalesInv
    BY DEF VInv
  <1>2. Typed'
    BY <1>1, TypedNow, TypesAfter
  <1>3. RowsInv'
    BY <1>1, RowsAfter
  <1>4. EntersInv'
    <2>1. /\ thread'[r] = new /\ \A s \in Threads \ {r} : thread'[s] = thread[s]
      BY <1>1, Others, TypedNow
    <2>2. QED
      BY <1>1, <2>1 DEF EntersInv
  <1>5. SalesInv'
    <2>1. ASSUME NEW id \in Entries
          PROVE  /\ IsFiniteSet(Sellers(id)')
                 /\ exited'[id] + Cardinality(Sellers(id)') <= spent'.requests
      <3>1. spent.requests \in Nat /\ exited[id] \in Nat /\ spent.requests <= spent.requests
        BY <1>1, TypedNow DEF Bounds
      <3>2. QED
        BY <1>1, <3>1, SalesAfter
    <2>2. QED
      BY <2>1 DEF SalesInv
  <1>6. ASSUME NEW id \in Entries, id \notin Spoilt' PROVE EntryInv(id)'
    <2>1. EntryInv(id) /\ Quiet(thread[r], new, id)
      BY <1>6 DEF Spoilt, VInv
    <2>2. QED
      BY <1>1, <2>1, EntryAfter
  <1>7. QED
    BY <1>2, <1>3, <1>4, <1>5, <1>6 DEF VInv, Entries, Spoilt

(***************************************************************************)
(* The steps that ask: no order, and no save.                              *)
(***************************************************************************)
\* Fields of the request a thread works on.
LEMMA Request ==
  ASSUME VInv, NEW r \in Threads
  PROVE  /\ thread[r] \in Requests /\ Sound(thread[r])
         /\ thread[r].id \in Entries \cup {NoEntry}
         /\ thread[r].copy \in Lists \cup {NoCopy} /\ thread[r].visit \in Jobs \cup {<<>>}
         /\ book \in Lists
  BY TypedNow DEF VInv, Requests

\* An answered request is at rest.
LEMMA Rests == Idle \in Requests /\ Sound(Idle)
  BY DEF Idle, Requests, Sound, NoCopy, Labels, NoEntry

\* An entry goes on to its BUY, of no position yet.
LEMMA StepReadsCandles ==
  ASSUME Bounds, VInv, NEW r \in Threads, ReadsCandles(r)
  PROVE  VInv'
  <1>1. PICK t : t = thread[r]
    OBVIOUS
  <1>2. t \in Requests /\ Sound(t) /\ t.pc = "candles"
    BY <1>1, Request DEF ReadsCandles, At
  <1>3. t.kind = "entry" /\ t.id = NoEntry /\ t.copy = NoCopy
    BY <1>2 DEF Sound, After
  <1>4. PICK new : new = [t EXCEPT !.pc = "order"]
    OBVIOUS
  <1>5. /\ new.kind = "entry" /\ new.id = NoEntry /\ new.copy = NoCopy /\ new.pc = "order"
        /\ new \in Requests
    BY <1>2, <1>3, <1>4 DEF Requests, Labels
  <1>6. Sound(new)
    BY <1>5 DEF Sound
  <1>7. thread' = [thread EXCEPT ![r] = new]
    BY <1>1, <1>4 DEF ReadsCandles, Goes
  <1>8. \A id \in Entries : Quiet(thread[r], new, id)
    BY <1>1, <1>3, <1>5 DEF Quiet, Entries, NoEntry
  <1>9. unsure' \subseteq Entries
    BY TypedNow DEF VInv, ReadsCandles, Asked
  <1>10. QED
    BY <1>1, <1>3, <1>5, <1>6, <1>7, <1>8, <1>9, QuietStep DEF ReadsCandles, Asked

\* A sample loads the rows.
LEMMA StepReadsPrice ==
  ASSUME Bounds, VInv, NEW r \in Threads, ReadsPrice(r)
  PROVE  VInv'
  <1>1. PICK t : t = thread[r]
    OBVIOUS
  <1>2. t \in Requests /\ Sound(t) /\ t.pc = "price" /\ book \in Lists
    BY <1>1, Request DEF ReadsPrice, At
  <1>3. t.kind = "sample" /\ t.id # NoEntry
    BY <1>2 DEF Sound
  <1>4. PICK new : new = [t EXCEPT !.pc = "observing", !.copy = book]
    OBVIOUS
  <1>5. /\ new.kind = t.kind /\ new.id = t.id /\ new.copy = book /\ new.pc = "observing"
        /\ new \in Requests
    BY <1>2, <1>4 DEF Requests, Labels, After
  <1>6. Sound(new)
    BY <1>3, <1>5 DEF Sound, After
  <1>7. thread' = [thread EXCEPT ![r] = new]
    BY <1>1, <1>4 DEF ReadsPrice, GoesLoaded
  <1>8. \A id \in Entries : Quiet(thread[r], new, id)
    BY <1>1, <1>2, <1>5 DEF Quiet
  <1>9. unsure' \subseteq Entries
    BY TypedNow DEF VInv, ReadsPrice, Asked
  <1>10. QED
    BY <1>1, <1>5, <1>6, <1>7, <1>8, <1>9, QuietStep DEF ReadsPrice, Asked

\* A request ends before its order is executed.
LEMMA StepRequestFails ==
  ASSUME Bounds, VInv, NEW r \in Threads, RequestFails(r)
  PROVE  VInv'
  <1>1. thread' = [thread EXCEPT ![r] = Idle]
    BY DEF RequestFails, Answered
  <1>2. \A id \in Entries : Quiet(thread[r], Idle, id)
    BY DEF Quiet, RequestFails
  <1>3. unsure' \subseteq Entries
    BY TypedNow DEF VInv, RequestFails, Asked
  <1>4. Idle.copy = NoCopy /\ Idle.id = NoEntry /\ Idle.pc = "idle"
    BY DEF Idle
  <1>5. QED
    BY <1>1, <1>2, <1>3, <1>4, Rests, QuietStep DEF RequestFails, Asked

\* The quarter of an entry's fill: the rows are loaded.
LEMMA StepCaptures ==
  ASSUME Bounds, VInv, NEW r \in Threads, Captures(r)
  PROVE  VInv'
  <1>1. PICK t : t = thread[r]
    OBVIOUS
  <1>2. t \in Requests /\ Sound(t) /\ t.pc = "capturing" /\ book \in Lists
    BY <1>1, Request DEF Captures, At
  <1>3. t.kind \in {"entry", "exit"} /\ t.id # NoEntry
    BY <1>2 DEF Sound
  <1>4. PICK new : new = [t EXCEPT !.pc = "capturing", !.copy = book]
    OBVIOUS
  <1>5. /\ new.kind = t.kind /\ new.id = t.id /\ new.copy = book /\ new.pc = "capturing"
        /\ new \in Requests
    BY <1>2, <1>4 DEF Requests, Labels, After
  <1>6. Sound(new)
    BY <1>3, <1>5 DEF Sound, After
  <1>7. thread' = [thread EXCEPT ![r] = new]
    BY <1>1, <1>4 DEF Captures, GoesLoaded
  <1>8. \A id \in Entries : Quiet(thread[r], new, id)
    BY <1>1, <1>2, <1>5 DEF Quiet
  <1>9. unsure' \subseteq Entries
    BY TypedNow DEF VInv, Captures, Asked
  <1>10. QED
    BY <1>1, <1>5, <1>6, <1>7, <1>8, <1>9, QuietStep DEF Captures, Asked

\* The rows due are noted.
LEMMA StepSweepStarts ==
  ASSUME Bounds, VInv, NEW r \in Threads, SweepStarts(r)
  PROVE  VInv'
  <1>1. PICK t : t = thread[r]
    OBVIOUS
  <1>2. t \in Requests /\ Sound(t) /\ t.pc = "sweep" /\ book \in Lists
    BY <1>1, Request DEF SweepStarts, At
  <1>3. t.kind \in {"entry", "exit"} /\ t.id # NoEntry /\ t.copy = NoCopy
    BY <1>2 DEF Sound, After
  <1>4. PICK jobs : jobs = {<<id, book[id].exit>> : id \in {i \in Entries : Due(book[i])}}
    OBVIOUS
  <1>5. jobs \subseteq Jobs
    BY <1>2, <1>4 DEF Lists, Jobs, Positions
  <1>6. PICK new : new = [t EXCEPT !.pc = "sweeping", !.left = jobs]
    OBVIOUS
  <1>7. /\ new.kind = t.kind /\ new.id = t.id /\ new.copy = NoCopy /\ new.pc = "sweeping"
        /\ new \in Requests
    BY <1>2, <1>3, <1>5, <1>6 DEF Requests, Labels
  <1>8. Sound(new)
    BY <1>3, <1>7 DEF Sound
  <1>9. thread' = [thread EXCEPT ![r] = new]
    BY <1>1, <1>4, <1>6 DEF SweepStarts
  <1>10. \A id \in Entries : Quiet(thread[r], new, id)
    BY <1>1, <1>2, <1>7 DEF Quiet
  <1>11. unsure' \subseteq Entries
    BY TypedNow DEF VInv, SweepStarts, Asked
  <1>12. QED
    BY <1>1, <1>7, <1>8, <1>9, <1>10, <1>11, QuietStep DEF SweepStarts, Asked

\* A job is taken up, and the rows are loaded.
LEMMA StepVisits ==
  ASSUME Bounds, VInv, NEW r \in Threads, NEW job \in Jobs, Visits(r, job)
  PROVE  VInv'
  <1>1. PICK t : t = thread[r]
    OBVIOUS
  <1>2. t \in Requests /\ Sound(t) /\ t.pc \in {"sweeping", "failed"} /\ book \in Lists
    BY <1>1, Request DEF Visits
  <1>3. t.kind \in {"entry", "exit"} /\ t.id # NoEntry
    BY <1>2 DEF Sound
  <1>4. PICK new : new = [t EXCEPT !.pc = "attempting", !.copy = book,
                                   !.visit = job, !.left = @ \ {job}]
    OBVIOUS
  <1>5. /\ new.kind = t.kind /\ new.id = t.id /\ new.copy = book /\ new.pc = "attempting"
        /\ new.visit \in Jobs /\ new \in Requests
    BY <1>2, <1>4 DEF Requests, Labels, After
  <1>6. Sound(new)
    BY <1>3, <1>5 DEF Sound, After
  <1>7. thread' = [thread EXCEPT ![r] = new]
    BY <1>1, <1>4 DEF Visits
  <1>8. \A id \in Entries : Quiet(thread[r], new, id)
    BY <1>1, <1>2, <1>5 DEF Quiet
  <1>9. unsure' \subseteq Entries
    BY TypedNow DEF VInv, Visits, Asked
  <1>10. QED
    BY <1>1, <1>5, <1>6, <1>7, <1>8, <1>9, QuietStep DEF Visits, Asked

\* The fills arrive, or an error does, and the rows are loaded.
LEMMA StepFetches ==
  ASSUME Bounds, VInv, NEW r \in Threads, NEW success \in BOOLEAN, Fetches(r, success)
  PROVE  VInv'
  <1>1. PICK t : t = thread[r]
    OBVIOUS
  <1>2. t \in Requests /\ Sound(t) /\ t.pc = "fetching" /\ book \in Lists
    BY <1>1, Request DEF Fetches, At
  <1>3. t.kind \in {"entry", "exit"} /\ t.id # NoEntry /\ t.visit \in Jobs
    BY <1>2 DEF Sound
  <1>4. PICK label \in {"reconciling", "erroring"} :
          label = IF success THEN "reconciling" ELSE "erroring"
    OBVIOUS
  <1>5. PICK new : new = [t EXCEPT !.pc = label, !.copy = book]
    OBVIOUS
  <1>6. /\ new.kind = t.kind /\ new.id = t.id /\ new.copy = book /\ new.pc = label
        /\ new.visit \in Jobs /\ new \in Requests
    BY <1>2, <1>3, <1>4, <1>5 DEF Requests, Labels, After
  <1>7. Sound(new)
    BY <1>3, <1>4, <1>6 DEF Sound, After
  <1>8. thread' = [thread EXCEPT ![r] = new]
    BY <1>1, <1>4, <1>5 DEF Fetches, GoesLoaded
  <1>9. \A id \in Entries : Quiet(thread[r], new, id)
    BY <1>1, <1>2, <1>4, <1>6 DEF Quiet
  <1>10. unsure' \subseteq Entries
    BY TypedNow DEF VInv, Fetches, Asked
  <1>11. QED
    BY <1>1, <1>4, <1>6, <1>7, <1>8, <1>9, <1>10, QuietStep DEF Fetches, Asked

\* Every job is done.
LEMMA StepSweepEnds ==
  ASSUME Bounds, VInv, NEW r \in Threads, SweepEnds(r)
  PROVE  VInv'
  <1>1. PICK t : t = thread[r]
    OBVIOUS
  <1>2. t \in Requests /\ Sound(t) /\ t.pc \in {"sweeping", "failed"}
    BY <1>1, Request DEF SweepEnds
  <1>3. t.kind \in {"entry", "exit"} /\ t.id # NoEntry /\ t.copy = NoCopy
    BY <1>2 DEF Sound, After
  <1>4. PICK new : new = [t EXCEPT !.pc = "tracking", !.visit = <<>>]
    OBVIOUS
  <1>5. /\ new.kind = t.kind /\ new.id = t.id /\ new.copy = NoCopy /\ new.pc = "tracking"
        /\ new \in Requests
    BY <1>2, <1>3, <1>4 DEF Requests, Labels
  <1>6. Sound(new)
    BY <1>3, <1>5 DEF Sound
  <1>7. thread' = [thread EXCEPT ![r] = new]
    BY <1>1, <1>4 DEF SweepEnds
  <1>8. \A id \in Entries : Quiet(thread[r], new, id)
    BY <1>1, <1>2, <1>5 DEF Quiet
  <1>9. unsure' \subseteq Entries
    BY TypedNow DEF VInv, SweepEnds, Asked
  <1>10. QED
    BY <1>1, <1>5, <1>6, <1>7, <1>8, <1>9, QuietStep DEF SweepEnds, Asked

\* A request that ends in doubt about its entry.
LEMMA InDoubt ==
  ASSUME Bounds, VInv, NEW r \in Threads, AnsweredInDoubt(r, thread[r].id),
         thread[r].pc \notin {"idle", "candles", "order"},
         UNCHANGED <<book, entered, exited, undone, raced, spent>>
  PROVE  VInv'
  <1>1. PICK t : t = thread[r]
    OBVIOUS
  <1>2. t \in Requests /\ Sound(t) /\ t.id \in Entries
    <2>1. t \in Requests /\ Sound(t) /\ t.id \in Entries \cup {NoEntry}
      BY <1>1, Request
    <2>2. QED
      BY <1>1, <2>1 DEF Sound
  <1>3. thread' = [thread EXCEPT ![r] = Idle] /\ unsure' = unsure \cup {t.id}
    BY <1>1 DEF AnsweredInDoubt, Answered
  <1>4. unsure \subseteq unsure' /\ unsure' \subseteq Entries
    BY <1>2, <1>3, TypedNow DEF VInv
  <1>5. Idle.copy = NoCopy /\ Idle.id = NoEntry /\ Idle.pc = "idle"
    BY DEF Idle
  <1>6. ASSUME NEW id \in Entries PROVE id \in unsure' \/ Quiet(thread[r], Idle, id)
    BY <1>1, <1>3, <1>5 DEF Quiet, Entries, NoEntry
  <1>7. QED
    BY <1>3, <1>4, <1>5, <1>6, Rests, QuietStep

\* A request at rest whose thread had no order to enter.
LEMMA AnswersQuietly ==
  ASSUME Bounds, VInv, NEW r \in Threads, Answered(r),
         thread[r].pc \notin {"adding", "closing"},
         UNCHANGED <<book, entered, exited, unsure, undone, raced, spent>>
  PROVE  VInv'
  <1>1. thread' = [thread EXCEPT ![r] = Idle]
    BY DEF Answered
  <1>2. \A id \in Entries : Quiet(thread[r], Idle, id)
    BY DEF Quiet
  <1>3. unsure' \subseteq Entries
    BY TypedNow DEF VInv
  <1>4. Idle.copy = NoCopy /\ Idle.id = NoEntry /\ Idle.pc = "idle"
    BY DEF Idle
  <1>5. QED
    BY <1>1, <1>2, <1>3, <1>4, Rests, QuietStep

\* The store refuses: the caller of an order hears of it.
LEMMA StepStoreRaises ==
  ASSUME Bounds, VInv, NEW r \in Threads, StoreRaises(r)
  PROVE  VInv'
  <1>1. PICK t : t = thread[r]
    OBVIOUS
  <1>2. t \in Requests /\ Sound(t) /\ t.copy # NoCopy /\ book \in Lists
    BY <1>1, Request DEF StoreRaises
  <1>3. t.pc \in DOMAIN After
    BY <1>2 DEF Sound
  <1>4. CASE t.pc = "reconciling"
    <2>1. t.kind \in {"entry", "exit"} /\ t.id # NoEntry /\ t.visit \in Jobs
      BY <1>2, <1>4 DEF Sound
    <2>2. PICK new : new = [t EXCEPT !.pc = "erroring", !.copy = book]
      OBVIOUS
    <2>3. /\ new.kind = t.kind /\ new.id = t.id /\ new.copy = book /\ new.pc = "erroring"
          /\ new.visit \in Jobs /\ new \in Requests
      BY <1>2, <2>1, <2>2 DEF Requests, Labels, After
    <2>4. Sound(new)
      BY <2>1, <2>3 DEF Sound, After
    <2>5. /\ thread' = [thread EXCEPT ![r] = new]
          /\ UNCHANGED <<book, entered, exited, unsure, undone, raced, spent>>
      BY <1>1, <1>4, <2>2 DEF StoreRaises, GoesLoaded, At
    <2>6. \A id \in Entries : Quiet(thread[r], new, id)
      BY <1>1, <1>4, <2>3 DEF Quiet
    <2>7. unsure' \subseteq Entries
      BY <2>5, TypedNow DEF VInv
    <2>8. QED
      BY <1>1, <2>3, <2>4, <2>5, <2>6, <2>7, QuietStep
  <1>5. CASE t.pc = "observing"
    BY <1>1, <1>5, AnswersQuietly DEF StoreRaises, At
  <1>6. CASE t.pc \notin {"reconciling", "observing"}
    <2>1. t.pc \notin {"idle", "candles", "order"}
      BY <1>3 DEF After
    <2>2. QED
      BY <1>1, <1>6, <2>1, InDoubt DEF StoreRaises, At
  <1>7. QED
    BY <1>4, <1>5, <1>6

\* The answer shows the row, or the request fails.
LEMMA StepReports ==
  ASSUME Bounds, VInv, NEW r \in Threads, Reports(r)
  PROVE  VInv'
  <1>1. thread[r].pc = "tracking"
    BY DEF Reports, At
  <1>2. CASE Tracked(book, thread[r].id)
    BY <1>1, <1>2, AnswersQuietly DEF Reports
  <1>3. CASE ~Tracked(book, thread[r].id)
    BY <1>1, <1>3, InDoubt DEF Reports
  <1>4. QED
    BY <1>2, <1>3

(***************************************************************************)
(* The steps that take a request, send an order or save the rows.          *)
(***************************************************************************)
\* Whose the entries are, after a step of one thread.
LEMMA EntersAfter ==
  ASSUME Typed, EntersInv, NEW r \in Threads, NEW new \in Requests,
         thread' = [thread EXCEPT ![r] = new],
         entered \subseteq entered', \E n \in 0 .. MaxEntries : entered' = 1 .. n,
         \A id \in Entries : exited'[id] # 0 => id \in entered',
         new.id # NoEntry => new.id \in entered',
         \A s \in Threads \ {r} :
           new.kind = "entry" /\ thread[s].kind = "entry" /\ new.id # NoEntry
           => thread[s].id # new.id
  PROVE  EntersInv'
  <1>1. /\ thread'[r] = new /\ \A s \in Threads \ {r} : thread'[s] = thread[s]
    BY Others, TypedNow
  <1>2. ASSUME NEW s \in Threads, thread'[s].id # NoEntry PROVE thread'[s].id \in entered'
    BY <1>1, <1>2 DEF EntersInv
  <1>3. ASSUME NEW s \in Threads, NEW other \in Threads,
               thread'[s].kind = "entry", thread'[other].kind = "entry",
               thread'[s].id = thread'[other].id, thread'[s].id # NoEntry
        PROVE  s = other
    BY <1>1, <1>3 DEF EntersInv
  <1>4. QED
    BY <1>2, <1>3 DEF EntersInv, NoEntry, Entries

\* The entry that is open in the file has been bought.
LEMMA OpenBought ==
  ASSUME VInv, NEW id \in Open
  PROVE  /\ id \in Entries /\ id # NoEntry /\ id \in entered /\ book[id].status = "OPEN"
  BY TypedNow, OneOpen DEF VInv, RowsInv, Open, RowsRight, Entries, NoEntry

\* A request is taken.  An exit of an entry that nothing has happened to is
\* the only one.
LEMMA StepStarts ==
  ASSUME Bounds, VInv, NEW r \in Threads, NEW kind \in Kinds, Starts(r, kind)
  PROVE  VInv'
  <1>1. PICK t : t = thread[r]
    OBVIOUS
  <1>2. t = Idle
    <2>1. Sound(t) /\ t.pc = "idle"
      BY <1>1, Request DEF Starts, At
    <2>2. QED
      BY <2>1 DEF Sound
  <1>3. PICK id \in IF kind = "entry" THEN {NoEntry} ELSE Open :
          /\ At(r, "idle") /\ spent.requests < MaxRequests
          /\ spent' = [spent EXCEPT !.requests = @ + 1]
          /\ thread' = [thread EXCEPT ![r].kind = kind, ![r].id = id, ![r].pc = First[kind]]
          /\ raced' = IF kind = "exit" /\ \E s \in Threads \ {r} :
                                             thread[s].kind = "exit" /\ thread[s].id = id
                      THEN raced \cup {id} ELSE raced
          /\ UNCHANGED <<book, entered, exited, unsure, undone>>
    BY Zenon DEF Starts
  <1>4. kind = "entry" => id = NoEntry
    BY <1>3
  <1>5. kind # "entry" => id \in Open
    BY <1>3
  <1>6. PICK label : label = First[kind]
    OBVIOUS
  <1>7. /\ kind = "entry" => label = "candles"
        /\ kind = "sample" => label = "price"
        /\ kind = "exit" => label = "order"
        /\ kind \in {"entry", "sample", "exit"}
    BY <1>6 DEF Kinds, First
  <1>8. PICK new : new = [t EXCEPT !.kind = kind, !.id = id, !.pc = label]
    OBVIOUS
  <1>9. new.kind = kind /\ new.id = id /\ new.pc = label /\ new.copy = NoCopy
    BY <1>2, <1>8 DEF Idle
  <1>10. id \in Entries \cup {NoEntry} /\ (kind # "entry" => id # NoEntry /\ id \in entered)
    BY <1>4, <1>5, OpenBought
  <1>11. new \in Requests
    BY <1>2, <1>7, <1>8, <1>10, Rests DEF Requests, Labels
  <1>12. Sound(new)
    BY <1>4, <1>7, <1>9, <1>10 DEF Sound
  <1>13. thread' = [thread EXCEPT ![r] = new]
    <2>1. thread \in [Threads -> Requests]
      BY TypedNow DEF VInv
    <2>2. QED
      BY <1>1, <1>3, <1>6, <1>8, <2>1
  <1>14. /\ UNCHANGED <<book, entered, exited, unsure, undone>>
         /\ spent' = [spent EXCEPT !.requests = @ + 1] /\ spent.requests < MaxRequests
    BY <1>3
  <1>15. raced \subseteq raced' /\ raced' \subseteq raced \cup (IF kind = "exit" THEN {id} ELSE {})
    BY <1>3
  <1>16. Typed /\ RowsInv /\ EntersInv /\ SalesInv
    BY DEF VInv
  <1>17. /\ spent.requests \in Nat /\ spent'.requests = spent.requests + 1
         /\ spent' \in [requests : 0 .. MaxRequests, stops : 0 .. MaxStops]
    BY <1>14, <1>16, TypedNow DEF Bounds
  <1>18. Typed'
    <2>1. raced' \subseteq Entries
      BY <1>10, <1>15, <1>16, TypedNow DEF NoEntry, Kinds
    <2>2. QED
      BY <1>11, <1>12, <1>13, <1>14, <1>16, <1>17, <2>1, TypedNow, TypesAfter
  <1>19. RowsInv'
    BY <1>9, <1>11, <1>13, <1>14, <1>16, RowsAfter
  <1>20. EntersInv'
    <2>1. \E n \in 0 .. MaxEntries : entered' = 1 .. n
      BY <1>14, <1>16 DEF EntersInv
    <2>2. \A e \in Entries : exited'[e] # 0 => e \in entered'
      BY <1>14, <1>16 DEF EntersInv
    <2>3. QED
      BY <1>4, <1>9, <1>10, <1>11, <1>13, <1>14, <1>16, <2>1, <2>2, EntersAfter
  <1>21. Idle.pc = "idle" /\ Idle.kind = "none" /\ Idle.id = NoEntry
    BY DEF Idle
  <1>22. SalesInv'
    <2>1. ASSUME NEW e \in Entries
          PROVE  /\ IsFiniteSet(Sellers(e)')
                 /\ exited'[e] + Cardinality(Sellers(e)') <= spent'.requests
      <3>1. exited'[e] = exited[e] /\ exited'[e] \in Nat
        BY <1>14, <1>16, TypedNow DEF Bounds
      <3>2. r \notin Sellers(e)
        BY <1>1, <1>2, <1>21 DEF Sellers
      <3>3. spent.requests <= spent'.requests /\ spent'.requests \in Nat
        BY <1>17
      <3>4. QED
        BY <1>11, <1>13, <1>16, <1>17, <3>1, <3>2, <3>3, SalesAfter
    <2>2. QED
      BY <2>1 DEF SalesInv
  <1>23. ASSUME NEW e \in Entries, e \notin Spoilt' PROVE EntryInv(e)'
    <2>1. e \notin Spoilt
      BY <1>14, <1>15, <1>23 DEF Spoilt
    <2>2. EntryInv(e)
      BY <2>1 DEF VInv
    <2>3. CASE kind # "exit" \/ e # id
      <3>1. Quiet(thread[r], new, e)
        BY <1>1, <1>2, <1>7, <1>9, <1>21, <2>3 DEF Quiet, NoEntry, Entries
      <3>2. QED
        BY <1>11, <1>13, <1>14, <1>16, <2>2, <3>1, EntryAfter
    <2>4. CASE kind = "exit" /\ e = id
      <3>1. book[e].status = "OPEN" /\ e \in entered
        BY <1>5, <2>4, OpenBought
      <3>2. ASSUME NEW s \in Threads, s # r, thread[s].kind = "exit", thread[s].id = e
            PROVE  FALSE
        <4>1. raced' = raced \cup {id}
          BY <1>3, <2>4, <3>2
        <4>2. QED
          BY <1>23, <2>4, <4>1 DEF Spoilt
      <3>3. /\ thread'[r] = new /\ \A s \in Threads \ {r} : thread'[s] = thread[s]
        BY <1>11, <1>13, <1>16, Others, TypedNow
      <3>4. Exits(e) = {}
        BY <1>1, <1>2, <1>21, <3>2 DEF Exits
      <3>5. ~Adding(e) /\ ~Closing(e)
        <4>1. ~Adding(e)
          BY <2>2, <3>1 DEF EntryInv
        <4>2. ASSUME NEW s \in Threads, thread[s].id = e, thread[s].pc = "closing" PROVE FALSE
          BY <3>4, <4>2, Request DEF Sound, Exits
        <4>3. QED
          BY <4>1, <4>2 DEF Closing
      <3>6. exited[e] = 0
        BY <2>2, <3>1, <3>5 DEF EntryInv
      <3>7. ~Adding(e)' /\ ~Closing(e)'
        BY <1>7, <1>9, <2>4, <3>3, <3>5 DEF Adding, Closing
      <3>8. \A s \in Exits(e)' : s = r
        BY <3>3, <3>4 DEF Exits
      <3>9. book'[e].status = "OPEN" /\ exited'[e] = 0 /\ thread'[r].pc = "order"
        BY <1>7, <1>9, <1>14, <2>4, <3>1, <3>3, <3>6
      <3>10. QED
        BY <3>7, <3>8, <3>9 DEF EntryInv
    <2>5. QED
      BY <2>3, <2>4
  <1>24. QED
    BY <1>18, <1>19, <1>20, <1>22, <1>23 DEF VInv, Entries, Spoilt

\* The number of the next BUY.
LEMMA NextEntry ==
  ASSUME Bounds, EntersInv, NEW id \in Entries, id = Cardinality(entered) + 1
  PROVE  /\ id \notin entered /\ \E n \in 0 .. MaxEntries : entered \cup {id} = 1 .. n
  <1>1. PICK n \in 0 .. MaxEntries : entered = 1 .. n
    BY DEF EntersInv
  <1>2. n \in Nat /\ n <= MaxEntries
    BY DEF Bounds
  <1>3. Cardinality(1 .. n) = n
    BY <1>2, FS_Interval
  <1>4. id = n + 1
    BY <1>1, <1>3
  <1>5. id \in 0 .. MaxEntries
    BY DEF Entries, Bounds
  <1>6. id \notin 1 .. n /\ (1 .. n) \cup {id} = 1 .. id
    BY <1>2, <1>4
  <1>7. QED
    BY <1>1, <1>5, <1>6

\* A BUY: of an entry of its own, in doubt unless it is acknowledged.
LEMMA StepBuys ==
  ASSUME Bounds, VInv, NEW r \in Threads, NEW answer \in Answers, Buys(r, answer)
  PROVE  VInv'
  <1>1. PICK t : t = thread[r]
    OBVIOUS
  <1>2. PICK id : id = Cardinality(entered) + 1
    OBVIOUS
  <1>3. /\ t.pc = "order" /\ t.kind = "entry" /\ id \in Entries
        /\ entered' = IF Executed(answer) THEN entered \cup {id} ELSE entered
        /\ IF Acknowledged(answer)
           THEN /\ thread' = [thread EXCEPT ![r].id = id, ![r].pc = "adding",
                                              ![r].copy = book]
                /\ UNCHANGED unsure
           ELSE AnsweredInDoubt(r, id)
        /\ UNCHANGED <<book, exited, undone, raced, spent>>
    BY <1>1, <1>2 DEF Buys, At, Kind
  <1>4. t \in Requests /\ Sound(t) /\ book \in Lists
    BY <1>1, Request
  <1>5. t.id = NoEntry /\ id # NoEntry
    BY <1>3, <1>4 DEF Sound, NoEntry, Entries
  <1>6. Typed /\ RowsInv /\ EntersInv /\ SalesInv
    BY DEF VInv
  <1>7. id \notin entered /\ \E n \in 0 .. MaxEntries : entered \cup {id} = 1 .. n
    BY <1>2, <1>3, <1>6, NextEntry
  <1>8. /\ entered \subseteq entered' /\ entered' \subseteq entered \cup {id}
        /\ \E n \in 0 .. MaxEntries : entered' = 1 .. n
    BY <1>3, <1>6, <1>7 DEF EntersInv
  <1>9. PICK new : new = IF Acknowledged(answer)
                         THEN [t EXCEPT !.id = id, !.pc = "adding", !.copy = book]
                         ELSE Idle
    OBVIOUS
  <1>10. /\ thread' = [thread EXCEPT ![r] = new]
         /\ Acknowledged(answer) => unsure' = unsure /\ id \in entered'
         /\ ~Acknowledged(answer) => unsure' = unsure \cup {id}
    <2>1. Acknowledged(answer) => Executed(answer)
      BY DEF Acknowledged, Executed
    <2>2. QED
      BY <1>1, <1>3, <1>9, <2>1 DEF AnsweredInDoubt, Answered
  <1>11. Idle.pc = "idle" /\ Idle.kind = "none" /\ Idle.id = NoEntry /\ Idle.copy = NoCopy
    BY DEF Idle
  <1>12. /\ Acknowledged(answer) =>
              /\ new.kind = "entry" /\ new.id = id /\ new.pc = "adding" /\ new.copy = book
              /\ new \in Requests
         /\ ~Acknowledged(answer) => new = Idle
    BY <1>3, <1>4, <1>9 DEF Requests, Labels, After
  <1>13. new \in Requests /\ Sound(new)
    <2>1. CASE Acknowledged(answer)
      <3>1. Sound(new)
        BY <1>5, <1>12, <2>1 DEF Sound, After
      <3>2. QED
        BY <1>12, <2>1, <3>1
    <2>2. QED
      BY <1>12, <2>1, Rests
  <1>14. Typed'
    <2>1. entered' \subseteq Entries /\ unsure' \subseteq Entries
      BY <1>3, <1>6, <1>8, <1>10, TypedNow
    <2>2. QED
      BY <1>3, <1>6, <1>10, <1>13, <2>1, TypedNow, TypesAfter
  <1>15. RowsInv'
    <2>1. new.copy \in {NoCopy, thread[r].copy, book}
      BY <1>11, <1>12
    <2>2. QED
      BY <1>3, <1>6, <1>8, <1>10, <1>13, <2>1, RowsAfter
  <1>16. EntersInv'
    <2>1. \A e \in Entries : exited'[e] # 0 => e \in entered'
      BY <1>3, <1>6, <1>8 DEF EntersInv
    <2>2. new.id # NoEntry => new.id \in entered'
      BY <1>10, <1>11, <1>12
    <2>3. \A s \in Threads \ {r} :
            new.kind = "entry" /\ thread[s].kind = "entry" /\ new.id # NoEntry
            => thread[s].id # new.id
      BY <1>5, <1>6, <1>7, <1>11, <1>12 DEF EntersInv
    <2>4. QED
      BY <1>6, <1>8, <1>10, <1>13, <2>1, <2>2, <2>3, EntersAfter
  <1>17. ~(new.kind = "exit" /\ new.pc = "order")
    BY <1>11, <1>12
  <1>18. SalesInv'
    <2>1. ASSUME NEW e \in Entries
          PROVE  /\ IsFiniteSet(Sellers(e)')
                 /\ exited'[e] + Cardinality(Sellers(e)') <= spent'.requests
      <3>1. exited'[e] = exited[e] /\ exited'[e] \in Nat
        BY <1>3, <1>6, TypedNow DEF Bounds
      <3>2. spent.requests <= spent'.requests /\ spent'.requests \in Nat
        BY <1>3, <1>6, TypedNow DEF Bounds
      <3>3. QED
        BY <1>6, <1>10, <1>13, <1>17, <3>1, <3>2, SalesAfter
    <2>2. QED
      BY <2>1 DEF SalesInv
  <1>19. ASSUME NEW e \in Entries, e \notin Spoilt' PROVE EntryInv(e)'
    <2>1. EntryInv(e)
      <3>1. e \notin Spoilt
        BY <1>3, <1>10, <1>19 DEF Spoilt
      <3>2. QED
        BY <3>1 DEF VInv
    <2>2. CASE e # id
      <3>1. Quiet(thread[r], new, e)
        BY <1>1, <1>5, <1>11, <1>12, <2>2 DEF Quiet, NoEntry, Entries
      <3>2. e \in entered' <=> e \in entered
        BY <1>8, <2>2
      <3>3. QED
        BY <1>3, <1>6, <1>10, <1>13, <2>1, <3>1, <3>2, EntryAfter
    <2>3. CASE e = id
      <3>1. Acknowledged(answer)
        BY <1>10, <1>19, <2>3 DEF Spoilt
      <3>2. /\ thread'[r] = new /\ \A s \in Threads \ {r} : thread'[s] = thread[s]
        BY <1>6, <1>10, <1>13, Others, TypedNow
      <3>3. \A s \in Threads \ {r} : thread'[s].id # e
        BY <1>5, <1>6, <1>7, <2>3, <3>2 DEF EntersInv
      <3>4. Exits(e)' = {} /\ Adding(e)' /\ ~Closing(e)'
        BY <1>12, <2>3, <3>1, <3>2, <3>3 DEF Exits, Adding, Closing
      <3>5. book'[e].status = "ABSENT" /\ exited'[e] = 0
        BY <1>3, <1>6, <1>7, <2>3 DEF RowsInv, RowsRight, EntersInv
      <3>6. QED
        BY <3>4, <3>5 DEF EntryInv
    <2>4. QED
      BY <2>2, <2>3
  <1>20. QED
    BY <1>14, <1>15, <1>16, <1>18, <1>19 DEF VInv, Entries, Spoilt

\* A SELL: the request that sends it has not sold before, so the bound of the
\* requests bounds the sales.
LEMMA StepSells ==
  ASSUME Bounds, VInv, NEW r \in Threads, NEW answer \in Answers, Sells(r, answer)
  PROVE  VInv'
  <1>1. PICK t : t = thread[r]
    OBVIOUS
  <1>2. PICK id : id = t.id
    OBVIOUS
  <1>3. /\ t.pc = "order" /\ t.kind = "exit"
        /\ exited' = IF Executed(answer) THEN [exited EXCEPT ![id] = @ + 1] ELSE exited
        /\ IF Acknowledged(answer)
           THEN GoesLoaded(r, "closing") /\ UNCHANGED unsure
           ELSE AnsweredInDoubt(r, id)
        /\ UNCHANGED <<book, entered, undone, raced, spent>>
    BY <1>1, <1>2 DEF Sells, At, Kind
  <1>4. t \in Requests /\ Sound(t) /\ book \in Lists
    BY <1>1, Request
  <1>5. id \in Entries /\ id # NoEntry
    <2>1. id \in Entries \cup {NoEntry}
      BY <1>1, <1>2, Request
    <2>2. id # NoEntry
      BY <1>2, <1>3, <1>4 DEF Sound
    <2>3. QED
      BY <2>1, <2>2
  <1>6. Typed /\ RowsInv /\ EntersInv /\ SalesInv
    BY DEF VInv
  <1>7. id \in entered
    BY <1>1, <1>2, <1>5, <1>6 DEF EntersInv
  <1>8. PICK new : new = IF Acknowledged(answer)
                         THEN [t EXCEPT !.pc = "closing", !.copy = book]
                         ELSE Idle
    OBVIOUS
  <1>9. /\ thread' = [thread EXCEPT ![r] = new]
        /\ Acknowledged(answer) => unsure' = unsure /\ Executed(answer)
        /\ ~Acknowledged(answer) => unsure' = unsure \cup {id}
    <2>1. Acknowledged(answer) => Executed(answer)
      BY DEF Acknowledged, Executed
    <2>2. QED
      BY <1>1, <1>3, <1>8, <2>1 DEF AnsweredInDoubt, Answered, GoesLoaded
  <1>10. Idle.pc = "idle" /\ Idle.kind = "none" /\ Idle.id = NoEntry /\ Idle.copy = NoCopy
    BY DEF Idle
  <1>11. /\ Acknowledged(answer) =>
              /\ new.kind = "exit" /\ new.id = id /\ new.pc = "closing" /\ new.copy = book
              /\ new \in Requests
         /\ ~Acknowledged(answer) => new = Idle
    BY <1>2, <1>3, <1>4, <1>8 DEF Requests, Labels, After
  <1>12. new \in Requests /\ Sound(new)
    <2>1. CASE Acknowledged(answer)
      <3>1. Sound(new)
        BY <1>5, <1>11, <2>1 DEF Sound, After
      <3>2. QED
        BY <1>11, <2>1, <3>1
    <2>2. QED
      BY <1>11, <2>1, Rests
  <1>13. new.pc # "order"
    BY <1>10, <1>11
  <1>14. r \in Sellers(id)
    BY <1>1, <1>2, <1>3 DEF Sellers, Exits
  <1>15. exited[id] \in Nat /\ exited[id] + 1 \in 0 .. MaxRequests
    <2>1. exited[id] \in Nat /\ spent.requests \in Nat /\ spent.requests <= MaxRequests
      BY <1>5, <1>6, TypedNow DEF Bounds
    <2>2. PICK sellers : sellers = Sellers(id)
      OBVIOUS
    <2>3. IsFiniteSet(sellers) /\ exited[id] + Cardinality(sellers) <= spent.requests
      BY <1>5, <1>6, <2>2 DEF SalesInv
    <2>4. Cardinality(sellers) \in Nat /\ Cardinality(sellers) # 0
      BY <1>14, <2>2, <2>3, FS_CardinalityType, FS_EmptySet
    <2>5. QED
      BY <2>1, <2>3, <2>4 DEF Bounds
  <1>16. /\ \A e \in Entries \ {id} : exited'[e] = exited[e]
         /\ exited'[id] = IF Executed(answer) THEN exited[id] + 1 ELSE exited[id]
         /\ exited' \in [Entries -> 0 .. MaxRequests]
    BY <1>3, <1>5, <1>6, <1>15, TypedNow
  <1>17. Typed'
    <2>1. unsure' \subseteq Entries
      BY <1>5, <1>6, <1>9, TypedNow
    <2>2. QED
      BY <1>3, <1>6, <1>9, <1>12, <1>16, <2>1, TypedNow, TypesAfter
  <1>18. RowsInv'
    <2>1. new.copy \in {NoCopy, thread[r].copy, book}
      BY <1>10, <1>11
    <2>2. QED
      BY <1>3, <1>6, <1>9, <1>12, <2>1, RowsAfter
  <1>19. EntersInv'
    <2>1. \A e \in Entries : exited'[e] # 0 => e \in entered'
      BY <1>3, <1>6, <1>7, <1>16 DEF EntersInv
    <2>2. \E n \in 0 .. MaxEntries : entered' = 1 .. n
      BY <1>3, <1>6 DEF EntersInv
    <2>3. new.id # NoEntry => new.id \in entered'
      BY <1>3, <1>7, <1>10, <1>11
    <2>4. new.kind # "entry"
      BY <1>10, <1>11
    <2>5. QED
      BY <1>3, <1>6, <1>9, <1>12, <2>1, <2>2, <2>3, <2>4, EntersAfter
  <1>20. SalesInv'
    <2>1. ASSUME NEW e \in Entries
          PROVE  /\ IsFiniteSet(Sellers(e)')
                 /\ exited'[e] + Cardinality(Sellers(e)') <= spent'.requests
      <3>1. exited'[e] \in Nat /\ spent.requests <= spent'.requests /\ spent'.requests \in Nat
        BY <1>3, <1>6, <1>16, TypedNow DEF Bounds
      <3>2. \/ exited'[e] = exited[e]
            \/ exited'[e] = exited[e] + 1 /\ r \in Sellers(e)
        BY <1>14, <1>16
      <3>3. ~(new.id = e /\ new.kind = "exit" /\ new.pc = "order")
        BY <1>13
      <3>4. QED
        BY <1>6, <1>9, <1>12, <3>1, <3>2, <3>3, SalesAfter
    <2>2. QED
      BY <2>1 DEF SalesInv
  <1>21. ASSUME NEW e \in Entries, e \notin Spoilt' PROVE EntryInv(e)'
    <2>1. EntryInv(e)
      <3>1. e \notin Spoilt
        BY <1>3, <1>9, <1>21 DEF Spoilt
      <3>2. QED
        BY <3>1 DEF VInv
    <2>2. CASE e # id
      <3>1. Quiet(thread[r], new, e)
        BY <1>1, <1>2, <1>10, <1>11, <2>2 DEF Quiet, NoEntry, Entries
      <3>2. QED
        BY <1>3, <1>6, <1>9, <1>12, <1>16, <2>1, <2>2, <3>1, EntryAfter
    <2>3. CASE e = id
      <3>1. Acknowledged(answer)
        BY <1>9, <1>21, <2>3 DEF Spoilt
      <3>2. /\ thread'[r] = new /\ \A s \in Threads \ {r} : thread'[s] = thread[s]
        BY <1>6, <1>9, <1>12, Others, TypedNow
      <3>3. r \in Exits(e) /\ \A s \in Exits(e) : s = r
        BY <1>14, <2>1, <2>3 DEF EntryInv, Sellers
      <3>4. ~Adding(e) /\ ~Closing(e)
        <4>1. ~Adding(e)
          BY <2>1, <3>3 DEF EntryInv
        <4>2. ASSUME NEW s \in Threads, thread[s].id = e, thread[s].pc = "closing" PROVE FALSE
          <5>1. thread[s].kind = "exit"
            BY <4>2, Request DEF Sound
          <5>2. s = r
            BY <3>3, <4>2, <5>1 DEF Exits
          <5>3. QED
            BY <1>1, <1>3, <4>2, <5>2
        <4>3. QED
          BY <4>1, <4>2 DEF Closing
      <3>5. exited[e] = 0 /\ book[e].status = "OPEN"
        BY <1>1, <1>3, <1>7, <2>1, <2>3, <3>3, <3>4 DEF EntryInv
      <3>6. ~Adding(e)' /\ Closing(e)' /\ (\A s \in Exits(e)' : s = r)
        BY <1>11, <2>3, <3>1, <3>2, <3>3, <3>4 DEF Adding, Closing, Exits
      <3>7. exited'[e] = 1 /\ book'[e].status = "OPEN" /\ thread'[r].pc = "closing"
        BY <1>3, <1>9, <1>11, <1>16, <2>3, <3>1, <3>2, <3>5
      <3>8. QED
        BY <3>6, <3>7 DEF EntryInv
    <2>4. QED
      BY <2>2, <2>3
  <1>22. QED
    BY <1>17, <1>18, <1>19, <1>20, <1>21 DEF VInv, Entries, Spoilt

\* What a save makes of the rows it loaded.
LEMMA SavedRows ==
  ASSUME VInv, NEW r \in Threads, thread[r].copy # NoCopy, ~Raises(r, thread[r].copy),
         NEW new, new = Saved(r, thread[r].copy)
  PROVE  /\ new \in Lists /\ RowsRight(new)
         /\ At(r, "adding") =>
              /\ \A e \in Entries \ {thread[r].id} : new[e] = thread[r].copy[e]
              /\ ~Tracked(thread[r].copy, thread[r].id) => new[thread[r].id].status = "OPEN"
         /\ At(r, "closing") =>
              /\ \A e \in Entries \ {thread[r].id} : new[e] = thread[r].copy[e]
              /\ new[thread[r].id].status = "CLOSED"
         /\ ~At(r, "adding") /\ ~At(r, "closing") =>
              \A e \in Entries : new[e].status = thread[r].copy[e].status
  <1>1. PICK t : t = thread[r]
    OBVIOUS
  <1>2. PICK old : old = t.copy
    OBVIOUS
  <1>3. t \in Requests /\ Sound(t) /\ old \in Lists
    BY <1>1, <1>2, Request
  <1>4. RowsRight(old)
    BY <1>1, <1>2 DEF VInv, RowsInv
  <1>5. t.pc \in DOMAIN After
    BY <1>1, <1>3 DEF Sound
  <1>6. t.id \in Entries /\ t.id \in entered
    <2>1. t.id \in Entries \cup {NoEntry}
      BY <1>1, Request
    <2>2. t.id # NoEntry
      BY <1>3, <1>5 DEF Sound, After
    <2>3. QED
      BY <1>1, <2>1, <2>2 DEF VInv, EntersInv
  <1>7. CASE t.pc = "adding"
    <2>1. ~AddRefused(old, t.id, Lane) /\ new = AddPosition(old, t.id, Lane)
      BY <1>1, <1>2, <1>7 DEF Raises, Saved, At
    <2>2. QED
      BY <1>1, <1>2, <1>3, <1>4, <1>6, <1>7, <2>1, RowsAdd DEF At
  <1>8. CASE t.pc = "closing"
    <2>1. Tracked(old, t.id) /\ new = MarkClosed(old, t.id, "SOFTWARE")
      BY <1>1, <1>2, <1>8 DEF Raises, Saved, At
    <2>2. QED
      BY <1>1, <1>2, <1>3, <1>4, <1>6, <1>8, <2>1, RowsClose DEF At
  <1>9. CASE t.pc \in {"erroring", "reconciling"}
    <2>1. PICK due \in Entries, exit \in ExitKinds : due = t.visit[1] /\ exit = t.visit[2]
      <3>1. t.visit \in Jobs
        BY <1>3, <1>9 DEF Sound
      <3>2. QED
        BY <3>1 DEF Jobs
    <2>2. \/ new = MarkReconciliationError(old, due)
          \/ new = ReconcileFills(old, due, exit, TRUE)
      BY <1>1, <1>2, <1>9, <2>1 DEF Saved, At
    <2>3. /\ new \in Lists
          /\ \A e \in Entries : /\ new[e].status = old[e].status
                                /\ new[e].strategy = old[e].strategy
      <3>1. /\ ReconcileFills(old, due, exit, TRUE) \in Lists
            /\ MarkReconciliationError(old, due) \in Lists
            /\ \A e \in Entries :
                 /\ ReconcileFills(old, due, exit, TRUE)[e].status = old[e].status
                 /\ ReconcileFills(old, due, exit, TRUE)[e].strategy = old[e].strategy
                 /\ MarkReconciliationError(old, due)[e].status = old[e].status
                 /\ MarkReconciliationError(old, due)[e].strategy = old[e].strategy
        BY <1>3, RowsReconcile
      <3>2. QED
        BY <2>2, <3>1
    <2>4. RowsRight(new)
      BY <1>3, <1>4, <2>3, RowsSame
    <2>5. QED
      BY <1>1, <1>2, <1>9, <2>3, <2>4 DEF At
  <1>10. CASE t.pc \notin {"adding", "closing", "erroring", "reconciling"}
    <2>1. new = old
      BY <1>1, <1>2, <1>10 DEF Saved, At
    <2>2. QED
      BY <1>1, <1>2, <1>3, <1>4, <1>10, <2>1 DEF At
  <1>11. QED
    BY <1>7, <1>8, <1>9, <1>10

\* A save: it undoes what the file got since the load, or it does to the entry
\* what the request is there for.
LEMMA StepSaves ==
  ASSUME Bounds, VInv, NEW r \in Threads, Saves(r)
  PROVE  VInv'
  <1>1. PICK t : t = thread[r]
    OBVIOUS
  <1>2. PICK old : old = t.copy
    OBVIOUS
  <1>3. PICK id : id = t.id
    OBVIOUS
  <1>4. PICK rows : rows = Saved(r, old)
    OBVIOUS
  <1>5. /\ old # NoCopy /\ ~Raises(r, old) /\ book' = rows
        /\ undone' = undone \cup {e \in Entries : old[e] # book[e]}
        /\ IF t.pc = "observing"
           THEN Answered(r)
           ELSE thread' = [thread EXCEPT ![r].copy = NoCopy, ![r].pc = After[t.pc]]
        /\ UNCHANGED <<entered, exited, unsure, raced, spent>>
    BY <1>1, <1>2, <1>4 DEF Saves, At
  <1>6. t \in Requests /\ Sound(t) /\ old \in Lists
    BY <1>1, <1>2, <1>5, Request
  <1>7. t.pc \in DOMAIN After
    BY <1>2, <1>5, <1>6 DEF Sound
  <1>8. id \in Entries /\ id # NoEntry
    <2>1. id \in Entries \cup {NoEntry}
      BY <1>1, <1>3, Request
    <2>2. id # NoEntry
      BY <1>3, <1>6, <1>7 DEF Sound, After
    <2>3. QED
      BY <2>1, <2>2
  <1>9. Typed /\ RowsInv /\ EntersInv /\ SalesInv
    BY DEF VInv
  <1>10. /\ rows \in Lists /\ RowsRight(rows)
         /\ t.pc = "adding" =>
              /\ \A e \in Entries \ {id} : rows[e] = old[e]
              /\ ~Tracked(old, id) => rows[id].status = "OPEN"
         /\ t.pc = "closing" =>
              /\ \A e \in Entries \ {id} : rows[e] = old[e]
              /\ rows[id].status = "CLOSED"
         /\ t.pc \notin {"adding", "closing"} =>
              \A e \in Entries : rows[e].status = old[e].status
    <2>1. /\ thread[r].copy # NoCopy /\ ~Raises(r, thread[r].copy)
          /\ rows = Saved(r, thread[r].copy)
      BY <1>1, <1>2, <1>4, <1>5
    <2>2. /\ rows \in Lists /\ RowsRight(rows)
          /\ At(r, "adding") =>
               /\ \A e \in Entries \ {thread[r].id} : rows[e] = thread[r].copy[e]
               /\ ~Tracked(thread[r].copy, thread[r].id) => rows[thread[r].id].status = "OPEN"
          /\ At(r, "closing") =>
               /\ \A e \in Entries \ {thread[r].id} : rows[e] = thread[r].copy[e]
               /\ rows[thread[r].id].status = "CLOSED"
          /\ ~At(r, "adding") /\ ~At(r, "closing") =>
               \A e \in Entries : rows[e].status = thread[r].copy[e].status
      BY <2>1, SavedRows
    <2>3. QED
      BY <1>1, <1>2, <1>3, <2>2 DEF At
  <1>11. PICK label : label = After[t.pc]
    OBVIOUS
  <1>12. t.pc # "observing" =>
           /\ label \in {"capturing", "sweep", "fetching", "sweeping", "failed"}
           /\ label \in {"fetching", "failed"} => t.pc \in {"attempting", "erroring"}
    BY <1>7, <1>11 DEF After
  <1>13. PICK new : new = IF t.pc = "observing" THEN Idle
                          ELSE [t EXCEPT !.copy = NoCopy, !.pc = label]
    OBVIOUS
  <1>14. thread' = [thread EXCEPT ![r] = new]
    BY <1>1, <1>5, <1>11, <1>13 DEF Answered
  <1>15. /\ t.pc = "observing" => new = Idle
         /\ t.pc # "observing" =>
              /\ new.kind = t.kind /\ new.id = id /\ new.pc = label /\ new.copy = NoCopy
              /\ new.visit = t.visit /\ new \in Requests
    BY <1>3, <1>6, <1>12, <1>13 DEF Requests, Labels, After
  <1>16. Idle.pc = "idle" /\ Idle.kind = "none" /\ Idle.id = NoEntry /\ Idle.copy = NoCopy
    BY DEF Idle
  <1>17. new \in Requests /\ Sound(new)
    <2>1. CASE t.pc # "observing"
      <3>1. t.kind \in {"entry", "exit"}
        BY <1>6, <1>7, <2>1 DEF Sound, After
      <3>2. label \in {"fetching", "failed"} => t.visit \in Jobs
        BY <1>6, <1>12, <2>1 DEF Sound
      <3>3. Sound(new)
        BY <1>8, <1>12, <1>15, <2>1, <3>1, <3>2 DEF Sound
      <3>4. QED
        BY <1>15, <2>1, <3>3
    <2>2. QED
      BY <1>15, <2>1, Rests
  <1>18. new.copy = NoCopy /\ (new.id # NoEntry => new.id = id /\ new.kind = t.kind)
         /\ new.pc \notin {"order", "adding", "closing"}
    BY <1>12, <1>15, <1>16
  <1>19. Typed'
    <2>1. undone' \subseteq Entries
      BY <1>5, <1>9, TypedNow
    <2>2. QED
      BY <1>5, <1>9, <1>10, <1>14, <1>17, <2>1, TypedNow, TypesAfter
  <1>20. RowsInv'
    <2>1. RowsRight(book')
      BY <1>5, <1>10
    <2>2. QED
      BY <1>5, <1>9, <1>14, <1>17, <1>18, <2>1, RowsAfter
  <1>21. EntersInv'
    <2>1. \A e \in Entries : exited'[e] # 0 => e \in entered'
      BY <1>5, <1>9 DEF EntersInv
    <2>2. \E n \in 0 .. MaxEntries : entered' = 1 .. n
      BY <1>5, <1>9 DEF EntersInv
    <2>3. new.id # NoEntry => new.id \in entered'
      BY <1>1, <1>3, <1>5, <1>9, <1>18 DEF EntersInv
    <2>4. \A s \in Threads \ {r} :
            new.kind = "entry" /\ thread[s].kind = "entry" /\ new.id # NoEntry
            => thread[s].id # new.id
      BY <1>1, <1>3, <1>9, <1>18 DEF EntersInv
    <2>5. QED
      BY <1>5, <1>9, <1>14, <1>17, <2>1, <2>2, <2>3, <2>4, EntersAfter
  <1>22. SalesInv'
    <2>1. ASSUME NEW e \in Entries
          PROVE  /\ IsFiniteSet(Sellers(e)')
                 /\ exited'[e] + Cardinality(Sellers(e)') <= spent'.requests
      <3>1. exited'[e] = exited[e] /\ exited'[e] \in Nat
        BY <1>5, <1>9, TypedNow DEF Bounds
      <3>2. spent.requests <= spent'.requests /\ spent'.requests \in Nat
        BY <1>5, <1>9, TypedNow DEF Bounds
      <3>3. QED
        BY <1>9, <1>14, <1>17, <1>18, <3>1, <3>2, SalesAfter
    <2>2. QED
      BY <2>1 DEF SalesInv
  <1>23. ASSUME NEW e \in Entries, e \notin Spoilt' PROVE EntryInv(e)'
    <2>1. old[e] = book[e] /\ e \notin Spoilt
      BY <1>5, <1>23 DEF Spoilt
    <2>2. EntryInv(e)
      BY <2>1 DEF VInv
    <2>3. CASE t.pc \notin {"adding", "closing"} \/ e # id
      <3>1. Quiet(thread[r], new, e)
        <4>1. CASE t.pc = "observing"
          BY <1>1, <1>15, <4>1 DEF Quiet
        <4>2. CASE t.pc # "observing" /\ t.pc \notin {"adding", "closing"}
          <5>1. t.pc # "order"
            BY <1>7 DEF After
          <5>2. QED
            BY <1>1, <1>3, <1>15, <1>18, <4>2, <5>1 DEF Quiet
        <4>3. CASE t.pc \in {"adding", "closing"} /\ e # id
          BY <1>1, <1>3, <1>15, <4>3 DEF Quiet
        <4>4. QED
          BY <2>3, <4>1, <4>2, <4>3
      <3>2. book'[e].status = book[e].status
        BY <1>5, <1>10, <2>1, <2>3
      <3>3. QED
        BY <1>5, <1>9, <1>14, <1>17, <2>2, <3>1, <3>2, EntryAfter
    <2>4. /\ thread'[r] = new /\ \A s \in Threads \ {r} : thread'[s] = thread[s]
      BY <1>9, <1>14, <1>17, Others, TypedNow
    <2>5. CASE t.pc = "adding" /\ e = id
      <3>1. Adding(e)
        BY <1>1, <1>3, <2>5 DEF Adding
      <3>2. book[e].status = "ABSENT" /\ exited[e] = 0 /\ Exits(e) = {}
        BY <2>2, <3>1 DEF EntryInv
      <3>3. book'[e].status = "OPEN" /\ exited'[e] = 0
        BY <1>5, <1>10, <2>1, <2>5, <3>2 DEF Tracked
      <3>4. new.kind = "entry"
        BY <1>6, <1>15, <2>5 DEF Sound
      <3>5. Exits(e)' = {}
        BY <2>4, <3>2, <3>4 DEF Exits
      <3>6. ~Adding(e)'
        <4>1. ASSUME NEW s \in Threads, thread'[s].id = e, thread'[s].pc = "adding" PROVE FALSE
          <5>1. s # r
            BY <1>18, <2>4, <4>1
          <5>2. thread[s].kind = "entry" /\ thread[s].id = e
            BY <2>4, <4>1, <5>1, Request DEF Sound
          <5>3. t.kind = "entry" /\ t.id = e
            BY <1>3, <1>6, <2>5 DEF Sound
          <5>4. QED
            BY <1>1, <1>8, <1>9, <2>5, <5>1, <5>2, <5>3 DEF EntersInv
        <4>2. QED
          BY <4>1 DEF Adding
      <3>7. ~Closing(e)'
        <4>1. ASSUME NEW s \in Threads, thread'[s].id = e, thread'[s].pc = "closing" PROVE FALSE
          <5>1. s # r
            BY <1>18, <2>4, <4>1
          <5>2. thread[s].kind = "exit" /\ thread[s].id = e
            BY <2>4, <4>1, <5>1, Request DEF Sound
          <5>3. QED
            BY <3>2, <5>2 DEF Exits
        <4>2. QED
          BY <4>1 DEF Closing
      <3>8. QED
        BY <3>3, <3>5, <3>6, <3>7 DEF EntryInv
    <2>6. CASE t.pc = "closing" /\ e = id
      <3>1. t.kind = "exit" /\ t.id = e
        BY <1>3, <1>6, <2>6 DEF Sound
      <3>2. r \in Exits(e) /\ Closing(e)
        BY <1>1, <2>6, <3>1 DEF Exits, Closing
      <3>3. exited[e] = 1 /\ ~Adding(e) /\ \A s \in Exits(e) : s = r
        BY <2>2, <3>2 DEF EntryInv
      <3>4. book'[e].status = "CLOSED" /\ exited'[e] = 1
        BY <1>5, <1>10, <2>6, <3>3
      <3>5. \A s \in Exits(e)' : s = r
        BY <2>4, <3>3 DEF Exits
      <3>6. ~Adding(e)'
        BY <1>18, <2>4, <3>3 DEF Adding
      <3>7. ~Closing(e)'
        <4>1. ASSUME NEW s \in Threads, thread'[s].id = e, thread'[s].pc = "closing" PROVE FALSE
          <5>1. s # r
            BY <1>18, <2>4, <4>1
          <5>2. thread[s].kind = "exit" /\ thread[s].id = e
            BY <2>4, <4>1, <5>1, Request DEF Sound
          <5>3. QED
            BY <3>3, <5>1, <5>2 DEF Exits
        <4>2. QED
          BY <4>1 DEF Closing
      <3>8. thread'[r].pc # "order"
        BY <1>18, <2>4
      <3>9. QED
        BY <3>4, <3>5, <3>6, <3>7, <3>8 DEF EntryInv
    <2>7. QED
      BY <2>3, <2>5, <2>6
  <1>24. QED
    BY <1>19, <1>20, <1>21, <1>22, <1>23 DEF VInv, Entries, Spoilt

\* The process ends: the entries of the requests it had are in doubt.
LEMMA StepProcessEnds ==
  ASSUME Bounds, VInv, ProcessEnds
  PROVE  VInv'
  <1>1. Typed /\ RowsInv /\ EntersInv /\ SalesInv
    BY DEF VInv
  <1>2. /\ spent.stops < MaxStops /\ spent' = [spent EXCEPT !.stops = @ + 1]
        /\ thread' = [r \in Threads |-> Idle]
        /\ UNCHANGED <<book, entered, exited, undone, raced>>
    BY DEF ProcessEnds
  <1>3. /\ unsure \subseteq unsure' /\ unsure' \subseteq Entries
        /\ \A r \in Threads : /\ thread[r].id # NoEntry /\ thread[r].pc # "order"
                              /\ thread[r].kind # "sample"
                              => thread[r].id \in unsure'
    <2>1. unsure' = unsure \cup {thread[r].id : r \in {s \in Threads :
                                   /\ thread[s].id # NoEntry /\ thread[s].pc # "order"
                                   /\ thread[s].kind # "sample"}}
      BY DEF ProcessEnds, At, Kind
    <2>2. unsure \subseteq Entries
      BY <1>1, TypedNow
    <2>3. \A r \in Threads : thread[r].id # NoEntry => thread[r].id \in Entries
      BY Request
    <2>4. QED
      BY <2>1, <2>2, <2>3
  <1>4. /\ spent.requests \in Nat /\ spent'.requests = spent.requests
        /\ spent' \in [requests : 0 .. MaxRequests, stops : 0 .. MaxStops]
    BY <1>1, <1>2, TypedNow DEF Bounds
  <1>5. \A r \in Threads : thread'[r] = Idle
    BY <1>2
  <1>6. /\ Idle.pc = "idle" /\ Idle.kind = "none" /\ Idle.id = NoEntry /\ Idle.copy = NoCopy
        /\ Idle.left = {} /\ Idle \in Requests /\ Sound(Idle)
    BY Rests DEF Idle
  <1>7. Typed'
    <2>1. TypeOK'
      BY <1>1, <1>2, <1>3, <1>4, <1>5, <1>6, TypedNow DEF TypeOK, Lists, Labels
    <2>2. thread' \in [Threads -> Requests]
      BY <1>2, <1>6
    <2>3. \A r \in Threads : Sound(thread[r])'
      BY <1>5, <1>6 DEF Sound, Idle, NoCopy
    <2>4. QED
      BY <2>1, <2>2, <2>3 DEF Typed
  <1>8. RowsInv'
    <2>1. RowsRight(book)'
      BY <1>1, <1>2 DEF RowsInv, RowsRight
    <2>2. \A r \in Threads : thread'[r].copy = NoCopy
      BY <1>5, <1>6
    <2>3. QED
      BY <2>1, <2>2 DEF RowsInv, NoCopy
  <1>9. EntersInv'
    <2>1. \E n \in 0 .. MaxEntries : entered' = 1 .. n
      BY <1>1, <1>2 DEF EntersInv
    <2>2. \A e \in Entries : exited'[e] # 0 => e \in entered'
      BY <1>1, <1>2 DEF EntersInv
    <2>3. \A r \in Threads : thread'[r].id = NoEntry
      BY <1>5, <1>6
    <2>4. QED
      BY <2>1, <2>2, <2>3 DEF EntersInv, NoEntry, Entries
  <1>10. ASSUME NEW id \in Entries
         PROVE  /\ IsFiniteSet(Sellers(id)')
                /\ exited'[id] + Cardinality(Sellers(id)') <= spent'.requests
    <2>1. Sellers(id)' = {}
      BY <1>5, <1>6 DEF Sellers, Exits
    <2>2. IsFiniteSet(Sellers(id)') /\ Cardinality(Sellers(id)') = 0
      BY <2>1, FS_EmptySet
    <2>3. PICK n : n = Cardinality(Sellers(id))
      OBVIOUS
    <2>4. n \in Nat /\ exited[id] + n <= spent.requests
      BY <1>1, <2>3, FS_CardinalityType DEF SalesInv
    <2>5. exited[id] \in Nat /\ exited'[id] = exited[id]
      BY <1>1, <1>2, TypedNow DEF Bounds
    <2>6. QED
      BY <1>4, <2>2, <2>4, <2>5
  <1>11. ASSUME NEW id \in Entries, id \notin Spoilt' PROVE EntryInv(id)'
    <2>1. EntryInv(id) /\ id \notin unsure'
      BY <1>2, <1>3, <1>11 DEF Spoilt, VInv
    <2>2. ASSUME NEW r \in Threads, thread[r].id = id, thread[r].pc \in {"adding", "closing"}
          PROVE  FALSE
      <3>1. thread[r].kind \in {"entry", "exit"} /\ thread[r].id # NoEntry
        BY <2>2, Request DEF Sound
      <3>2. QED
        BY <1>3, <2>1, <2>2, <3>1
    <2>3. ~Adding(id) /\ ~Closing(id)
      BY <2>2 DEF Adding, Closing
    <2>4. Exits(id)' = {} /\ ~Adding(id)' /\ ~Closing(id)'
      BY <1>5, <1>6 DEF Exits, Adding, Closing, Entries, NoEntry
    <2>5. QED
      BY <1>2, <2>1, <2>3, <2>4 DEF EntryInv
  <1>12. QED
    BY <1>7, <1>8, <1>9, <1>10, <1>11 DEF VInv, SalesInv, Entries, Spoilt

\* The lane at the start.
LEMMA InitHolds ==
  ASSUME Bounds, Init
  PROVE  VInv
  <1>1. /\ Idle.pc = "idle" /\ Idle.kind = "none" /\ Idle.id = NoEntry /\ Idle.copy = NoCopy
        /\ Idle.left = {} /\ Idle \in Requests /\ Sound(Idle)
    BY Rests DEF Idle
  <1>2. \A r \in Threads : thread[r] = Idle
    BY DEF Init
  <1>3. /\ \A id \in Entries : book[id].status = "ABSENT" /\ exited[id] = 0
        /\ book \in Lists /\ exited \in [Entries -> 0 .. MaxRequests]
        /\ spent \in [requests : 0 .. MaxRequests, stops : 0 .. MaxStops]
    BY DEF Init, Bounds, Lists, NoPosition, Positions, Statuses, ExitKinds, RecStatuses
  <1>4. Typed
    BY <1>1, <1>2, <1>3 DEF Init, Typed, TypeOK, Lists, Labels
  <1>5. RowsInv
    BY <1>1, <1>2, <1>3 DEF RowsInv, RowsRight
  <1>6. EntersInv
    <2>1. entered = 1 .. 0 /\ 0 \in 0 .. MaxEntries
      BY DEF Init, Bounds
    <2>2. QED
      BY <1>1, <1>2, <1>3, <2>1 DEF EntersInv
  <1>7. ASSUME NEW id \in Entries
        PROVE  IsFiniteSet(Sellers(id)) /\ exited[id] + Cardinality(Sellers(id)) <= spent.requests
    <2>1. Sellers(id) = {}
      BY <1>1, <1>2 DEF Sellers, Exits
    <2>2. IsFiniteSet(Sellers(id)) /\ Cardinality(Sellers(id)) = 0
      BY <2>1, FS_EmptySet
    <2>3. exited[id] = 0 /\ spent.requests = 0
      BY <1>3 DEF Init
    <2>4. QED
      BY <2>2, <2>3
  <1>8. ASSUME NEW id \in Entries PROVE EntryInv(id)
    <2>1. Exits(id) = {} /\ ~Adding(id) /\ ~Closing(id) /\ id \notin entered
      BY <1>1, <1>2 DEF Exits, Adding, Closing, Init, Entries, NoEntry
    <2>2. QED
      BY <2>1 DEF EntryInv
  <1>9. QED
    BY <1>4, <1>5, <1>6, <1>7, <1>8 DEF VInv, SalesInv

\* A step that leaves the lane alone.
LEMMA Stutters ==
  ASSUME VInv, UNCHANGED lane
  PROVE  VInv'
  <1>1. /\ book' = book /\ thread' = thread /\ entered' = entered /\ exited' = exited
        /\ unsure' = unsure /\ undone' = undone /\ raced' = raced /\ spent' = spent
    BY DEF lane
  <1>2. Typed'
    BY <1>1 DEF VInv, Typed, TypeOK, At, Kind, Sound, Idle, NoCopy
  <1>3. RowsInv' /\ EntersInv'
    BY <1>1 DEF VInv, RowsInv, RowsRight, EntersInv, NoCopy
  <1>4. SalesInv'
    BY <1>1 DEF VInv, SalesInv, Sellers, Exits
  <1>5. \A id \in Entries : id \notin Spoilt' => EntryInv(id)'
    BY <1>1 DEF VInv, Spoilt, EntryInv, Exits, Adding, Closing
  <1>6. QED
    BY <1>2, <1>3, <1>4, <1>5 DEF VInv, Entries, Spoilt

\* Every step keeps the invariant.
LEMMA StepKeeps ==
  ASSUME Bounds, VInv, [Next]_lane
  PROVE  VInv'
  <1>1. CASE UNCHANGED lane
    BY <1>1, Stutters
  <1>2. CASE Waits
    BY <1>2, Stutters DEF Waits
  <1>3. CASE ProcessEnds
    BY <1>3, StepProcessEnds
  <1>4. ASSUME NEW r \in Threads,
               \/ \E kind \in Kinds : Starts(r, kind)
               \/ ReadsCandles(r) \/ ReadsPrice(r) \/ RequestFails(r)
               \/ \E answer \in Answers : Buys(r, answer) \/ Sells(r, answer)
               \/ Captures(r) \/ Saves(r) \/ StoreRaises(r)
               \/ SweepStarts(r) \/ SweepEnds(r) \/ Reports(r)
               \/ \E job \in Entries \X ExitKinds : Visits(r, job)
               \/ \E success \in BOOLEAN : Fetches(r, success)
        PROVE  VInv'
    <2>1. CASE \E kind \in Kinds : Starts(r, kind)
      BY <2>1, StepStarts
    <2>2. CASE ReadsCandles(r) \/ ReadsPrice(r) \/ RequestFails(r)
      BY <2>2, StepReadsCandles, StepReadsPrice, StepRequestFails
    <2>3. CASE \E answer \in Answers : Buys(r, answer) \/ Sells(r, answer)
      BY <2>3, StepBuys, StepSells
    <2>4. CASE Captures(r) \/ Saves(r) \/ StoreRaises(r)
      BY <2>4, StepCaptures, StepSaves, StepStoreRaises
    <2>5. CASE SweepStarts(r) \/ SweepEnds(r) \/ Reports(r)
      BY <2>5, StepSweepStarts, StepSweepEnds, StepReports
    <2>6. CASE \E job \in Entries \X ExitKinds : Visits(r, job)
      BY <2>6, StepVisits DEF Jobs
    <2>7. CASE \E success \in BOOLEAN : Fetches(r, success)
      BY <2>7, StepFetches
    <2>8. QED
      BY <1>4, <2>1, <2>2, <2>3, <2>4, <2>5, <2>6, <2>7
  <1>5. QED
    BY <1>1, <1>2, <1>3, <1>4 DEF Next

\* The invariant says what the caller is told: at most one open position, and
\* the file right about every entry that is not in doubt.
LEMMA Told ==
  ASSUME VInv
  PROVE  TypeOK /\ LossIsTold
  <1>1. TypeOK /\ Cardinality(Open) <= 1
    BY TypedNow, OneOpen DEF VInv, Typed, RowsInv, Open
  <1>2. ASSUME NEW id \in Entries, id \notin unsure \cup undone \cup raced, ~InProgress(id)
        PROVE  (book[id].status = "OPEN" <=> id \in entered /\ exited[id] = 0) /\ exited[id] <= 1
    <2>1. EntryInv(id)
      BY <1>2 DEF VInv, Spoilt
    <2>2. ~Adding(id) /\ ~Closing(id)
      <3>1. \A r \in Threads : thread[r].pc = "adding" => thread[r].kind = "entry"
        BY Request DEF Sound
      <3>2. \A r \in Threads : thread[r].pc = "closing" => thread[r].kind = "exit"
        BY Request DEF Sound
      <3>3. QED
        BY <1>2, <3>1, <3>2 DEF Adding, Closing, InProgress, Kind
    <2>3. CASE id \in entered
      BY <2>1, <2>2, <2>3 DEF EntryInv
    <2>4. CASE id \notin entered
      BY <2>4 DEF VInv, RowsInv, RowsRight, EntersInv
    <2>5. QED
      BY <2>3, <2>4
  <1>3. QED
    BY <1>1, <1>2 DEF LossIsTold

\* The validation lane alone, for any number of threads and any bounds: rows and
\* requests keep their types, and what LossIsTold says holds in every state.
THEOREM LaneCorrect ==
  ASSUME Bounds
  PROVE  Spec => [](TypeOK /\ LossIsTold)
  <1>1. Init => VInv
    BY InitHolds
  <1>2. VInv /\ [Next]_lane => VInv'
    BY StepKeeps
  <1>3. VInv => TypeOK /\ LossIsTold
    BY Told
  <1>4. QED
    BY <1>1, <1>2, <1>3, PTL DEF Spec
=============================================================================
