----------------------------- MODULE EventStream -----------------------------
(***************************************************************************)
(* The Hermes3D live room: a trader saves what happened in its position    *)
(* and state file, appends a series of records to the event journal        *)
(* (journal.py) and prints its result; the sidecar appends the series of   *)
(* a printed result once more; the API serves a viewer a stream            *)
(* (events.py) made of the journal's new records and of what the files     *)
(* show beyond them, and a snapshot (projection.py, lifecycle.py).         *)
(*                                                                         *)
(* No two of the processes share a lock: every append of the trader, every *)
(* read of a file by the stream and every saved change is a step.  Of the  *)
(* records only those are told apart that open or close a trade or halt a  *)
(* trader; the others are one record that asks for a new snapshot.  Left   *)
(* out: a journal that gets shorter (nothing in the code truncates it),    *)
(* the 1 MB window of read_recent, the heartbeat of a quiet stream, the    *)
(* rest of the snapshot (what is read from the records alone).             *)
(***************************************************************************)
EXTENDS Naturals, Sequences, SequencesExt

CONSTANTS
  MaxOrders, \* bound: entries of the trader
  Levels,    \* exit reasons that have an event of their own
  MaxFaults  \* bound: crashes, rounds that raise, reads that end inside a record,
             \* synthetic events

Orders == 1 .. MaxOrders

VARIABLES
  row,       \* row[id]: "NONE", "OPEN", or the exit reason of a CLOSED position
  halted,    \* the state file's halted
  legacy,    \* the trader was started before it knew the journal
  job,       \* the result of this round and the records still to append
  printed,   \* the results in the trader's log, in order
  echoed,    \* the results the sidecar has passed
  unread,    \* the records after the stream's offset: a read takes them all
  split,     \* the offset is inside the record that is being appended
  viewer,    \* the stream's local variables
  view,      \* the last snapshot the viewer got
  lifecycle, \* lifecycle[id]: the trade's state in the snapshot
  told,      \* history: positions whose close at a level the viewer was told
  shown,     \* history: positions told to be open while they were
  faults, probes

files    == <<row, halted>>
trader   == <<legacy, job, printed>>
appended == <<unread, split, lifecycle>>
stream   == <<viewer, view, told, shown>>
streamVars ==
  <<files, trader, echoed, appended, stream, faults, probes>>

-----------------------------------------------------------------------------
(***************************************************************************)
(* Results and the series of records publish_result makes of them.         *)
(***************************************************************************)
NoOrder == 0

Result(event, id) == [event |-> event, id |-> id]

NoResult == Result("NONE", NoOrder)

Record(event, id) == [event |-> event, id |-> id, validation |-> FALSE]

\* Activities and STATE_CHANGED: a record without a key.
Activity == Record("STATE_CHANGED", NoOrder)

Series(result) ==
  CASE result.event = "FILLED" ->
         <<Record("order_filled", result.id), Record("ORDER_OPEN", result.id)>>
    [] result.event \in Levels -> <<Record(result.event, result.id)>>
    [] result.event = "HALTED" -> <<Record("CIRCUIT_BREAKER", NoOrder)>>
    [] OTHER -> <<Activity>>

\* _event_key: no key for a record the files cannot tell.
Keyed == {"ORDER_OPEN", "CIRCUIT_BREAKER"} \cup Levels

Key(event, id) == <<event, id>>

Keys(records) ==
  {Key(r.event, r.id) : r \in {q \in records : q.event \in Keyed}}

-----------------------------------------------------------------------------
(***************************************************************************)
(* The lifecycle of a trade: a record moves it on, never back.             *)
(***************************************************************************)
Progress ==
  [NONE |-> 0, ORDER_OPENED |-> 50, POSITION_ACTIVE |-> 60, POSITION_CLOSED |-> 70]

ActiveTradeStates == {"ORDER_OPENED", "POSITION_ACTIVE"}

LifecycleState(event) ==
  CASE event = "order_filled" -> "POSITION_ACTIVE"
    [] event = "ORDER_OPEN" -> "ORDER_OPENED"
    [] event \in Levels -> "POSITION_CLOSED"
    [] OTHER -> "NONE"

\* Mutant: the latest record counts.
AdvanceLatest(state, event) ==
  IF LifecycleState(event) # "NONE" THEN LifecycleState(event) ELSE state

Advance(state, event) ==
  IF Progress[LifecycleState(event)] >= Progress[state]
  THEN LifecycleState(event) ELSE state

\* The records of trade id one after the other: a series is one record, or an
\* entry's two.
Advanced(state, id, records) ==
  LET After(was, r) == IF r.id = id THEN Advance(was, r.event) ELSE was
      first == After(state, Head(records))
  IN  IF Len(records) = 1 THEN first ELSE After(first, records[2])

-----------------------------------------------------------------------------
NoJob == [result |-> NoResult, left |-> << >>]

NoViewer ==
  [pc |-> "off", active |-> {}, closed |-> {}, halts |-> FALSE,
   emitted |-> {}, changed |-> FALSE]

Files == [open |-> {id \in Orders : row[id] = "OPEN"}, halted |-> halted]

ClosedRows == {id \in Orders : row[id] \notin {"NONE", "OPEN"}}

Connected == viewer.pc # "off"

Init ==
  /\ row = [id \in Orders |-> "NONE"] /\ halted = FALSE
  /\ legacy \in BOOLEAN /\ job = NoJob
  /\ printed = << >> /\ echoed = 0
  /\ unread = {} /\ split = FALSE
  /\ viewer = NoViewer /\ view = [open |-> {}, halted |-> FALSE]
  /\ lifecycle = [id \in Orders |-> "NONE"]
  /\ told = {} /\ shown = {}
  /\ faults = 0 /\ probes = 0

Fault == faults + probes < MaxFaults /\ faults' = faults + 1

\* publish: appends.  A record whose key the stream holds already can only ask for
\* a new snapshot.  A viewer whose offset is inside the first record reads the
\* rest of it, which does not decode.
Publish(records) ==
  /\ unread' =
       IF Connected
       THEN unread \cup {IF Keys({r}) \subseteq viewer.emitted THEN Activity ELSE r :
                            r \in ToSet(IF split THEN Tail(records) ELSE records)}
       ELSE unread
  /\ split' = FALSE
  /\ lifecycle' = [id \in Orders |-> Advanced(lifecycle[id], id, records)]

-----------------------------------------------------------------------------
(***************************************************************************)
(* The trader: a change is saved by run_once, then its result published    *)
(* and printed.  A halt ends the process after it was published; a process *)
(* that dies at another place is restarted.                                *)
(***************************************************************************)
Begins(result) ==
  job' = [result |-> result, left |-> IF legacy THEN << >> ELSE Series(result)]

Idle == job = NoJob /\ ~halted

Opens(id) ==
  /\ Idle
  /\ \A other \in Orders : row[other] # "OPEN" /\ (other < id => row[other] # "NONE")
  /\ row[id] = "NONE"
  /\ row' = [row EXCEPT ![id] = "OPEN"]
  /\ Begins(Result("FILLED", id))
  /\ UNCHANGED <<halted, legacy, printed, echoed, appended, stream,
                 faults, probes>>

\* At a level, or because the strategy wants to leave.
Closes(id) ==
  /\ Idle
  /\ row[id] = "OPEN"
  /\ \E reason \in Levels \cup {"STRATEGY"} :
       /\ row' = [row EXCEPT ![id] = reason]
       /\ Begins(Result(reason, id))
  /\ UNCHANGED <<halted, legacy, printed, echoed, appended, stream,
                 faults, probes>>

Halts ==
  /\ Idle
  /\ halted' = TRUE
  /\ Begins(Result("HALTED", NoOrder))
  /\ UNCHANGED <<row, legacy, printed, echoed, appended, stream, faults, probes>>

\* A round that changes nothing appends a record too.  Bound: a viewer is there,
\* and has read what the round before appended.
Round ==
  /\ Idle /\ ~legacy
  /\ Connected /\ unread = {}
  /\ Publish(<<Activity>>)
  /\ UNCHANGED <<files, trader, echoed, stream, faults, probes>>

TraderPublishes ==
  /\ job.left # << >>
  /\ Publish(<<Head(job.left)>>)
  /\ job' = [job EXCEPT !.left = Tail(@)]
  /\ UNCHANGED <<files, legacy, printed, echoed, stream, faults, probes>>

Prints ==
  /\ job # NoJob /\ job.left = << >>
  /\ printed' = Append(printed, job.result)
  /\ job' = NoJob
  /\ UNCHANGED <<files, legacy, echoed, appended, stream, faults, probes>>

\* run_once raises after the file was saved, or the process dies: what is not
\* appended by then is never published.
RoundFails ==
  /\ job # NoJob /\ ~split
  /\ Fault
  /\ job' = NoJob
  /\ UNCHANGED <<files, legacy, printed, echoed, appended, stream, probes>>

Trader ==
  \/ \E id \in Orders : Opens(id) \/ Closes(id)
  \/ Halts \/ TraderPublishes \/ Prints \/ RoundFails

-----------------------------------------------------------------------------
(***************************************************************************)
(* The sidecar, as LogSidecar leaves it to its readers: results in the     *)
(* order they were printed, late, and again after a crash.                 *)
(***************************************************************************)
\* Bound: the series of one result is one step.
Echoes ==
  /\ echoed < Len(printed)
  /\ echoed' = echoed + 1
  /\ Publish(Series(printed[echoed + 1]))
  /\ UNCHANGED <<files, trader, stream, faults, probes>>

EchoRewinds ==
  /\ echoed > 0 /\ ~split
  /\ Fault
  /\ echoed' \in 0 .. echoed - 1
  /\ UNCHANGED <<files, trader, appended, stream, probes>>

\* The validation simulator's circuit breaker carries the strategy's own key.
Probe ==
  /\ faults + probes < MaxFaults /\ ~split
  /\ probes' = probes + 1
  /\ Publish(<<[Record("CIRCUIT_BREAKER", NoOrder) EXCEPT !.validation = TRUE]>>)
  /\ UNCHANGED <<files, trader, echoed, stream, faults>>

-----------------------------------------------------------------------------
(***************************************************************************)
(* The stream of one viewer.                                               *)
(***************************************************************************)
ViewerAt(label) == viewer.pc = label

Tells(keys) ==
  told' = told \cup {id \in Orders : \E level \in Levels : Key(level, id) \in keys}

\* The journal's end, then the three sets, each a read of its own.
Connects ==
  /\ ViewerAt("off")
  /\ viewer' = [viewer EXCEPT !.pc = "active"]
  /\ unread' = {}
  /\ UNCHANGED <<files, trader, echoed, split, lifecycle, view, told, shown,
                 faults, probes>>

Loads(label, next, loaded) ==
  /\ ViewerAt(label)
  /\ viewer' = [loaded EXCEPT !.pc = next]
  /\ UNCHANGED <<files, trader, echoed, appended, view, told, shown, faults, probes>>

LoadsActive == Loads("active", "closed", [viewer EXCEPT !.active = Files.open])

LoadsClosed == Loads("closed", "halts", [viewer EXCEPT !.closed = ClosedRows])

LoadsHalts ==
  Loads("halts", "snapshot",
        [viewer EXCEPT !.halts = halted,
                       !.emitted = {Key("ORDER_OPEN", id) : id \in viewer.active}
                         \cup (IF halted THEN {Key("CIRCUIT_BREAKER", NoOrder)} ELSE {})])

\* _initial_events: the snapshot, the positions and the halts of now.
FirstSnapshot ==
  /\ ViewerAt("snapshot")
  /\ view' = Files
  /\ viewer' = [viewer EXCEPT !.pc = "opens"]
  /\ UNCHANGED <<files, trader, echoed, appended, told, shown, faults, probes>>

FirstOpens ==
  /\ ViewerAt("opens")
  /\ shown' = shown \cup Files.open
  /\ viewer' = [viewer EXCEPT !.pc = "read"]
  /\ UNCHANGED <<files, trader, echoed, appended, view, told, faults, probes>>

\* read_from: all the records since, told whether or not their keys were.  A
\* read may end inside a record that is being appended.
ReadsJournal ==
  /\ ViewerAt("read")
  /\ LET real == {r \in unread : ~r.validation}
     IN  /\ Tells(Keys(real))
         /\ shown' = shown \cup {id \in Files.open : Key("ORDER_OPEN", id) \in Keys(real)}
  /\ viewer' = [viewer EXCEPT !.pc = "tellOpens",
                              !.changed = unread # {},
                              !.emitted = @ \cup Keys(unread)]
  /\ unread' = {}
  /\ \/ UNCHANGED <<split, faults>>
     \/ ~split /\ (job.left # << >> \/ echoed < Len(printed)) /\ split' = TRUE /\ Fault
  /\ UNCHANGED <<files, trader, echoed, lifecycle, view, probes>>

\* Mutant: what the files add replaces what the journal asked for.
FilesTellAlone(keys, next, loaded) ==
  LET fresh == keys \ viewer.emitted
  IN  /\ Tells(fresh)
      /\ viewer' = [loaded EXCEPT !.pc = next, !.emitted = @ \cup fresh,
                                  !.changed = fresh # {}]

\* What is new in a file and not told yet.
FilesTell(keys, next, loaded) ==
  LET fresh == keys \ viewer.emitted
  IN  /\ Tells(fresh)
      /\ viewer' = [loaded EXCEPT !.pc = next, !.emitted = @ \cup fresh,
                                  !.changed = @ \/ fresh # {}]

TellsOpens ==
  /\ ViewerAt("tellOpens")
  /\ FilesTell({Key("ORDER_OPEN", id) : id \in Files.open \ viewer.active},
               "tellClosed", [viewer EXCEPT !.active = Files.open])
  /\ shown' = shown \cup {id \in Files.open \ viewer.active :
                            Key("ORDER_OPEN", id) \notin viewer.emitted}
  /\ UNCHANGED <<files, trader, echoed, appended, view, faults, probes>>

\* Mutant: only a position the stream has seen open.
NewlyClosedOfActive == (ClosedRows \ viewer.closed) \cap viewer.active

NewlyClosed == ClosedRows \ viewer.closed

\* A close for another reason than a level is not an event.
TellsClosed ==
  /\ ViewerAt("tellClosed")
  /\ FilesTell({Key(row[id], id) : id \in {n \in NewlyClosed : row[n] \in Levels}},
               "tellHalts", [viewer EXCEPT !.closed = ClosedRows])
  /\ UNCHANGED <<files, trader, echoed, appended, view, shown, faults, probes>>

TellsHalts ==
  /\ ViewerAt("tellHalts")
  /\ FilesTell(IF halted /\ ~viewer.halts THEN {Key("CIRCUIT_BREAKER", NoOrder)} ELSE {},
               "refresh", [viewer EXCEPT !.halts = halted])
  /\ UNCHANGED <<files, trader, echoed, appended, view, shown, faults, probes>>

Refreshes ==
  /\ ViewerAt("refresh")
  /\ view' = IF viewer.changed THEN Files ELSE view
  /\ viewer' = [viewer EXCEPT !.pc = "read", !.changed = FALSE]
  /\ UNCHANGED <<files, trader, echoed, appended, told, shown, faults, probes>>

\* The browser is closed, or the connection breaks.
Disconnects ==
  /\ Connected
  /\ viewer' = NoViewer
  /\ view' = [open |-> {}, halted |-> FALSE]
  /\ unread' = {} /\ split' = FALSE
  /\ told' = {} /\ shown' = {}
  /\ UNCHANGED <<files, trader, echoed, lifecycle, faults, probes>>

Serves ==
  \/ LoadsActive \/ LoadsClosed \/ LoadsHalts
  \/ FirstSnapshot \/ FirstOpens
  \/ ReadsJournal \/ TellsOpens \/ TellsClosed \/ TellsHalts \/ Refreshes

Next ==
  \/ Trader \/ Round \/ Echoes \/ EchoRewinds \/ Probe
  \/ Connects \/ Serves \/ Disconnects

Spec == Init /\ [][Next]_streamVars

Works == Round \/ TraderPublishes \/ Prints

\* The API keeps serving a connected viewer, and a trader that runs goes on:
\* it publishes what it has to and makes its next round.
FairSpec ==
  /\ Spec
  /\ WF_streamVars(Serves)
  /\ WF_streamVars(Works)

-----------------------------------------------------------------------------
Reasons == {"STRATEGY"} \cup Levels
Labels  == {"off", "active", "closed", "halts", "snapshot", "opens", "read",
            "tellOpens", "tellClosed", "tellHalts", "refresh"}

\* Every file, queue and local variable keeps its type.
TypeOK ==
  /\ row \in [Orders -> {"NONE", "OPEN"} \cup Reasons]
  /\ halted \in BOOLEAN /\ legacy \in BOOLEAN /\ split \in BOOLEAN
  /\ job.result \in [event : {"NONE", "FILLED", "HALTED"} \cup Reasons,
                     id : Orders \cup {NoOrder}]
  /\ echoed \in 0 .. Len(printed)
  /\ viewer \in [pc : Labels, active : SUBSET Orders, closed : SUBSET Orders,
                 halts : BOOLEAN, changed : BOOLEAN,
                 emitted : SUBSET (Keyed \X (Orders \cup {NoOrder}))]
  /\ view \in [open : SUBSET Orders, halted : BOOLEAN]
  /\ lifecycle \in [Orders -> DOMAIN Progress]

\* What the viewer sees of positions and halts comes to agree with the files
\* again, whoever changed them and whatever was not published on the way.  Two
\* changes the stream does not look for: an exit of the strategy by a trader that
\* publishes nothing more, and a halt of such a trader behind a synthetic event
\* that had its key.
ViewCatchesUp ==
  []<>(\/ ~Connected \/ view = Files
       \/ (legacy \/ (halted /\ faults > 1)) /\ \E id \in view.open : row[id] = "STRATEGY"
       \/ (legacy \/ faults > 0) /\ probes > 0 /\ halted /\ ~view.halted)

\* Who was told of an open position is told of its close at a level: from the
\* journal, or from the file when the trader died before it could publish.
CloseTold ==
  \A id \in Orders : \A level \in Levels :
    id \in shown /\ row[id] = level ~> id \in told \/ ~Connected

\* lifecycle.py: "a trade's current state cannot regress even when sidecar event
\* order is imperfect".  Without a fault a trade closed at a level is shown
\* active only until its trader, or the sidecar of a legacy trader, has
\* published the close; whatever is echoed later leaves it closed.
ClosedIsNotActive ==
  \A id \in Orders :
    row[id] \in Levels /\ lifecycle[id] \in ActiveTradeStates =>
      \/ faults > 0
      \/ job.result = Result(row[id], id)
      \/ legacy /\ \A i \in 1 .. echoed : printed[i] # Result(row[id], id)

=============================================================================
