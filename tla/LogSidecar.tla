------------------------------ MODULE LogSidecar ------------------------------
(***************************************************************************)
(* The Hermes3D sidecar (app/integrations/hermes3d/sidecar.py): it tails   *)
(* the stdout logs of the traders and republishes what they report in the  *)
(* event journal.  Its cursors, one per log, are a file it replaces once   *)
(* per poll.  A step ends where the process can die or a log can change:   *)
(* the stat of a log, one line read and published, the save.               *)
(*                                                                         *)
(* A size or offset counts half lines: a log whose last line is written in *)
(* part has an odd size.  The journal records of one line are one entry.   *)
(* A trader restarted by the launcher truncates its log in place; a log    *)
(* removed by hand comes back with another inode.  Left out: reading on in *)
(* a log that was removed while the sidecar has it open.                   *)
(***************************************************************************)
EXTENDS Naturals, FiniteSets, SequencesExt

CONSTANTS
  NSources,    \* logs, in the order poll_once reads them
  StartAtEnd,  \* start_at_end, TRUE unless run with --from-start
  Noise,       \* lines that report nothing the sidecar publishes
  MaxLines,    \* bound: lines the traders write
  MaxRestarts, \* bound: restarts of a trader that begin its log anew
  MaxCrashes   \* bound: ends of the sidecar process

Sources == 1 .. NSources
Lines   == 1 .. MaxLines

ASSUME ConstantsAssumption ==
  /\ NSources \in Nat \ {0} /\ StartAtEnd \in BOOLEAN /\ Noise \subseteq Lines
  /\ MaxLines \in Nat /\ MaxRestarts \in Nat /\ MaxCrashes \in Nat

VARIABLES
  log,      \* log[s]: inode (0: no file), complete lines, the torn last line
            \* (0: none), and how often the content began anew
  nextLine, \* the next line any trader writes
  restarts, \* restarts of traders so far
  journal,  \* what the sidecar appended to the event journal
  saved,    \* the cursor file
  cursors,  \* the cursors in memory
  pc,       \* "down", "open", "read" or "save"
  source,   \* the source poll_once is at
  offset,   \* the position of the handle in that source
  crashes,  \* ends of the process so far
  opened,   \* history: the epoch of the log that was opened last
  ignored,  \* history: lines written before the sidecar attached to the log
  skipped   \* history: skipped[s], a log of s outgrew the cursor of its past

logs    == <<log, nextLine, restarts>>
durable == <<journal, saved>>
process == <<cursors, pc, source, offset, crashes>>
history == <<opened, ignored, skipped>>
vars    == <<logs, durable, process, history>>

(***************************************************************************)
(* Logs and cursors.                                                       *)
(***************************************************************************)
NoLog == [inode |-> 0, lines |-> <<>>, torn |-> 0, epoch |-> 0]

Exists(s) == log[s].inode # 0

Size(s) == 2 * Len(log[s].lines) + (IF log[s].torn = 0 THEN 0 ELSE 1)

Content(s) == ToSet(log[s].lines) \cup ({log[s].torn} \ {0})

\* A cursor is an offset and an inode; epoch is history, no code reads it.
Cursor(at, inode, epoch) == [offset |-> at, inode |-> inode, epoch |-> epoch]

\* No entry in the file, or the one written while the log did not exist.
Fresh == [offset |-> 0, inode |-> 0, epoch |-> 0]

IsFresh(cursor) == cursor.offset = 0 /\ cursor.inode = 0

\* Mutant: a log that appears late is read from its beginning.
AttachFromStart(s) == Cursor(0, log[s].inode, log[s].epoch)

Attach(s) == Cursor(IF StartAtEnd THEN Size(s) ELSE 0, log[s].inode, log[s].epoch)

\* Mutant: a log shorter than its cursor is not recognised as a new one.
ResumeInodeOnly(s) ==
  IF cursors[s].inode \notin {0, log[s].inode} THEN 0 ELSE cursors[s].offset

\* Where reading goes on: at the cursor, or at 0 in a log that is another
\* file or has shrunk.
Resume(s) ==
  IF cursors[s].inode \notin {0, log[s].inode} \/ Size(s) < cursors[s].offset
  THEN 0 ELSE cursors[s].offset

Init ==
  /\ log \in [Sources -> {NoLog, [NoLog EXCEPT !.inode = 1]}]
  /\ nextLine = 1
  /\ restarts = 0
  /\ journal = <<>>
  /\ saved = [s \in Sources |-> Fresh]
  /\ cursors = saved
  /\ pc = "down"
  /\ source = 1
  /\ offset = 0
  /\ crashes = 0
  /\ opened = 0
  /\ ignored = {}
  /\ skipped = [s \in Sources |-> FALSE]

(***************************************************************************)
(* The sidecar.                                                            *)
(***************************************************************************)
\* The constructor: load the cursors, attach to logs without one, save.
Start ==
  /\ pc = "down"
  /\ LET missing == {s \in Sources : IsFresh(saved[s]) /\ Exists(s)}
     IN  /\ cursors' = [s \in Sources |-> IF s \in missing THEN Attach(s) ELSE saved[s]]
         /\ ignored' = IF StartAtEnd
                       THEN ignored \cup UNION {Content(s) : s \in missing}
                       ELSE ignored
  /\ saved' = cursors'
  /\ pc' = "open" /\ source' = 1 /\ offset' = 0
  /\ UNCHANGED <<logs, journal, crashes, opened, skipped>>

\* Mutant: poll_once asks for a source after the last one.
NextSourcePastLast == pc' = "open" /\ source' = source + 1 /\ offset' = 0

NextSource ==
  /\ IF source < NSources THEN pc' = "open" /\ source' = source + 1
                          ELSE pc' = "save" /\ source' = source
  /\ offset' = 0

\* _read_source as far as the open: a missing log is passed over, one that
\* has appeared since the start is attached to.
Open ==
  /\ pc = "open"
  /\ LET s == source
     IN  \/ /\ ~Exists(s)
            /\ NextSource
            /\ UNCHANGED <<cursors, history>>
         \/ /\ Exists(s) /\ IsFresh(cursors[s]) /\ StartAtEnd
            /\ cursors' = [cursors EXCEPT ![s] = Attach(s)]
            /\ ignored' = ignored \cup Content(s)
            /\ NextSource
            /\ UNCHANGED <<opened, skipped>>
         \/ /\ Exists(s) /\ ~(IsFresh(cursors[s]) /\ StartAtEnd)
            /\ offset' = Resume(s)
            /\ skipped' = [skipped EXCEPT ![s] =
                 @ \/ /\ cursors[s].epoch # log[s].epoch
                      /\ cursors[s].inode = log[s].inode
                      /\ cursors[s].offset \in 1 .. Size(s)]
            /\ opened' = log[s].epoch
            /\ pc' = "read"
            /\ UNCHANGED <<cursors, source, ignored>>
  /\ UNCHANGED <<logs, durable, crashes>>

\* The line the handle is in, and whether its end has been written.
Reading  == offset \div 2 + 1
HasLine  == Reading <= Len(log[source].lines)

\* readline and _publish_payload.  What is left of a line the handle entered
\* in the middle does not parse.
ReadLine ==
  /\ pc = "read" /\ HasLine
  /\ LET line == log[source].lines[Reading]
     IN  journal' = IF offset % 2 = 0 /\ line \notin Noise
                    THEN Append(journal, [source |-> source, line |-> line])
                    ELSE journal
  /\ offset' = 2 * Reading
  /\ UNCHANGED <<logs, saved, cursors, pc, source, crashes, history>>

\* Mutant: a last line written in part is passed over.
EndOfLogPastTorn ==
  /\ pc = "read" /\ ~HasLine
  /\ cursors' = [cursors EXCEPT ![source] = Cursor(Size(source), log[source].inode, opened)]
  /\ NextSource
  /\ UNCHANGED <<logs, durable, crashes, history>>

\* Mutant: the cursor of a log that was read is not moved.
EndOfLogForgets ==
  /\ pc = "read" /\ ~HasLine
  /\ NextSource
  /\ UNCHANGED <<logs, durable, cursors, crashes, history>>

\* Nothing more, or a line without its end, which is left for later.
EndOfLog ==
  /\ pc = "read" /\ ~HasLine
  /\ cursors' = [cursors EXCEPT ![source] = Cursor(offset, log[source].inode, opened)]
  /\ NextSource
  /\ UNCHANGED <<logs, durable, crashes, history>>

\* poll_once saves the cursors; the next poll begins.
Save ==
  /\ pc = "save"
  /\ saved' = cursors
  /\ pc' = "open" /\ source' = 1
  /\ UNCHANGED <<logs, journal, cursors, offset, crashes, history>>

\* The process is stopped or dies; an error of publish or save also ends it.
Crash ==
  /\ pc # "down" /\ crashes < MaxCrashes
  /\ crashes' = crashes + 1
  /\ pc' = "down"
  /\ UNCHANGED <<logs, durable, cursors, source, offset, history>>

(***************************************************************************)
(* The traders and their logs.                                             *)
(***************************************************************************)
BeginLine(s) ==
  /\ Exists(s) /\ log[s].torn = 0 /\ nextLine \in Lines
  /\ log' = [log EXCEPT ![s].torn = nextLine]
  /\ nextLine' = nextLine + 1
  /\ UNCHANGED <<restarts, durable, process, history>>

EndLine(s) ==
  /\ log[s].torn # 0
  /\ log' = [log EXCEPT ![s].lines = Append(@, log[s].torn), ![s].torn = 0]
  /\ UNCHANGED <<nextLine, restarts, durable, process, history>>

\* The launcher starts a trader: its log is truncated, or made anew.
RestartTrader(s) ==
  /\ restarts < MaxRestarts
  /\ restarts' = restarts + 1
  /\ \E inode \in {log[s].inode, restarts + 2} \ {0} :
       /\ pc = "read" /\ source = s => inode = log[s].inode
       /\ log' = [log EXCEPT ![s] =
            [NoLog EXCEPT !.inode = inode, !.epoch = log[s].epoch + 1]]
  /\ UNCHANGED <<nextLine, durable, process, history>>

Sidecar == Open \/ ReadLine \/ EndOfLog \/ Save

Next ==
  \/ Start \/ Sidecar \/ Crash
  \/ \E s \in Sources : BeginLine(s) \/ EndLine(s) \/ RestartTrader(s)

Spec == Init /\ [][Next]_vars

\* While it runs the sidecar keeps polling; nothing restarts it by itself.
FairSpec == Spec /\ WF_vars(Sidecar)
-----------------------------------------------------------------------------
Cursors == [offset : 0 .. 2 * MaxLines, inode : 0 .. MaxRestarts + 1,
            epoch : 0 .. MaxRestarts]

\* Every variable stays in the set its file or local variable ranges over.
TypeOK ==
  /\ \A s \in Sources :
       /\ log[s].inode \in 0 .. MaxRestarts + 1
       /\ log[s].lines \in Seq(Lines)
       /\ log[s].torn \in Lines \cup {0}
       /\ log[s].epoch \in 0 .. MaxRestarts
  /\ nextLine \in 1 .. MaxLines + 1
  /\ restarts \in 0 .. MaxRestarts /\ crashes \in 0 .. MaxCrashes
  /\ journal \in Seq([source : Sources, line : Lines])
  /\ saved \in [Sources -> Cursors] /\ cursors \in [Sources -> Cursors]
  /\ pc \in {"down", "open", "read", "save"}
  /\ source \in Sources
  /\ offset \in 0 .. 2 * MaxLines
  /\ opened \in 0 .. MaxRestarts
  /\ ignored \subseteq Lines
  /\ skipped \in [Sources -> BOOLEAN]

Published == {entry.line : entry \in ToSet(journal)}

\* What the saved cursor has passed is in the journal: a crash at any point
\* and a restart of the trader lose no line, unless the new log had outgrown
\* the old cursor before the sidecar looked.
ConsumedIsPublished ==
  \A s \in Sources :
    (saved[s].epoch = log[s].epoch /\ saved[s].inode = log[s].inode /\ ~skipped[s])
      => \A k \in 1 .. Len(log[s].lines) :
           2 * k <= saved[s].offset =>
             log[s].lines[k] \in Published \cup ignored \cup Noise

\* A line is published again only when the process has died since: once per
\* end of the process at most.
ReplayNeedsCrash ==
  \A line \in Lines :
    Cardinality({k \in 1 .. Len(journal) : journal[k].line = line}) <= 1 + crashes

\* docs/HERMES3D_TRADING_ROOM.md: "it attaches at the current end of each log
\* so historical BUY/SELL events are not replayed into the live room", also
\* over crashes, logs that appear late and logs that begin anew.
HistoryNotReplayed == ignored \cap Published = {}

\* A line that is complete gets published by a sidecar that keeps running,
\* however it was cut by the polls, unless the trader wipes it first.
LineDelivered ==
  \A s \in Sources : \A line \in Lines \ Noise :
    line \in ToSet(log[s].lines)
      ~> \/ line \in Published \cup ignored
         \/ line \notin ToSet(log[s].lines)
         \/ pc = "down" \/ skipped[s]

\* docs/HERMES3D_TRADING_ROOM.md: "Byte offsets are persisted ..., so restarting
\* the sidecar does not replay already-consumed lines."
NothingReplayed ==
  \A i, j \in 1 .. Len(journal) : journal[i] = journal[j] => i = j
=============================================================================
