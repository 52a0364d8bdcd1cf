------------------------ MODULE TradingRuntime_proofs ------------------------
(***************************************************************************)
(* Safety of the log sidecar and of the API next to it, for any number of  *)
(* logs, lines, restarts and crashes.  Line k of a log, the torn one being *)
(* its last, lies at the half lines 2k-1 and 2k: a cursor has passed it    *)
(* when 2k-1 is not beyond its offset (Passed).  The invariant says of the *)
(* saved cursor, of the one in memory and of the open handle that the      *)
(* lines they have passed are known, that the ignored lines are among      *)
(* those, and that no other line was published more often than the process *)
(* has died.                                                               *)
(***************************************************************************)
EXTENDS TradingRuntime, FiniteSetTheorems, TLAPS

\* Line k of a log, 0 where nothing is.
LineAt(s, k) == IF k \in 1 .. Len(log[s].lines) THEN log[s].lines[k]
                ELSE IF k = Len(log[s].lines) + 1 THEN log[s].torn ELSE 0

Places(s) == 1 .. Len(log[s].lines) + 1

Passed(at, k) == 2 * k - 1 <= at

Times(line) == Cardinality({k \in 1 .. Len(journal) : journal[k].line = line})

\* Every line is written once, to one log.
LinesInv ==
  /\ \A s \in Sources : Size(s) <= 2 * (nextLine - 1)
  /\ \A s \in Sources : \A k \in Places(s) : LineAt(s, k) < nextLine
  /\ \A s, t \in Sources : \A j \in Places(s), k \in Places(t) :
       LineAt(s, j) = LineAt(t, k) /\ LineAt(s, j) # 0 => s = t /\ j = k
  /\ \A line \in Published \cup ignored : line < nextLine
  /\ \A s \in Sources : log[s].epoch <= restarts /\ log[s].inode <= restarts + 1

Matches(c, s) == c.epoch = log[s].epoch /\ c.inode = log[s].inode

\* What is known of the lines before and beyond an offset in a log.
Known(at, s) ==
  \A k \in Places(s) :
    Passed(at, k) /\ LineAt(s, k) # 0
      => LineAt(s, k) \in Published \cup ignored \cup Noise

IgnoredPassed(at, s, same) ==
  \A k \in Places(s) : LineAt(s, k) \in ignored => same /\ Passed(at, k)

CursorInv(c, s) ==
  /\ c.epoch <= log[s].epoch
  /\ c.inode = 0 => c = Fresh
  /\ c.inode # 0 => Exists(s)
  /\ Matches(c, s) => c.offset <= Size(s)
  /\ Matches(c, s) /\ ~skipped[s] => Known(c.offset, s)
  /\ ~IsFresh(c) => IgnoredPassed(c.offset, s, Matches(c, s))

HandleInv ==
  /\ pc # "down" => \A s \in Sources : IsFresh(cursors[s]) => IsFresh(saved[s])
  /\ pc \in {"open", "read"} => \A t \in source .. NSources : cursors[t] = saved[t]
  /\ pc = "read" =>
       /\ Exists(source) /\ opened <= log[source].epoch
       /\ StartAtEnd => ~IsFresh(saved[source])
       /\ opened = log[source].epoch => offset <= Size(source)
       /\ opened = log[source].epoch /\ ~skipped[source] => Known(offset, source)
       /\ IgnoredPassed(offset, source, opened = log[source].epoch)

\* A log is ignored as it is found, never once something of it was published.
HistoryInv ==
  /\ ignored \cap Published = {}
  /\ ~StartAtEnd => ignored = {}
  /\ StartAtEnd =>
       \A s \in Sources : IsFresh(saved[s]) =>
         \A k \in Places(s) : LineAt(s, k) \notin Published

Behind(s, k) ==
  IF pc = "read" /\ source = s
  THEN Passed(offset, k) /\ offset <= Size(s)
  ELSE /\ cursors[s].inode = log[s].inode
       /\ Passed(cursors[s].offset, k) /\ cursors[s].offset <= Size(s)

ReplayInv ==
  /\ \A line \in Lines : Times(line) <= 1 + crashes
  /\ pc = "down" => \A line \in Lines : Times(line) <= crashes
  /\ pc # "down" =>
       \A s \in Sources : \A k \in Places(s) :
         LineAt(s, k) # 0 => Times(LineAt(s, k)) <= crashes \/ Behind(s, k)

Logs ==
  [inode : 0 .. MaxRestarts + 1, lines : Seq(Lines), torn : Lines \cup {0},
   epoch : 0 .. MaxRestarts]

Typed == TypeOK /\ log \in [Sources -> Logs]

SInv ==
  /\ Typed /\ LinesInv
  /\ \A s \in Sources : CursorInv(saved[s], s) /\ CursorInv(cursors[s], s)
  /\ HandleInv /\ HistoryInv /\ ReplayInv

(***************************************************************************)
(* Lines and offsets.                                                      *)
(***************************************************************************)
\* Where a handle is: before a line, or within it.
LEMMA HandleAt ==
  ASSUME NEW at \in Nat
  PROVE  /\ at \div 2 + 1 \in Nat \ {0}
         /\ at % 2 = 0 => at = 2 * (at \div 2 + 1) - 2
         /\ at % 2 # 0 => at = 2 * (at \div 2 + 1) - 1
  OBVIOUS

\* Passing is monotone, and a line is passed with its first half.
LEMMA PassedBounds ==
  /\ \A a, b, k \in Nat : a <= b /\ Passed(a, k) => Passed(b, k)
  /\ \A k \in Nat : Passed(2 * k, k) /\ \A j \in Nat : Passed(2 * k, j) => j <= k
  BY DEF Passed

\* The size of a log, in half lines.
LEMMA SizeOf ==
  ASSUME NEW s \in Sources, log[s] \in Logs
  PROVE  /\ Len(log[s].lines) \in Nat
         /\ Size(s) \in Nat
         /\ Size(s) = 2 * Len(log[s].lines) + (IF log[s].torn = 0 THEN 0 ELSE 1)
         /\ \A k \in Places(s) : k \in Nat \ {0}
         /\ \A k \in Places(s) : LineAt(s, k) \in Lines \cup {0}
         /\ \A k \in Places(s) : LineAt(s, k) # 0 => Passed(Size(s), k)
         /\ \A k \in Places(s) : Passed(Size(s), k) => LineAt(s, k) # 0
  <1>1. Len(log[s].lines) \in Nat /\ log[s].torn \in Lines \cup {0}
    BY DEF Logs
  <1>2. \A k \in 1 .. Len(log[s].lines) : log[s].lines[k] \in Lines
    BY DEF Logs
  <1>3. 0 \notin Lines /\ \A k \in Places(s) : k \in Nat \ {0}
    BY <1>1 DEF Lines, Places
  <1> DEFINE n == Len(log[s].lines)
             t == log[s].torn
  <1>4. /\ \A k \in 1 .. n : LineAt(s, k) \in Lines
        /\ LineAt(s, n + 1) = t
        /\ \A k \in Places(s) : k \in 1 .. n \/ k = n + 1
        /\ Size(s) = 2 * n + (IF t = 0 THEN 0 ELSE 1)
    BY <1>1, <1>2 DEF Size, Places, LineAt
  <1> HIDE DEF n, t
  <1>5. n \in Nat /\ t \in Lines \cup {0}
    BY <1>1 DEF n, t
  <1>6. /\ Size(s) \in Nat
        /\ \A k \in 1 .. n : 2 * k - 1 <= Size(s)
        /\ 2 * (n + 1) - 1 <= Size(s) <=> t # 0
    BY <1>4, <1>5
  <1>7. \A k \in Places(s) : LineAt(s, k) \in Lines \cup {0}
    BY <1>4, <1>5
  <1>8. \A k \in Places(s) : LineAt(s, k) # 0 <=> Passed(Size(s), k)
    BY <1>3, <1>4, <1>6 DEF Passed
  <1>9. QED
    BY <1>3, <1>4, <1>5, <1>6, <1>7, <1>8 DEF n, t

\* The content of a log is its lines.
LEMMA ContentIs ==
  ASSUME NEW s \in Sources, log[s] \in Logs
  PROVE  \A line : line \in Content(s) <=>
                     \E k \in Places(s) : line = LineAt(s, k) /\ line # 0
  <1>1. /\ Len(log[s].lines) \in Nat /\ log[s].torn \in Lines \cup {0}
        /\ DOMAIN log[s].lines = 1 .. Len(log[s].lines)
        /\ \A k \in 1 .. Len(log[s].lines) : log[s].lines[k] \in Lines
    BY DEF Logs
  <1>2. 0 \notin Lines
    BY DEF Lines
  <1> DEFINE n == Len(log[s].lines)
             f == log[s].lines
             t == log[s].torn
  <1>3. \A line : line \in Content(s) <=>
                    (\E k \in 1 .. n : line = f[k]) \/ (line = t /\ t # 0)
    BY <1>1 DEF Content, ToSet
  <1>4. /\ \A k \in 1 .. n : LineAt(s, k) = f[k] /\ k \in Places(s) /\ f[k] # 0
        /\ LineAt(s, n + 1) = t /\ n + 1 \in Places(s)
        /\ \A k \in Places(s) : k \in 1 .. n \/ k = n + 1
    BY <1>1, <1>2 DEF LineAt, Places
  <1> HIDE DEF n, f, t
  <1>5. QED
    BY <1>3, <1>4

\* Counting one index more.
LEMMA CountOne ==
  ASSUME NEW n \in Nat, NEW S \in SUBSET (1 .. n)
  PROVE  Cardinality(S) \in Nat /\ Cardinality(S \cup {n + 1}) = Cardinality(S) + 1
  <1>1. IsFiniteSet(1 .. n)
    <2>1. 1 \in Int /\ n \in Int
      OBVIOUS
    <2>2. QED
      BY <2>1, FS_Interval
  <1>2. IsFiniteSet(S)
    BY <1>1, FS_Subset
  <1>3. n + 1 \notin S
    OBVIOUS
  <1>4. QED
    BY <1>2, <1>3, FS_AddElement, FS_CardinalityType

\* What is published, and how often, after one more record.
LEMMA PublishOne ==
  ASSUME journal \in Seq([source : Sources, line : Lines]),
         NEW e \in [source : Sources, line : Lines],
         journal' = Append(journal, e)
  PROVE  /\ Published' = Published \cup {e.line}
         /\ \A line : line # e.line => Times(line)' = Times(line)
         /\ Times(e.line)' = Times(e.line) + 1
         /\ Times(e.line) \in Nat
  <1> DEFINE n == Len(journal)
             At(line) == {k \in 1 .. n : journal[k].line = line}
             Next0(line) == {k \in 1 .. n + 1 : journal'[k].line = line}
  <1>1. /\ n \in Nat /\ DOMAIN journal = 1 .. n /\ DOMAIN journal' = 1 .. n + 1
        /\ Len(journal') = n + 1
        /\ \A k \in 1 .. n : journal'[k] = journal[k]
        /\ journal'[n + 1] = e
    OBVIOUS
  <1>2. Published' = Published \cup {e.line}
    <2>1. \A x : x \in Published <=> \E k \in 1 .. n : x = journal[k].line
      BY <1>1 DEF Published, ToSet
    <2>2. \A x : x \in Published' <=> \E k \in 1 .. n + 1 : x = journal'[k].line
      BY <1>1 DEF Published, ToSet
    <2>3. \A x : x \in Published' <=> x \in Published \/ x = e.line
      BY <1>1, <2>1, <2>2
    <2>4. QED
      BY <2>3
  <1>3. \A line : Times(line) = Cardinality(At(line))
    BY DEF Times
  <1>4. \A line : Times(line)' = Cardinality(Next0(line))
    BY <1>1 DEF Times
  <1>5. \A line : line # e.line => Next0(line) = At(line)
    BY <1>1
  <1>6. Next0(e.line) = At(e.line) \cup {n + 1} /\ n + 1 \notin At(e.line)
    BY <1>1
  <1>7. At(e.line) \in SUBSET (1 .. n)
    OBVIOUS
  <1>8. /\ Cardinality(At(e.line) \cup {n + 1}) = Cardinality(At(e.line)) + 1
        /\ Cardinality(At(e.line)) \in Nat
    BY <1>1, <1>7, CountOne
  <1> HIDE DEF At, Next0
  <1>9. \A line : line # e.line => Times(line)' = Times(line)
    BY <1>3, <1>4, <1>5
  <1>10. Times(e.line)' = Times(e.line) + 1 /\ Times(e.line) \in Nat
    BY <1>3, <1>4, <1>6, <1>8
  <1>11. QED
    BY <1>2, <1>9, <1>10

(***************************************************************************)
(* The traders write and begin anew.                                       *)
(***************************************************************************)
\* A log keeps its lines where they are and may get a new one beyond its end,
\* or begins anew.
LogKept(s) ==
  /\ log'[s].epoch = log[s].epoch /\ log'[s].inode = log[s].inode
  /\ Size(s) <= Size(s)'
  /\ \A k \in Places(s)' :
       \/ LineAt(s, k)' = 0
       \/ k \in Places(s) /\ LineAt(s, k)' = LineAt(s, k)
       \/ /\ LineAt(s, k)' = nextLine /\ nextLine' = nextLine + 1
          /\ ~Passed(Size(s), k)

LogAnew(s) ==
  /\ log'[s].epoch = log[s].epoch + 1 /\ log'[s].inode # 0
  /\ \A k \in Places(s)' : LineAt(s, k)' = 0

\* No line is written twice.
NewOnce ==
  \E s, n : \A t \in Sources : \A k \in Places(t)' :
    LineAt(t, k)' = nextLine => t = s /\ k = n

LogsMove ==
  /\ log' \in [Sources -> Logs]
  /\ nextLine' \in 1 .. MaxLines + 1 /\ nextLine <= nextLine'
  /\ restarts' \in 0 .. MaxRestarts /\ restarts <= restarts'
  /\ \A s \in Sources : LogKept(s) \/ LogAnew(s)
  /\ \A s \in Sources : Size(s)' <= 2 * (nextLine' - 1)
  /\ \A s \in Sources : log'[s].epoch <= restarts' /\ log'[s].inode <= restarts' + 1
  /\ NewOnce

\* A log of a typed state, and what the invariant says of it.
LEMMA LogFacts ==
  ASSUME Typed, LinesInv, NEW s \in Sources
  PROVE  /\ log[s] \in Logs /\ log[s].lines \in Seq(Lines) /\ Len(log[s].lines) \in Nat
         /\ log[s].torn \in Lines \cup {0}
         /\ log[s].inode \in 0 .. MaxRestarts + 1 /\ log[s].epoch \in 0 .. MaxRestarts
         /\ log[s].inode \in Nat /\ log[s].epoch \in Nat
         /\ log[s].epoch <= restarts /\ log[s].inode <= restarts + 1
         /\ Size(s) \in Nat /\ Size(s) <= 2 * (nextLine - 1)
         /\ Size(s) = 2 * Len(log[s].lines) + (IF log[s].torn = 0 THEN 0 ELSE 1)
         /\ \A k \in Places(s) : k \in Nat \ {0}
         /\ \A k \in Places(s) : LineAt(s, k) \in Nat /\ LineAt(s, k) < nextLine
         /\ \A k \in Places(s) : LineAt(s, k) \in Lines \cup {0}
         /\ \A k \in Places(s) : LineAt(s, k) # 0 <=> Passed(Size(s), k)
  <1>1. log[s] \in Logs
    BY DEF Typed
  <1>2. /\ log[s].lines \in Seq(Lines) /\ log[s].torn \in Lines \cup {0}
        /\ log[s].inode \in 0 .. MaxRestarts + 1 /\ log[s].epoch \in 0 .. MaxRestarts
    BY <1>1 DEF Logs
  <1>3. log[s].inode \in Nat /\ log[s].epoch \in Nat
    BY <1>2, ConstantsAssumption
  <1>4. /\ log[s].epoch <= restarts /\ log[s].inode <= restarts + 1
        /\ Size(s) <= 2 * (nextLine - 1)
        /\ \A k \in Places(s) : LineAt(s, k) < nextLine
    BY DEF LinesInv
  <1>5. /\ Len(log[s].lines) \in Nat
        /\ Size(s) \in Nat
        /\ Size(s) = 2 * Len(log[s].lines) + (IF log[s].torn = 0 THEN 0 ELSE 1)
        /\ \A k \in Places(s) : k \in Nat \ {0}
        /\ \A k \in Places(s) : LineAt(s, k) \in Lines \cup {0}
        /\ \A k \in Places(s) : LineAt(s, k) # 0 => Passed(Size(s), k)
        /\ \A k \in Places(s) : Passed(Size(s), k) => LineAt(s, k) # 0
    BY <1>1, SizeOf
  <1>6. Lines \cup {0} \subseteq Nat
    BY DEF Lines
  <1>7. \A k \in Places(s) : LineAt(s, k) \in Nat
    BY <1>5, <1>6
  <1>8. QED
    BY <1>1, <1>2, <1>3, <1>4, <1>5, <1>7

\* The counters of a typed state.
LEMMA Counters ==
  ASSUME Typed
  PROVE  /\ nextLine \in 1 .. MaxLines + 1 /\ restarts \in 0 .. MaxRestarts
         /\ MaxLines \in Nat /\ MaxRestarts \in Nat
         /\ nextLine \in Nat /\ restarts \in Nat
  BY ConstantsAssumption DEF Typed, TypeOK

\* A log that no one writes.
LEMMA SameLog ==
  ASSUME Typed, LinesInv, NEW t \in Sources, log'[t] = log[t]
  PROVE  /\ LogKept(t)
         /\ Size(t)' = Size(t) /\ Places(t)' = Places(t)
         /\ \A k \in Places(t) : LineAt(t, k)' = LineAt(t, k)
  <1>1. Size(t)' = Size(t) /\ Places(t)' = Places(t)
    BY DEF Size, Places
  <1>2. \A k \in Places(t) : LineAt(t, k)' = LineAt(t, k)
    BY DEF LineAt
  <1>3. Size(t) \in Nat
    BY LogFacts
  <1>4. QED
    BY <1>1, <1>2, <1>3 DEF LogKept

\* One log is written: what has to be shown of it.
LEMMA OneLog ==
  ASSUME Typed, LinesInv, NEW s \in Sources, NEW new \in Logs,
         log' = [log EXCEPT ![s] = new],
         nextLine' \in 1 .. MaxLines + 1, nextLine <= nextLine',
         restarts' \in 0 .. MaxRestarts, restarts <= restarts',
         LogKept(s) \/ LogAnew(s),
         Size(s)' <= 2 * (nextLine' - 1),
         new.epoch <= restarts', new.inode <= restarts' + 1,
         NEW n, \A k \in Places(s)' : LineAt(s, k)' = nextLine => k = n
  PROVE  LogsMove
  <1>1. /\ log' \in [Sources -> Logs] /\ log'[s] = new
        /\ \A t \in Sources \ {s} : log'[t] = log[t]
    BY DEF Typed
  <1>2. /\ nextLine \in Nat /\ nextLine' \in Nat /\ restarts \in Nat /\ restarts' \in Nat
        /\ MaxRestarts \in Nat
    BY Counters
  <1>3. \A t \in Sources \ {s} : LogKept(t)
    BY <1>1, SameLog
  <1>4. ASSUME NEW t \in Sources \ {s}
        PROVE  /\ Size(t)' <= 2 * (nextLine' - 1)
               /\ log'[t].epoch <= restarts' /\ log'[t].inode <= restarts' + 1
    <2>1. /\ Size(t) <= 2 * (nextLine - 1) /\ log[t].epoch <= restarts
          /\ log[t].inode <= restarts + 1
          /\ Size(t) \in Nat /\ log[t].epoch \in Nat /\ log[t].inode \in Nat
      BY LogFacts
    <2>2. Size(t)' = Size(t) /\ log'[t] = log[t]
      BY <1>1, SameLog
    <2>3. QED
      BY <1>2, <2>1, <2>2
  <1>5. \A t \in Sources : \A k \in Places(t)' : LineAt(t, k)' = nextLine => t = s /\ k = n
    <2>1. ASSUME NEW t \in Sources \ {s}, NEW k \in Places(t)'
          PROVE  LineAt(t, k)' # nextLine
      <3>1. k \in Places(t) /\ LineAt(t, k)' = LineAt(t, k)
        BY <1>1, <2>1, SameLog
      <3>2. LineAt(t, k) < nextLine /\ LineAt(t, k) \in Nat
        BY <3>1, LogFacts
      <3>3. QED
        BY <1>2, <3>1, <3>2
    <2>2. QED
      BY <2>1
  <1>6. NewOnce
    BY <1>5 DEF NewOnce
  <1>7. \A t \in Sources : LogKept(t) \/ LogAnew(t)
    BY <1>3
  <1>8. \A t \in Sources : /\ Size(t)' <= 2 * (nextLine' - 1)
                           /\ log'[t].epoch <= restarts' /\ log'[t].inode <= restarts' + 1
    BY <1>1, <1>4
  <1>9. QED
    BY <1>1, <1>6, <1>7, <1>8 DEF LogsMove

\* The three steps of a trader.
LEMMA TraderWrites ==
  ASSUME Typed, LinesInv, NEW s \in Sources,
         BeginLine(s) \/ EndLine(s) \/ RestartTrader(s)
  PROVE  LogsMove
  <1>0. PICK old, n : old = log[s] /\ n = Len(log[s].lines)
    OBVIOUS
  <1>1. /\ old \in Logs /\ old.lines \in Seq(Lines) /\ n \in Nat /\ n = Len(old.lines)
        /\ old.inode \in 0 .. MaxRestarts + 1 /\ old.epoch \in 0 .. MaxRestarts
        /\ old.torn \in Lines \cup {0}
        /\ old.epoch <= restarts /\ old.inode <= restarts + 1
        /\ Size(s) = 2 * n + (IF old.torn = 0 THEN 0 ELSE 1) /\ Size(s) \in Nat
        /\ Size(s) <= 2 * (nextLine - 1)
    BY <1>0, LogFacts
  <1>2. /\ nextLine \in 1 .. MaxLines + 1 /\ restarts \in 0 .. MaxRestarts
        /\ MaxLines \in Nat /\ MaxRestarts \in Nat
        /\ nextLine \in Nat /\ restarts \in Nat /\ 0 \notin Lines
    BY Counters DEF Lines
  <1>3. \A k \in Places(s) : LineAt(s, k) < nextLine /\ LineAt(s, k) \in Nat
    BY LogFacts
  <1>4. Places(s) = 1 .. n + 1
    BY <1>0 DEF Places
  <1>5. CASE BeginLine(s)
    <2>1. PICK new : new = [old EXCEPT !.torn = nextLine]
      OBVIOUS
    <2>2. /\ log' = [log EXCEPT ![s] = new] /\ nextLine' = nextLine + 1
          /\ restarts' = restarts /\ old.torn = 0 /\ nextLine \in Lines
      BY <1>0, <1>5, <2>1 DEF BeginLine, Typed
    <2>3. new.epoch = old.epoch /\ new.inode = old.inode /\ new.lines = old.lines
      BY <1>1, <2>1 DEF Logs
    <2>4. new.torn = nextLine
      BY <1>1, <2>1 DEF Logs
    <2>5. new \in Logs
      BY <1>1, <2>1, <2>2 DEF Logs
    <2>6. log'[s] = new
      BY <2>2 DEF Typed
    <2>7. Places(s)' = 1 .. n + 1
      BY <1>1, <2>3, <2>6 DEF Places
    <2>8. Size(s)' = 2 * n + 1
      BY <1>1, <1>2, <2>2, <2>3, <2>4, <2>6 DEF Size
    <2>9. \A k \in 1 .. n : LineAt(s, k)' = LineAt(s, k)
      BY <1>0, <1>1, <2>3, <2>6 DEF LineAt
    <2>10. LineAt(s, n + 1)' = nextLine
      BY <1>1, <2>3, <2>4, <2>6 DEF LineAt
    <2>11. ~Passed(Size(s), n + 1)
      BY <1>1, <2>2 DEF Passed
    <2>12. \A k \in Places(s)' : \/ k \in 1 .. n /\ k \in Places(s)
                                 \/ k = n + 1
      BY <1>1, <1>4, <2>7
    <2>13. Size(s) <= Size(s)'
      BY <1>1, <2>2, <2>8
    <2>14. LogKept(s)
      BY <1>0, <2>2, <2>3, <2>6, <2>9, <2>10, <2>11, <2>12, <2>13 DEF LogKept
    <2>15. \A k \in Places(s)' : LineAt(s, k)' = nextLine => k = n + 1
      BY <1>2, <1>3, <2>9, <2>12
    <2>16. Size(s)' <= 2 * (nextLine' - 1)
      BY <1>1, <1>2, <2>2, <2>8
    <2>17. /\ nextLine' \in 1 .. MaxLines + 1 /\ nextLine <= nextLine'
           /\ restarts' \in 0 .. MaxRestarts /\ restarts <= restarts'
      BY <1>2, <2>2 DEF Lines
    <2>18. new.epoch <= restarts' /\ new.inode <= restarts' + 1
      BY <1>1, <2>2, <2>3
    <2>19. QED
      BY <2>2, <2>5, <2>14, <2>15, <2>16, <2>17, <2>18, OneLog
  <1>6. CASE EndLine(s)
    <2>1. PICK new : new = [old EXCEPT !.lines = Append(@, old.torn), !.torn = 0]
      OBVIOUS
    <2>2. /\ log' = [log EXCEPT ![s] = new] /\ nextLine' = nextLine
          /\ restarts' = restarts /\ old.torn # 0
      BY <1>0, <1>6, <2>1 DEF EndLine, Typed
    <2>3. /\ new.epoch = old.epoch /\ new.inode = old.inode
          /\ new.lines = Append(old.lines, old.torn)
      BY <1>1, <2>1 DEF Logs
    <2>4. new.torn = 0
      BY <1>1, <2>1 DEF Logs
    <2>5. old.torn \in Lines
      BY <1>1, <2>2
    <2>6. Append(old.lines, old.torn) \in Seq(Lines)
      BY <1>1, <2>5
    <2>7. new \in Logs
      BY <1>1, <2>1, <2>6 DEF Logs
    <2>8. log'[s] = new
      BY <2>2 DEF Typed
    <2>9. /\ Len(new.lines) = n + 1 /\ new.lines[n + 1] = old.torn
          /\ \A k \in 1 .. n : new.lines[k] = old.lines[k]
      BY <1>1, <2>3, <2>5
    <2>10. Places(s)' = 1 .. n + 2
      BY <1>1, <2>8, <2>9 DEF Places
    <2>11. Size(s)' = 2 * n + 2
      BY <1>1, <2>4, <2>8, <2>9 DEF Size
    <2>12. \A k \in 1 .. n : LineAt(s, k)' = LineAt(s, k)
      BY <1>0, <1>1, <2>8, <2>9 DEF LineAt
    <2>13. LineAt(s, n + 1)' = LineAt(s, n + 1)
      BY <1>0, <1>1, <2>8, <2>9 DEF LineAt
    <2>14. LineAt(s, n + 2)' = 0
      BY <1>1, <2>4, <2>8, <2>9 DEF LineAt
    <2>15. \A k \in Places(s)' : \/ k \in Places(s) /\ (k \in 1 .. n \/ k = n + 1)
                                 \/ k = n + 2
      BY <1>1, <1>4, <2>10
    <2>16. Size(s) <= Size(s)'
      BY <1>1, <2>2, <2>11
    <2>17. LogKept(s)
      BY <1>0, <2>3, <2>8, <2>12, <2>13, <2>14, <2>15, <2>16 DEF LogKept
    <2>18. \A k \in Places(s)' : LineAt(s, k)' = nextLine => k = 0
      <3>1. nextLine # 0
        BY <1>2
      <3>2. QED
        BY <1>2, <1>3, <2>12, <2>13, <2>14, <2>15, <3>1
    <2>19. Size(s)' <= 2 * (nextLine' - 1)
      BY <1>1, <1>2, <2>2, <2>11
    <2>20. /\ nextLine' \in 1 .. MaxLines + 1 /\ nextLine <= nextLine'
           /\ restarts' \in 0 .. MaxRestarts /\ restarts <= restarts'
      BY <1>2, <2>2
    <2>21. new.epoch <= restarts' /\ new.inode <= restarts' + 1
      BY <1>1, <2>2, <2>3
    <2>22. QED
      BY <2>2, <2>7, <2>17, <2>18, <2>19, <2>20, <2>21, OneLog
  <1>7. CASE RestartTrader(s)
    <2>1. PICK inode \in {old.inode, restarts + 2} \ {0} :
            log' = [log EXCEPT ![s] =
                      [NoLog EXCEPT !.inode = inode, !.epoch = old.epoch + 1]]
      BY <1>0, <1>7 DEF RestartTrader
    <2>2. restarts < MaxRestarts /\ restarts' = restarts + 1 /\ nextLine' = nextLine
      BY <1>7 DEF RestartTrader
    <2>3. PICK new : new = [NoLog EXCEPT !.inode = inode, !.epoch = old.epoch + 1]
      OBVIOUS
    <2>4. new = [inode |-> inode, lines |-> <<>>, torn |-> 0, epoch |-> old.epoch + 1]
      BY <2>3 DEF NoLog
    <2>5. /\ new.epoch = old.epoch + 1 /\ new.inode = inode /\ new.inode # 0
          /\ new.lines = <<>> /\ new.torn = 0
      BY <2>1, <2>4
    <2>6. /\ old.epoch + 1 \in 0 .. MaxRestarts /\ inode \in 0 .. MaxRestarts + 1
          /\ old.epoch + 1 <= restarts' /\ inode <= restarts' + 1
      <3>1. old.epoch \in Nat /\ old.inode \in Nat
        BY <1>1, <1>2
      <3>2. old.epoch + 1 \in 0 .. MaxRestarts /\ old.epoch + 1 <= restarts'
        BY <1>1, <1>2, <2>2, <3>1
      <3>3. CASE inode = old.inode
        BY <1>1, <1>2, <2>2, <3>1, <3>2, <3>3
      <3>4. CASE inode = restarts + 2
        BY <1>2, <2>2, <3>2, <3>4
      <3>5. QED
        BY <3>3, <3>4
    <2>7. new \in Logs
      <3>1. <<>> \in Seq(Lines) /\ 0 \in Lines \cup {0}
        OBVIOUS
      <3>2. PICK none \in Seq(Lines) : none = <<>>
        BY <3>1
      <3>3. new = [inode |-> inode, lines |-> none, torn |-> 0, epoch |-> old.epoch + 1]
        BY <2>4, <3>2
      <3>4. QED
        BY <2>6, <3>3 DEF Logs
    <2>8. log' = [log EXCEPT ![s] = new] /\ log'[s] = new
      BY <2>1, <2>3 DEF Typed
    <2>9. Size(s)' = 0 /\ Places(s)' = 1 .. 1
      <3>1. Len(new.lines) = 0
        BY <2>5
      <3>2. log'[s].lines = new.lines /\ log'[s].torn = 0
        BY <2>5, <2>8
      <3>3. QED
        BY <3>1, <3>2 DEF Size, Places
    <2>10. LineAt(s, 1)' = 0
      BY <2>5, <2>8 DEF LineAt
    <2>11. \A k \in Places(s)' : k = 1
      BY <2>9
    <2>12. LogAnew(s)
      BY <1>0, <2>5, <2>8, <2>10, <2>11 DEF LogAnew
    <2>13. Size(s)' <= 2 * (nextLine' - 1)
      BY <1>2, <2>2, <2>9
    <2>14. /\ nextLine' \in 1 .. MaxLines + 1 /\ nextLine <= nextLine'
           /\ restarts' \in 0 .. MaxRestarts /\ restarts <= restarts'
      BY <1>2, <2>2
    <2>15. QED
      BY <2>5, <2>6, <2>7, <2>8, <2>11, <2>12, <2>13, <2>14, OneLog
  <1>8. QED
    BY <1>5, <1>6, <1>7

(***************************************************************************)
(* What the other parts of the invariant make of it.                       *)
(***************************************************************************)
\* What is not in the journal was published no times.
LEMMA PublishedFacts ==
  ASSUME journal \in Seq([source : Sources, line : Lines])
  PROVE  /\ Published \subseteq Lines
         /\ \A line : Times(line) \in Nat
         /\ \A line : line \notin Published => Times(line) = 0
  <1> DEFINE n == Len(journal)
             At(line) == {k \in 1 .. n : journal[k].line = line}
  <1>1. /\ n \in Nat /\ DOMAIN journal = 1 .. n
        /\ \A k \in 1 .. n : journal[k] \in [source : Sources, line : Lines]
    <2>1. \A T : \A q \in Seq(T) :
            Len(q) \in Nat /\ DOMAIN q = 1 .. Len(q) /\ \A k \in 1 .. Len(q) : q[k] \in T
      OBVIOUS
    <2>2. QED
      BY <2>1
  <1>2. \A x : x \in Published <=> \E k \in 1 .. n : x = journal[k].line
    BY <1>1 DEF Published, ToSet
  <1>3. \A line : Times(line) = Cardinality(At(line))
    BY DEF Times
  <1>9. \A line : At(line) \in SUBSET (1 .. n)
    OBVIOUS
  <1>4. \A line : line \notin Published => At(line) = {}
    BY <1>2
  <1>5. Published \subseteq Lines
    BY <1>1, <1>2
  <1> HIDE DEF n, At
  <1>6. Cardinality({}) = 0
    BY FS_EmptySet
  <1>7. \A line : Times(line) \in Nat
    BY <1>1, <1>3, <1>9, CountOne
  <1>8. QED
    BY <1>3, <1>4, <1>5, <1>6, <1>7

\* The rest of a typed state.
LEMMA ReaderTypes ==
  ASSUME Typed
  PROVE  /\ journal \in Seq([source : Sources, line : Lines])
         /\ Published \subseteq Lines /\ ignored \subseteq Lines
         /\ \A line : Times(line) \in Nat
         /\ \A line : line \notin Published => Times(line) = 0
         /\ Lines \subseteq Nat /\ 0 \notin Lines
         /\ saved \in [Sources -> Cursors] /\ cursors \in [Sources -> Cursors]
         /\ \A c \in Cursors : c.offset \in Nat /\ c.inode \in Nat /\ c.epoch \in Nat
         /\ source \in Sources /\ offset \in Nat /\ opened \in Nat /\ crashes \in Nat
         /\ NSources \in Nat /\ Sources = 1 .. NSources
  <1>1. /\ journal \in Seq([source : Sources, line : Lines]) /\ ignored \subseteq Lines
        /\ saved \in [Sources -> Cursors] /\ cursors \in [Sources -> Cursors]
        /\ source \in Sources /\ offset \in 0 .. 2 * MaxLines /\ opened \in 0 .. MaxRestarts
        /\ crashes \in 0 .. MaxCrashes
    BY DEF Typed, TypeOK
  <1>2. MaxLines \in Nat /\ MaxRestarts \in Nat /\ MaxCrashes \in Nat /\ NSources \in Nat
    BY ConstantsAssumption
  <1>3. \A c \in Cursors : c.offset \in Nat /\ c.inode \in Nat /\ c.epoch \in Nat
    BY <1>2 DEF Cursors
  <1>4. offset \in Nat /\ opened \in Nat /\ crashes \in Nat
    BY <1>1, <1>2
  <1>5. Lines \subseteq Nat /\ 0 \notin Lines
    BY DEF Lines
  <1>6. QED
    BY <1>1, <1>2, <1>3, <1>4, <1>5, PublishedFacts DEF Sources

\* A line found after the step of a trader was there, or is new to everyone.
LEMMA LinesAfter ==
  ASSUME Typed, LinesInv, LogsMove, UNCHANGED <<journal, ignored>>,
         NEW s \in Sources, NEW k \in Places(s)', LineAt(s, k)' # 0
  PROVE  /\ LogKept(s)
         /\ \/ k \in Places(s) /\ LineAt(s, k)' = LineAt(s, k)
            \/ /\ LineAt(s, k)' = nextLine /\ nextLine' = nextLine + 1
               /\ ~Passed(Size(s), k) /\ nextLine \notin Published \cup ignored
  <1>1. LogKept(s)
    BY DEF LogsMove, LogAnew
  <1>2. nextLine \notin Published \cup ignored
    <2>1. \A line \in Published \cup ignored : line < nextLine
      BY DEF LinesInv
    <2>2. QED
      BY <2>1, Counters
  <1>3. QED
    BY <1>1, <1>2 DEF LogKept

\* Every line is still written once.
LEMMA LinesStep ==
  ASSUME Typed, LinesInv, LogsMove, UNCHANGED <<journal, ignored>>
  PROVE  LinesInv'
  <1>1. /\ nextLine \in Nat /\ nextLine' \in Nat /\ nextLine <= nextLine'
    BY Counters DEF LogsMove
  <1>2. \A s \in Sources : Size(s)' <= 2 * (nextLine' - 1)
    BY DEF LogsMove
  <1>3. \A s \in Sources : log'[s].epoch <= restarts' /\ log'[s].inode <= restarts' + 1
    BY DEF LogsMove
  <1>4. ASSUME NEW line \in Published \cup ignored
        PROVE  line < nextLine'
    <2>1. line < nextLine /\ line \in Nat
      BY ReaderTypes DEF LinesInv
    <2>2. QED
      BY <1>1, <2>1
  <1>5. Published' = Published
    BY DEF Published
  <1>6. ASSUME NEW s \in Sources, NEW k \in Places(s)'
        PROVE  LineAt(s, k)' < nextLine'
    <2>1. CASE LineAt(s, k)' = 0
      BY <1>1, <2>1, Counters DEF LogsMove
    <2>2. CASE k \in Places(s) /\ LineAt(s, k)' = LineAt(s, k)
      <3>1. LineAt(s, k) < nextLine /\ LineAt(s, k) \in Nat
        BY <2>2, LogFacts
      <3>2. QED
        BY <1>1, <2>2, <3>1
    <2>3. CASE LineAt(s, k)' = nextLine /\ nextLine' = nextLine + 1
      BY <1>1, <2>3
    <2>4. QED
      BY <2>1, <2>2, <2>3, LinesAfter
  <1>7. ASSUME NEW s \in Sources, NEW t \in Sources,
               NEW j \in Places(s)', NEW k \in Places(t)',
               LineAt(s, j)' = LineAt(t, k)', LineAt(s, j)' # 0
        PROVE  s = t /\ j = k
    <2>1. CASE LineAt(s, j)' = nextLine
      BY <1>7, <2>1 DEF LogsMove, NewOnce
    <2>2. CASE LineAt(s, j)' # nextLine
      <3>1. j \in Places(s) /\ LineAt(s, j)' = LineAt(s, j)
        BY <1>7, <2>2, LinesAfter
      <3>2. k \in Places(t) /\ LineAt(t, k)' = LineAt(t, k)
        BY <1>7, <2>2, LinesAfter
      <3>3. /\ LineAt(s, j) = LineAt(t, k) /\ LineAt(s, j) # 0
        BY <1>7, <3>1, <3>2
      <3>4. \A a, b \in Sources : \A i \in Places(a), l \in Places(b) :
              LineAt(a, i) = LineAt(b, l) /\ LineAt(a, i) # 0 => a = b /\ i = l
        BY DEF LinesInv
      <3>5. QED
        BY <3>1, <3>2, <3>3, <3>4
    <2>3. QED
      BY <2>1, <2>2
  <1>8. QED
    BY <1>2, <1>3, <1>4, <1>5, <1>6, <1>7 DEF LinesInv

\* The size of a log after the step.
LEMMA SizeAfter ==
  ASSUME LogsMove, NEW s \in Sources
  PROVE  Size(s)' \in Nat
  <1>1. PICK new \in Logs : new = log'[s]
    BY DEF LogsMove
  <1>2. Len(new.lines) \in Nat
    BY DEF Logs
  <1>3. PICK n \in Nat : n = Len(log'[s].lines)
    BY <1>1, <1>2
  <1>4. Size(s)' = 2 * n + (IF log'[s].torn = 0 THEN 0 ELSE 1)
    BY <1>3 DEF Size
  <1>5. QED
    BY <1>4

\* An offset in a log and what is known of it stay when a trader writes.
LEMMA OffsetKept ==
  ASSUME Typed, LinesInv, LogsMove, UNCHANGED <<journal, ignored, skipped>>,
         NEW s \in Sources, NEW at \in Nat, NEW before \in BOOLEAN, NEW after \in BOOLEAN,
         LogKept(s) => after = before, LogAnew(s) => ~after,
         before => at <= Size(s)
  PROVE  /\ after => at <= Size(s)'
         /\ (before /\ ~skipped[s] => Known(at, s)) =>
              (after /\ ~skipped[s] => Known(at, s)')
         /\ IgnoredPassed(at, s, before) => IgnoredPassed(at, s, after)'
  <1>1. after => LogKept(s) /\ before
    BY DEF LogsMove
  <1>2. after => at <= Size(s)'
    <2>1. SUFFICES ASSUME after PROVE at <= Size(s)'
      OBVIOUS
    <2>2. Size(s) <= Size(s)' /\ at <= Size(s)
      BY <1>1, <2>1 DEF LogKept
    <2>3. Size(s)' \in Nat
      BY SizeAfter
    <2>4. Size(s) \in Nat
      BY LogFacts
    <2>5. QED
      BY <2>2, <2>3, <2>4
  <1>3. ASSUME NEW k \in Places(s)', LineAt(s, k)' # 0, LineAt(s, k)' # nextLine
        PROVE  /\ k \in Places(s) /\ LineAt(s, k)' = LineAt(s, k)
               /\ LogKept(s) /\ after = before
    BY <1>3, LinesAfter
  <1>4. ASSUME NEW k \in Places(s)', LineAt(s, k)' = nextLine, before
        PROVE  ~Passed(at, k)
    <2>1. nextLine # 0 /\ k \in Places(s) /\ LineAt(s, k)' = LineAt(s, k) => FALSE
      <3>1. \A j \in Places(s) : LineAt(s, j) \in Nat /\ LineAt(s, j) < nextLine
        BY LogFacts
      <3>2. QED
        BY <1>4, <3>1, Counters
    <2>2. nextLine # 0
      BY Counters
    <2>3. ~Passed(Size(s), k)
      BY <1>4, <2>1, <2>2, LinesAfter
    <2>4. k \in Nat
      BY DEF Places
    <2>5. QED
      BY <1>4, <2>3, <2>4, PassedBounds, LogFacts
  <1>5. ASSUME before /\ ~skipped[s] => Known(at, s), after, ~skipped[s]
        PROVE  Known(at, s)'
    <2>1. ASSUME NEW k \in Places(s)', Passed(at, k), LineAt(s, k)' # 0
          PROVE  LineAt(s, k)' \in Published' \cup ignored' \cup Noise
      <3>1. k \in Places(s) /\ LineAt(s, k)' = LineAt(s, k)
        BY <1>1, <1>3, <1>4, <1>5, <2>1
      <3>2. Known(at, s)
        BY <1>1, <1>5
      <3>3. LineAt(s, k) \in Published \cup ignored \cup Noise
        BY <2>1, <3>1, <3>2 DEF Known
      <3>4. Published' = Published
        BY DEF Published
      <3>5. QED
        BY <3>1, <3>3, <3>4
    <2>2. QED
      BY <2>1 DEF Known, Passed
  <1>6. ASSUME IgnoredPassed(at, s, before)
        PROVE  IgnoredPassed(at, s, after)'
    <2>1. ASSUME NEW k \in Places(s)', LineAt(s, k)' \in ignored'
          PROVE  after /\ Passed(at, k)
      <3>1. 0 \notin ignored /\ nextLine \notin ignored
        <4>1. \A line \in ignored : line \in Nat /\ line < nextLine
          BY ReaderTypes DEF LinesInv
        <4>2. QED
          BY <4>1, ReaderTypes, Counters
      <3>2. k \in Places(s) /\ LineAt(s, k)' = LineAt(s, k) /\ after = before
        BY <1>3, <2>1, <3>1
      <3>3. QED
        BY <1>6, <2>1, <3>2 DEF IgnoredPassed
    <2>2. QED
      BY <2>1 DEF IgnoredPassed, Passed
  <1>7. QED
    BY <1>2, <1>5, <1>6

\* A cursor of a log is as right after the step.
LEMMA CursorKept ==
  ASSUME Typed, LinesInv, LogsMove, UNCHANGED <<journal, ignored, skipped>>,
         NEW s \in Sources, NEW c \in Cursors, CursorInv(c, s)
  PROVE  CursorInv(c, s)'
  <1>1. /\ c.offset \in Nat /\ c.epoch \in Nat /\ c.inode \in Nat
        /\ log[s].epoch \in Nat
    BY ReaderTypes, LogFacts
  <1>2. LogKept(s) \/ LogAnew(s)
    BY DEF LogsMove
  <1>3. PICK before \in BOOLEAN : before = Matches(c, s)
    BY DEF Matches
  <1>4. PICK after \in BOOLEAN : after = Matches(c, s)'
    BY DEF Matches
  <1>5. LogKept(s) => after = before
    BY <1>3, <1>4 DEF LogKept, Matches
  <1>6. LogAnew(s) => ~after
    <2>1. c.epoch <= log[s].epoch
      BY DEF CursorInv
    <2>2. LogAnew(s) => c.epoch # log'[s].epoch
      BY <1>1, <2>1 DEF LogAnew
    <2>3. QED
      BY <1>4, <2>2 DEF Matches
  <1>7. before => c.offset <= Size(s)
    BY <1>3 DEF CursorInv
  <1>8. /\ after => c.offset <= Size(s)'
        /\ (before /\ ~skipped[s] => Known(c.offset, s)) =>
             (after /\ ~skipped[s] => Known(c.offset, s)')
        /\ IgnoredPassed(c.offset, s, before) => IgnoredPassed(c.offset, s, after)'
    BY <1>1, <1>5, <1>6, <1>7, OffsetKept
  <1>9. c.epoch <= log'[s].epoch
    BY <1>1, <1>2 DEF CursorInv, LogKept, LogAnew
  <1>10. c.inode # 0 => Exists(s)'
    BY <1>2 DEF CursorInv, Exists, LogKept, LogAnew
  <1>11. (before /\ ~skipped[s] => Known(c.offset, s))
    BY <1>3 DEF CursorInv
  <1>12. ~IsFresh(c) => IgnoredPassed(c.offset, s, before)
    BY <1>3 DEF CursorInv
  <1>13. IsFresh(c)' = IsFresh(c) /\ Fresh' = Fresh
    BY DEF IsFresh, Fresh
  <1>14. Matches(c, s)' => c.offset <= Size(s)'
    BY <1>4, <1>8
  <1>15. Matches(c, s)' /\ ~skipped'[s] => Known(c.offset, s)'
    BY <1>4, <1>8, <1>11
  <1>16. ~IsFresh(c) => IgnoredPassed(c.offset, s, Matches(c, s))'
    BY <1>4, <1>8, <1>12 DEF IgnoredPassed
  <1>17. c.inode = 0 => c = Fresh
    BY DEF CursorInv
  <1>18. QED
    BY <1>9, <1>10, <1>13, <1>14, <1>15, <1>16, <1>17 DEF CursorInv

\* So is the handle the sidecar has open.
LEMMA HandleKept ==
  ASSUME Typed, LinesInv, HandleInv, LogsMove, UNCHANGED <<durable, process, history>>
  PROVE  HandleInv'
  <1>1. /\ journal' = journal /\ saved' = saved /\ cursors' = cursors /\ pc' = pc
        /\ source' = source /\ offset' = offset /\ opened' = opened
        /\ ignored' = ignored /\ skipped' = skipped
    BY DEF durable, process, history
  <1>2. source \in Sources /\ offset \in Nat /\ opened \in Nat
    BY ReaderTypes
  <1>3. ASSUME pc = "read"
        PROVE  /\ Exists(source)' /\ opened <= log'[source].epoch
               /\ StartAtEnd => ~IsFresh(saved[source])
               /\ opened = log'[source].epoch => offset <= Size(source)'
               /\ opened = log'[source].epoch /\ ~skipped[source] => Known(offset, source)'
               /\ IgnoredPassed(offset, source, opened = log[source].epoch)'
    <2>1. PICK s \in Sources, at \in Nat, e \in Nat :
            s = source /\ at = offset /\ e = opened
      BY <1>2
    <2>2. /\ Exists(s) /\ e <= log[s].epoch
          /\ StartAtEnd => ~IsFresh(saved[s])
          /\ e = log[s].epoch => at <= Size(s)
          /\ e = log[s].epoch /\ ~skipped[s] => Known(at, s)
          /\ IgnoredPassed(at, s, e = log[s].epoch)
      BY <1>3, <2>1 DEF HandleInv
    <2>3. PICK before \in BOOLEAN : before = (e = log[s].epoch)
      OBVIOUS
    <2>4. PICK after \in BOOLEAN : after = (e = log'[s].epoch)
      OBVIOUS
    <2>5. LogKept(s) \/ LogAnew(s)
      BY DEF LogsMove
    <2>6. log[s].epoch \in Nat
      BY LogFacts
    <2>7. LogKept(s) => after = before
      BY <2>3, <2>4 DEF LogKept
    <2>8. LogAnew(s) => ~after
      <3>1. LogAnew(s) => e # log'[s].epoch
        BY <2>2, <2>6 DEF LogAnew
      <3>2. QED
        BY <2>4, <3>1
    <2>9. before => at <= Size(s)
      BY <2>2, <2>3
    <2>10. /\ after => at <= Size(s)'
           /\ (before /\ ~skipped[s] => Known(at, s)) => (after /\ ~skipped[s] => Known(at, s)')
           /\ IgnoredPassed(at, s, before) => IgnoredPassed(at, s, after)'
      BY <1>1, <2>7, <2>8, <2>9, OffsetKept
    <2>11. Exists(s)' /\ e <= log'[s].epoch
      BY <2>2, <2>5, <2>6 DEF Exists, LogKept, LogAnew
    <2>12. after /\ ~skipped[s] => Known(at, s)'
      BY <2>2, <2>3, <2>10
    <2>13. IgnoredPassed(at, s, after)'
      BY <2>2, <2>3, <2>10
    <2>14. s = source' /\ at = offset' /\ e = opened'
      BY <1>1, <2>1
    <2>15. Exists(source)'
      BY <2>11, <2>14 DEF Exists
    <2>16. Size(source)' = Size(s)'
      BY <2>14 DEF Size
    <2>17. Known(at, s)' => Known(offset, source)'
      BY <2>14 DEF Known, Places, LineAt
    <2>18. IgnoredPassed(offset, source, opened = log[source].epoch)'
      BY <2>4, <2>13, <2>14 DEF IgnoredPassed, Places, LineAt
    <2>19. QED
      BY <2>1, <2>2, <2>4, <2>10, <2>11, <2>12, <2>15, <2>16, <2>17, <2>18
  <1>4. pc \in {"open", "read"} => \A t \in source .. NSources : cursors[t] = saved[t]
    BY DEF HandleInv
  <1>5. IsFresh(saved[source])' = IsFresh(saved[source])
    BY <1>1 DEF IsFresh
  <1>6. (pc # "down" => \A s \in Sources : IsFresh(cursors[s]) => IsFresh(saved[s]))'
    BY <1>1 DEF HandleInv, IsFresh
  <1>7. QED
    BY <1>1, <1>3, <1>4, <1>5, <1>6 DEF HandleInv

\* Nothing that was published is in a log the sidecar has not attached to.
LEMMA HistoryKept ==
  ASSUME Typed, LinesInv, HistoryInv, LogsMove, UNCHANGED <<durable, process, history>>
  PROVE  HistoryInv'
  <1>1. journal' = journal /\ saved' = saved /\ ignored' = ignored
    BY DEF durable, history
  <1>2. Published' = Published
    BY <1>1 DEF Published
  <1>3. ASSUME StartAtEnd, NEW s \in Sources, IsFresh(saved[s]), NEW k \in Places(s)'
        PROVE  LineAt(s, k)' \notin Published
    <2>1. CASE LineAt(s, k)' = 0
      BY <2>1, ReaderTypes
    <2>2. CASE LineAt(s, k)' # 0
      <3>1. CASE k \in Places(s) /\ LineAt(s, k)' = LineAt(s, k)
        BY <1>3, <3>1 DEF HistoryInv
      <3>2. CASE LineAt(s, k)' = nextLine /\ nextLine \notin Published
        BY <3>2
      <3>3. QED
        BY <1>1, <2>2, <3>1, <3>2, LinesAfter
    <2>3. QED
      BY <2>1, <2>2
  <1>4. \A s \in Sources : IsFresh(saved[s])' = IsFresh(saved[s])
    BY <1>1 DEF IsFresh
  <1>5. ignored \cap Published = {} /\ (~StartAtEnd => ignored = {})
    BY DEF HistoryInv
  <1>6. QED
    BY <1>1, <1>2, <1>3, <1>4, <1>5 DEF HistoryInv

\* A new line has not been published, and a handle that was past a line is
\* still.
LEMMA ReplayKept ==
  ASSUME Typed, LinesInv, ReplayInv, LogsMove, UNCHANGED <<durable, process, history>>
  PROVE  ReplayInv'
  <1>1. /\ journal' = journal /\ cursors' = cursors /\ pc' = pc /\ source' = source
        /\ offset' = offset /\ crashes' = crashes /\ ignored' = ignored
    BY DEF durable, process, history
  <1>2. \A line : Times(line)' = Times(line)
    BY <1>1 DEF Times
  <1>3. ASSUME pc # "down", NEW s \in Sources, NEW k \in Places(s)', LineAt(s, k)' # 0
        PROVE  Times(LineAt(s, k)') <= crashes \/ Behind(s, k)'
    <2>1. CASE k \in Places(s) /\ LineAt(s, k)' = LineAt(s, k) /\ LogKept(s)
      <3>1. Times(LineAt(s, k)) <= crashes \/ Behind(s, k)
        BY <1>3, <2>1 DEF ReplayInv
      <3>2. ASSUME Behind(s, k) PROVE Behind(s, k)'
        <4>1. log'[s].inode = log[s].inode /\ Size(s) <= Size(s)'
          BY <2>1 DEF LogKept
        <4>2. \A at \in Nat : at <= Size(s) => at <= Size(s)'
          <5>1. Size(s)' \in Nat /\ Size(s) \in Nat
            BY SizeAfter, LogFacts
          <5>2. QED
            BY <4>1, <5>1
        <4>3. offset \in Nat /\ cursors[s].offset \in Nat
          BY ReaderTypes
        <4>4. QED
          BY <1>1, <3>2, <4>1, <4>2, <4>3 DEF Behind, Passed
      <3>3. QED
        BY <2>1, <3>1, <3>2
    <2>2. CASE LineAt(s, k)' = nextLine /\ nextLine \notin Published
      <3>1. Times(nextLine) = 0 /\ crashes \in Nat
        BY <2>2, ReaderTypes
      <3>2. QED
        BY <2>2, <3>1
    <2>3. QED
      BY <1>1, <1>3, <2>1, <2>2, LinesAfter
  <1>4. \A line \in Lines : Times(line) <= 1 + crashes
    BY DEF ReplayInv
  <1>5. pc = "down" => \A line \in Lines : Times(line) <= crashes
    BY DEF ReplayInv
  <1>6. ASSUME pc' # "down", NEW s \in Sources, NEW k \in Places(s)', LineAt(s, k)' # 0
        PROVE  Times(LineAt(s, k))' <= crashes' \/ Behind(s, k)'
    BY <1>1, <1>2, <1>3, <1>6
  <1>7. QED
    BY <1>1, <1>2, <1>4, <1>5, <1>6 DEF ReplayInv

\* The types after a step of a trader.
LEMMA TypesKept ==
  ASSUME Typed, LogsMove, UNCHANGED <<durable, process, history>>
  PROVE  Typed'
  <1>1. /\ log' \in [Sources -> Logs] /\ nextLine' \in 1 .. MaxLines + 1
        /\ restarts' \in 0 .. MaxRestarts
    BY DEF LogsMove
  <1>2. \A s \in Sources : /\ log'[s].inode \in 0 .. MaxRestarts + 1
                           /\ log'[s].lines \in Seq(Lines)
                           /\ log'[s].torn \in Lines \cup {0}
                           /\ log'[s].epoch \in 0 .. MaxRestarts
    BY <1>1 DEF Logs
  <1>3. QED
    BY <1>1, <1>2 DEF Typed, TypeOK, durable, process, history

\* A step of a trader keeps the invariant.
LEMMA TraderStep ==
  ASSUME SInv, LogsMove, UNCHANGED <<durable, process, history>>
  PROVE  SInv'
  <1>1. Typed /\ LinesInv /\ HandleInv /\ HistoryInv /\ ReplayInv
    BY DEF SInv
  <1>2. journal' = journal /\ ignored' = ignored /\ skipped' = skipped
        /\ saved' = saved /\ cursors' = cursors
    BY DEF durable, process, history
  <1>3. ASSUME NEW s \in Sources
        PROVE  CursorInv(saved[s], s)' /\ CursorInv(cursors[s], s)'
    <2>1. PICK c \in Cursors, d \in Cursors : c = saved[s] /\ d = cursors[s]
      BY <1>1, ReaderTypes
    <2>2. CursorInv(c, s) /\ CursorInv(d, s)
      BY <2>1 DEF SInv
    <2>3. CursorInv(c, s)' /\ CursorInv(d, s)'
      BY <1>1, <1>2, <2>2, CursorKept
    <2>4. c = saved'[s] /\ d = cursors'[s]
      BY <1>2, <2>1
    <2>5. QED
      BY <2>3, <2>4
  <1>4. Typed' /\ LinesInv' /\ HandleInv' /\ HistoryInv' /\ ReplayInv'
    BY <1>1, <1>2, TypesKept, LinesStep, HandleKept, HistoryKept, ReplayKept
  <1>5. QED
    BY <1>3, <1>4 DEF SInv

(***************************************************************************)
(* The sidecar.                                                            *)
(***************************************************************************)
\* The logs while the sidecar moves.
LEMMA LogsSame ==
  ASSUME UNCHANGED logs
  PROVE  /\ log' = log /\ nextLine' = nextLine /\ restarts' = restarts
         /\ \A s : Size(s)' = Size(s) /\ Places(s)' = Places(s) /\ Exists(s)' = Exists(s)
         /\ \A s, k : LineAt(s, k)' = LineAt(s, k)
  BY DEF logs, Size, Places, Exists, LineAt

\* Every line is still written once.
LEMMA LinesUnmoved ==
  ASSUME Typed, LinesInv, UNCHANGED logs,
         \A line \in Published' \cup ignored' : line < nextLine
  PROVE  LinesInv'
  <1>1. \A s \in Sources : Size(s)' <= 2 * (nextLine' - 1)
    BY LogsSame DEF LinesInv
  <1>2. \A s \in Sources : \A k \in Places(s)' : LineAt(s, k)' < nextLine'
    BY LogsSame DEF LinesInv
  <1>3. \A s, t \in Sources : \A j \in Places(s)', k \in Places(t)' :
          LineAt(s, j)' = LineAt(t, k)' /\ LineAt(s, j)' # 0 => s = t /\ j = k
    <2>1. \A s, t \in Sources : \A j \in Places(s), k \in Places(t) :
            LineAt(s, j) = LineAt(t, k) /\ LineAt(s, j) # 0 => s = t /\ j = k
      BY DEF LinesInv
    <2>2. QED
      BY <2>1, LogsSame
  <1>4. \A s \in Sources : log'[s].epoch <= restarts' /\ log'[s].inode <= restarts' + 1
    BY LogsSame DEF LinesInv
  <1>5. \A line \in Published' \cup ignored' : line < nextLine'
    BY LogsSame
  <1>6. QED
    BY <1>1, <1>2, <1>3, <1>4, <1>5 DEF LinesInv

\* A line is in one place.
LEMMA OnePlace ==
  ASSUME LinesInv, NEW s \in Sources, NEW t \in Sources,
         NEW j \in Places(s), NEW k \in Places(t),
         LineAt(s, j) = LineAt(t, k), LineAt(s, j) # 0
  PROVE  s = t /\ j = k
  <1>1. \A a, b \in Sources : \A i \in Places(a), l \in Places(b) :
          LineAt(a, i) = LineAt(b, l) /\ LineAt(a, i) # 0 => a = b /\ i = l
    BY DEF LinesInv
  <1>2. QED
    BY <1>1

\* A cursor stays right while more is published, ignored or skipped, when
\* nothing of its log is ignored anew.
LEMMA CursorStays ==
  ASSUME UNCHANGED logs, Published \subseteq Published', ignored \subseteq ignored',
         NEW s \in Sources, NEW c, CursorInv(c, s), skipped[s] => skipped'[s],
         IsFresh(c) \/ \A k \in Places(s) : LineAt(s, k) \in ignored' => LineAt(s, k) \in ignored
  PROVE  CursorInv(c, s)'
  <1>1. Matches(c, s)' = Matches(c, s)
    BY LogsSame DEF Matches
  <1>2. IsFresh(c)' = IsFresh(c) /\ Fresh' = Fresh
    BY DEF IsFresh, Fresh
  <1>3. /\ c.epoch <= log'[s].epoch /\ (c.inode = 0 => c = Fresh)
        /\ (c.inode # 0 => Exists(s)')
        /\ (Matches(c, s)' => c.offset <= Size(s)')
    BY <1>1, LogsSame DEF CursorInv
  <1>4. Known(c.offset, s) => Known(c.offset, s)'
    BY LogsSame DEF Known, Passed
  <1>5. Matches(c, s)' /\ ~skipped'[s] => Known(c.offset, s)'
    BY <1>1, <1>4 DEF CursorInv
  <1>6. ~IsFresh(c) => IgnoredPassed(c.offset, s, Matches(c, s))'
    <2>1. SUFFICES ASSUME ~IsFresh(c), NEW k \in Places(s)', LineAt(s, k)' \in ignored'
                   PROVE  Matches(c, s)' /\ Passed(c.offset, k)'
      BY DEF IgnoredPassed
    <2>2. k \in Places(s) /\ LineAt(s, k) \in ignored
      BY <2>1, LogsSame
    <2>3. Matches(c, s) /\ Passed(c.offset, k)
      BY <2>1, <2>2 DEF CursorInv, IgnoredPassed
    <2>4. QED
      BY <1>1, <2>3 DEF Passed
  <1>7. QED
    BY <1>2, <1>3, <1>5, <1>6 DEF CursorInv

\* What is ignored anew is of the logs that are attached to.
LEMMA IgnoredOf ==
  ASSUME Typed, LinesInv, NEW M \in SUBSET Sources,
         ignored' \subseteq ignored \cup UNION {Content(t) : t \in M},
         NEW s \in Sources \ M
  PROVE  \A k \in Places(s) : LineAt(s, k) \in ignored' => LineAt(s, k) \in ignored
  <1>1. SUFFICES ASSUME NEW k \in Places(s), NEW t \in M, LineAt(s, k) \in Content(t)
                 PROVE  FALSE
    OBVIOUS
  <1>2. log[t] \in Logs /\ t \in Sources
    BY LogFacts
  <1>3. PICK j \in Places(t) : LineAt(s, k) = LineAt(t, j) /\ LineAt(s, k) # 0
    BY <1>1, <1>2, ContentIs
  <1>4. QED
    BY <1>2, <1>3, OnePlace

\* The cursor of a log that is attached to.
LEMMA AttachIs ==
  ASSUME Typed, LinesInv, UNCHANGED logs, NEW s \in Sources, Exists(s),
         ignored' \subseteq Lines,
         StartAtEnd => Content(s) \subseteq ignored', ~StartAtEnd => ignored' = {}
  PROVE  /\ CursorInv(Attach(s), s)'
         /\ Attach(s) \in Cursors /\ ~IsFresh(Attach(s))
         /\ Attach(s).inode = log[s].inode
         /\ StartAtEnd => Attach(s).offset = Size(s)
         /\ Attach(s)' = Attach(s)
  <1>1. PICK at, c : /\ at = (IF StartAtEnd THEN Size(s) ELSE 0)
                     /\ c = [offset |-> at, inode |-> log[s].inode, epoch |-> log[s].epoch]
    OBVIOUS
  <1>2. c = Attach(s)
    BY <1>1 DEF Attach, Cursor
  <1>3. /\ c.offset = at /\ c.inode = log[s].inode /\ c.epoch = log[s].epoch
    BY <1>1
  <1>4. at \in 0 .. 2 * MaxLines /\ at \in Nat /\ at <= Size(s)
    <2>1. Size(s) \in Nat /\ Size(s) <= 2 * (nextLine - 1)
      BY LogFacts
    <2>2. nextLine \in 1 .. MaxLines + 1 /\ MaxLines \in Nat
      BY Counters
    <2>3. QED
      BY <1>1, <2>1, <2>2
  <1>5. c \in Cursors
    BY <1>1, <1>4, LogFacts DEF Cursors
  <1>6. c.inode # 0 /\ ~IsFresh(c)
    BY <1>3 DEF Exists, IsFresh
  <1>7. Attach(s)' = Attach(s)
    BY LogsSame DEF Attach, Cursor
  <1>8. Matches(c, s)'
    BY <1>3, LogsSame DEF Matches
  <1>9. ASSUME NEW k \in Places(s)
        PROVE  /\ LineAt(s, k) \in ignored' => Passed(at, k)
               /\ Passed(at, k) /\ LineAt(s, k) # 0 => LineAt(s, k) \in ignored'
    <2>1. k \in Nat \ {0} /\ log[s] \in Logs /\ (LineAt(s, k) # 0 <=> Passed(Size(s), k))
      BY LogFacts
    <2>2. CASE StartAtEnd
      <3>1. at = Size(s)
        BY <1>1, <2>2
      <3>2. LineAt(s, k) # 0 => LineAt(s, k) \in Content(s)
        BY <2>1, ContentIs
      <3>3. 0 \notin ignored'
        BY ReaderTypes
      <3>4. QED
        BY <2>1, <2>2, <3>1, <3>2, <3>3
    <2>3. CASE ~StartAtEnd
      <3>1. at = 0
        BY <1>1, <2>3
      <3>2. ~Passed(at, k)
        BY <2>1, <3>1 DEF Passed
      <3>3. QED
        BY <2>3, <3>2
    <2>4. QED
      BY <2>2, <2>3
  <1>10. Known(at, s)'
    <2>1. ASSUME NEW k \in Places(s)', Passed(at, k), LineAt(s, k)' # 0
          PROVE  LineAt(s, k)' \in ignored'
      BY <1>9, <2>1, LogsSame
    <2>2. QED
      BY <2>1 DEF Known, Passed
  <1>11. IgnoredPassed(at, s, Matches(c, s))'
    <2>1. ASSUME NEW k \in Places(s)', LineAt(s, k)' \in ignored'
          PROVE  Passed(at, k)
      BY <1>9, <2>1, LogsSame
    <2>2. QED
      BY <1>8, <2>1 DEF IgnoredPassed, Passed
  <1>12. c.epoch <= log'[s].epoch
    <2>1. log[s].epoch \in Nat /\ log' = log
      BY LogsSame, LogFacts
    <2>2. QED
      BY <1>3, <2>1
  <1>13. Exists(s)' /\ c.offset <= Size(s)'
    BY <1>3, <1>4, LogsSame
  <1>14. CursorInv(c, s)'
    BY <1>3, <1>6, <1>10, <1>11, <1>12, <1>13 DEF CursorInv
  <1>15. CursorInv(Attach(s), s)'
    BY <1>2, <1>7, <1>14
  <1>16. QED
    BY <1>1, <1>2, <1>3, <1>5, <1>6, <1>7, <1>15

\* The content of a log consists of lines written, that the journal may lack.
LEMMA ContentFacts ==
  ASSUME Typed, LinesInv, NEW s \in Sources
  PROVE  /\ Content(s) \subseteq Lines
         /\ \A line \in Content(s) : line < nextLine
         /\ (\A k \in Places(s) : LineAt(s, k) \notin Published)
              => Content(s) \cap Published = {}
  <1>1. \A line : line \in Content(s) <=> \E k \in Places(s) : line = LineAt(s, k) /\ line # 0
    BY LogFacts, ContentIs
  <1>2. \A k \in Places(s) : LineAt(s, k) < nextLine /\ LineAt(s, k) \in Lines \cup {0}
    BY LogFacts
  <1>3. QED
    BY <1>1, <1>2

\* The types after a step of the sidecar.
LEMMA SidecarTypes ==
  ASSUME Typed, UNCHANGED logs,
         journal' \in Seq([source : Sources, line : Lines]),
         saved' \in [Sources -> Cursors], cursors' \in [Sources -> Cursors],
         pc' \in {"down", "open", "read", "save"}, source' \in Sources,
         offset' \in 0 .. 2 * MaxLines, crashes' \in 0 .. MaxCrashes,
         opened' \in 0 .. MaxRestarts, ignored' \subseteq Lines,
         skipped' \in [Sources -> BOOLEAN]
  PROVE  Typed'
  <1>1. log' = log /\ nextLine' = nextLine /\ restarts' = restarts
    BY LogsSame
  <1>2. /\ log \in [Sources -> Logs] /\ nextLine \in 1 .. MaxLines + 1
        /\ restarts \in 0 .. MaxRestarts
    BY DEF Typed, TypeOK
  <1>3. \A s \in Sources : /\ log[s].inode \in 0 .. MaxRestarts + 1
                           /\ log[s].lines \in Seq(Lines)
                           /\ log[s].torn \in Lines \cup {0}
                           /\ log[s].epoch \in 0 .. MaxRestarts
    BY DEF Typed, TypeOK
  <1>4. TypeOK'
    BY <1>1, <1>2, <1>3 DEF TypeOK
  <1>5. QED
    BY <1>1, <1>2, <1>4 DEF Typed

\* The sidecar starts.
LEMMA StartStep ==
  ASSUME SInv, Start
  PROVE  SInv'
  <1>1. Typed /\ LinesInv /\ HandleInv /\ HistoryInv /\ ReplayInv
    BY DEF SInv
  <1>2. PICK M \in SUBSET Sources : M = {s \in Sources : IsFresh(saved[s]) /\ Exists(s)}
    OBVIOUS
  <1>3. /\ pc = "down" /\ pc' = "open" /\ source' = 1 /\ offset' = 0
        /\ UNCHANGED logs /\ journal' = journal /\ crashes' = crashes
        /\ opened' = opened /\ skipped' = skipped /\ saved' = cursors'
        /\ cursors' = [s \in Sources |-> IF s \in M THEN Attach(s) ELSE saved[s]]
        /\ ignored' = IF StartAtEnd THEN ignored \cup UNION {Content(s) : s \in M} ELSE ignored
    BY <1>2 DEF Start
  <1>4. Published' = Published /\ \A line : Times(line)' = Times(line)
    BY <1>3 DEF Published, Times
  <1>5. /\ ignored \subseteq ignored' /\ ignored' \subseteq Lines
        /\ ignored' \subseteq ignored \cup UNION {Content(s) : s \in M}
        /\ \A line \in ignored' : line < nextLine
    <2>1. ignored \subseteq Lines /\ \A line \in ignored : line < nextLine
      BY <1>1, ReaderTypes DEF LinesInv
    <2>2. \A s \in M : Content(s) \subseteq Lines /\ \A line \in Content(s) : line < nextLine
      BY <1>1, ContentFacts
    <2>3. QED
      BY <1>3, <2>1, <2>2
  <1>6. LinesInv'
    <2>1. \A line \in Published : line < nextLine
      BY <1>1 DEF LinesInv
    <2>2. QED
      BY <1>1, <1>3, <1>4, <1>5, <2>1, LinesUnmoved
  <1>7. ASSUME NEW s \in M
        PROVE  /\ CursorInv(Attach(s), s)' /\ Attach(s) \in Cursors
               /\ ~IsFresh(Attach(s)) /\ Attach(s)' = Attach(s)
    <2>1. Exists(s) /\ s \in Sources
      BY <1>2
    <2>2. StartAtEnd => Content(s) \subseteq ignored'
      BY <1>3
    <2>3. ~StartAtEnd => ignored' = {}
      BY <1>1, <1>3 DEF HistoryInv
    <2>4. QED
      BY <1>1, <1>3, <1>5, <2>1, <2>2, <2>3, AttachIs
  <1>8. ASSUME NEW s \in Sources \ M
        PROVE  CursorInv(saved[s], s)'
    <2>1. PICK c : c = saved[s]
      OBVIOUS
    <2>2. CursorInv(c, s)
      BY <2>1 DEF SInv
    <2>3. \A k \in Places(s) : LineAt(s, k) \in ignored' => LineAt(s, k) \in ignored
      BY <1>1, <1>5, IgnoredOf
    <2>4. CursorInv(c, s)'
      BY <1>3, <1>4, <1>5, <2>2, <2>3, CursorStays
    <2>5. c = saved'[s]
      BY <1>3, <2>1
    <2>6. QED
      BY <2>4, <2>5
  <1>9. ASSUME NEW s \in Sources
        PROVE  CursorInv(saved[s], s)' /\ CursorInv(cursors[s], s)'
    <2>1. saved'[s] = (IF s \in M THEN Attach(s) ELSE saved[s]) /\ cursors'[s] = saved'[s]
      BY <1>3
    <2>2. CASE s \in M
      <3>1. PICK c : c = Attach(s)
        OBVIOUS
      <3>2. CursorInv(c, s)'
        BY <1>7, <2>2, <3>1
      <3>3. c = saved'[s] /\ c = cursors'[s]
        BY <2>1, <2>2, <3>1
      <3>4. QED
        BY <3>2, <3>3
    <2>3. CASE s \notin M
      BY <1>8, <2>1, <2>3
    <2>4. QED
      BY <2>2, <2>3
  <1>10. cursors' \in [Sources -> Cursors]
    BY <1>1, <1>3, <1>7, ReaderTypes
  <1>11. Typed'
    <2>1. /\ 1 \in Sources /\ 0 \in 0 .. 2 * MaxLines
      BY ConstantsAssumption DEF Sources
    <2>2. /\ journal \in Seq([source : Sources, line : Lines]) /\ crashes \in 0 .. MaxCrashes
          /\ opened \in 0 .. MaxRestarts /\ skipped \in [Sources -> BOOLEAN]
      BY <1>1 DEF Typed, TypeOK
    <2>3. QED
      BY <1>1, <1>3, <1>5, <1>10, <2>1, <2>2, SidecarTypes
  <1>12. HandleInv'
    BY <1>3, <1>10 DEF HandleInv, Sources
  <1>13. HistoryInv'
    <2>1. ignored' \cap Published' = {}
      <3>1. ASSUME StartAtEnd, NEW s \in M PROVE Content(s) \cap Published = {}
        <4>1. s \in Sources /\ \A k \in Places(s) : LineAt(s, k) \notin Published
          BY <1>1, <1>2, <3>1 DEF HistoryInv
        <4>2. QED
          BY <1>1, <4>1, ContentFacts
      <3>2. ignored \cap Published = {}
        BY <1>1 DEF HistoryInv
      <3>3. QED
        BY <1>3, <1>4, <3>1, <3>2
    <2>2. ~StartAtEnd => ignored' = {}
      BY <1>1, <1>3 DEF HistoryInv
    <2>3. ASSUME StartAtEnd, NEW s \in Sources, IsFresh(saved[s])', NEW k \in Places(s)'
          PROVE  LineAt(s, k)' \notin Published'
      <3>1. saved'[s] = (IF s \in M THEN Attach(s) ELSE saved[s])
        BY <1>3
      <3>2. s \notin M
        BY <1>7, <2>3, <3>1 DEF IsFresh
      <3>3. IsFresh(saved[s])
        BY <2>3, <3>1, <3>2 DEF IsFresh
      <3>4. QED
        BY <1>1, <1>3, <1>4, <2>3, <3>3, LogsSame DEF HistoryInv
    <2>4. QED
      BY <2>1, <2>2, <2>3 DEF HistoryInv
  <1>14. ReplayInv'
    <2>1. /\ \A line \in Lines : Times(line) <= crashes
          /\ \A line \in Lines : Times(line) <= 1 + crashes
      BY <1>1, <1>3 DEF ReplayInv
    <2>2. ASSUME NEW s \in Sources, NEW k \in Places(s)', LineAt(s, k)' # 0
          PROVE  Times(LineAt(s, k))' <= crashes'
      <3>1. LineAt(s, k)' = LineAt(s, k) /\ LineAt(s, k) \in Lines
        BY <1>1, <1>3, <2>2, LogsSame, LogFacts
      <3>2. QED
        BY <1>3, <1>4, <2>1, <3>1
    <2>3. QED
      BY <1>3, <1>4, <2>1, <2>2 DEF ReplayInv
  <1>15. QED
    BY <1>6, <1>9, <1>11, <1>12, <1>13, <1>14 DEF SInv

\* What poll_once does after a source.
LEMMA NextSourceIs ==
  ASSUME Typed, NextSource
  PROVE  /\ pc' \in {"open", "save"} /\ source' \in Sources /\ offset' = 0
         /\ pc' = "open" => source' = source + 1
  <1>1. source \in 1 .. NSources /\ NSources \in Nat
    BY ReaderTypes
  <1>2. CASE source < NSources
    BY <1>1, <1>2 DEF NextSource, Sources
  <1>3. CASE ~(source < NSources)
    BY <1>1, <1>3 DEF NextSource, Sources
  <1>4. QED
    BY <1>2, <1>3

\* A log that is not there is passed over.
LEMMA OpenMissing ==
  ASSUME SInv, pc = "open", ~Exists(source), NextSource,
         UNCHANGED <<cursors, history>>, UNCHANGED <<logs, durable, crashes>>
  PROVE  SInv'
  <1>1. Typed /\ LinesInv /\ HandleInv /\ HistoryInv /\ ReplayInv
    BY DEF SInv
  <1>2. /\ UNCHANGED logs /\ journal' = journal /\ saved' = saved /\ cursors' = cursors
        /\ crashes' = crashes /\ opened' = opened /\ ignored' = ignored /\ skipped' = skipped
    BY DEF durable, history
  <1>3. Published' = Published /\ \A line : Times(line)' = Times(line)
    BY <1>2 DEF Published, Times
  <1>4. /\ pc' \in {"open", "save"} /\ source' \in Sources /\ offset' = 0
        /\ pc' = "open" => source' = source + 1
    BY <1>1, NextSourceIs
  <1>5. LinesInv'
    BY <1>1, <1>2, <1>3, LinesUnmoved DEF LinesInv
  <1>6. Typed'
    <2>1. 0 \in 0 .. 2 * MaxLines
      BY ConstantsAssumption
    <2>2. /\ journal \in Seq([source : Sources, line : Lines]) /\ crashes \in 0 .. MaxCrashes
          /\ opened \in 0 .. MaxRestarts /\ skipped \in [Sources -> BOOLEAN]
          /\ saved \in [Sources -> Cursors] /\ cursors \in [Sources -> Cursors]
          /\ ignored \subseteq Lines
      BY <1>1 DEF Typed, TypeOK
    <2>3. QED
      BY <1>1, <1>2, <1>4, <2>1, <2>2, SidecarTypes
  <1>7. ASSUME NEW s \in Sources
        PROVE  CursorInv(saved[s], s)' /\ CursorInv(cursors[s], s)'
    <2>1. PICK c, d : c = saved[s] /\ d = cursors[s]
      OBVIOUS
    <2>2. CursorInv(c, s) /\ CursorInv(d, s)
      BY <2>1 DEF SInv
    <2>3. CursorInv(c, s)' /\ CursorInv(d, s)'
      BY <1>2, <1>3, <2>2, CursorStays
    <2>4. c = saved'[s] /\ d = cursors'[s]
      BY <1>2, <2>1
    <2>5. QED
      BY <2>3, <2>4
  <1>8. HandleInv'
    <2>1. \A s \in Sources : IsFresh(cursors[s]) => IsFresh(saved[s])
      BY <1>1 DEF HandleInv
    <2>2. \A s \in Sources : IsFresh(cursors[s])' => IsFresh(saved[s])'
      BY <1>2, <2>1 DEF IsFresh
    <2>3. pc' = "open" => \A t \in source' .. NSources : cursors'[t] = saved'[t]
      <3>1. \A t \in source .. NSources : cursors[t] = saved[t]
        BY <1>1 DEF HandleInv
      <3>2. source \in Nat /\ NSources \in Nat
        BY <1>1, ReaderTypes
      <3>3. QED
        BY <1>2, <1>4, <3>1, <3>2
    <2>4. QED
      BY <1>4, <2>2, <2>3 DEF HandleInv
  <1>9. HistoryInv'
    BY <1>1, <1>2, <1>3, LogsSame DEF HistoryInv, IsFresh
  <1>10. ReplayInv'
    <2>1. \A s, k : Behind(s, k) => Behind(s, k)'
      BY <1>2, <1>4, LogsSame DEF Behind, Passed
    <2>2. QED
      BY <1>1, <1>2, <1>3, <1>4, <2>1, LogsSame DEF ReplayInv
  <1>11. QED
    BY <1>5, <1>6, <1>7, <1>8, <1>9, <1>10 DEF SInv

\* A log that has appeared is attached to.
LEMMA OpenAttaches ==
  ASSUME SInv, pc = "open", Exists(source), IsFresh(cursors[source]), StartAtEnd,
         cursors' = [cursors EXCEPT ![source] = Attach(source)],
         ignored' = ignored \cup Content(source), NextSource,
         UNCHANGED <<opened, skipped>>, UNCHANGED <<logs, durable, crashes>>
  PROVE  SInv'
  <1>1. Typed /\ LinesInv /\ HandleInv /\ HistoryInv /\ ReplayInv
    BY DEF SInv
  <1>2. /\ UNCHANGED logs /\ journal' = journal /\ saved' = saved
        /\ crashes' = crashes /\ opened' = opened /\ skipped' = skipped
    BY DEF durable
  <1>3. Published' = Published /\ \A line : Times(line)' = Times(line)
    BY <1>2 DEF Published, Times
  <1>4. /\ pc' \in {"open", "save"} /\ source' \in Sources /\ offset' = 0
        /\ pc' = "open" => source' = source + 1
    BY <1>1, NextSourceIs
  <1>5. PICK at \in Sources : at = source
    BY <1>1, ReaderTypes
  <1>6. /\ ignored \subseteq ignored' /\ ignored' \subseteq Lines
        /\ \A line \in ignored' : line < nextLine
        /\ ignored' \subseteq ignored \cup UNION {Content(t) : t \in {at}}
    <2>1. ignored \subseteq Lines /\ \A line \in ignored : line < nextLine
      BY <1>1, ReaderTypes DEF LinesInv
    <2>2. Content(at) \subseteq Lines /\ \A line \in Content(at) : line < nextLine
      BY <1>1, ContentFacts
    <2>3. QED
      BY <1>5, <2>1, <2>2
  <1>7. LinesInv'
    <2>1. \A line \in Published : line < nextLine
      BY <1>1 DEF LinesInv
    <2>2. QED
      BY <1>1, <1>2, <1>3, <1>6, <2>1, LinesUnmoved
  <1>8. /\ CursorInv(Attach(at), at)' /\ Attach(at) \in Cursors /\ ~IsFresh(Attach(at))
        /\ Attach(at).inode = log[at].inode /\ Attach(at).offset = Size(at)
        /\ Attach(at)' = Attach(at)
    BY <1>1, <1>2, <1>5, <1>6, AttachIs
  <1>9. /\ cursors' \in [Sources -> Cursors] /\ cursors'[at] = Attach(at)
        /\ \A s \in Sources \ {at} : cursors'[s] = cursors[s]
    BY <1>1, <1>5, <1>8, ReaderTypes
  <1>10. IsFresh(saved[at]) /\ cursors[at] = saved[at]
    <2>1. source \in source .. NSources
      BY <1>1, ReaderTypes
    <2>2. cursors[source] = saved[source]
      BY <1>1, <2>1 DEF HandleInv
    <2>3. QED
      BY <1>5, <2>2
  <1>11. Typed'
    <2>1. 0 \in 0 .. 2 * MaxLines
      BY ConstantsAssumption
    <2>2. /\ journal \in Seq([source : Sources, line : Lines]) /\ crashes \in 0 .. MaxCrashes
          /\ opened \in 0 .. MaxRestarts /\ skipped \in [Sources -> BOOLEAN]
          /\ saved \in [Sources -> Cursors]
      BY <1>1 DEF Typed, TypeOK
    <2>3. QED
      BY <1>1, <1>2, <1>4, <1>6, <1>9, <2>1, <2>2, SidecarTypes
  <1>12. ASSUME NEW s \in Sources, NEW c, CursorInv(c, s), IsFresh(c) \/ s # at
         PROVE  CursorInv(c, s)'
    <2>1. s # at => \A k \in Places(s) : LineAt(s, k) \in ignored' => LineAt(s, k) \in ignored
      <3>1. {at} \in SUBSET Sources
        OBVIOUS
      <3>2. s # at => s \in Sources \ {at}
        OBVIOUS
      <3>3. QED
        BY <1>1, <1>6, <3>1, <3>2, IgnoredOf
    <2>2. QED
      BY <1>2, <1>3, <1>6, <1>12, <2>1, CursorStays
  <1>13. ASSUME NEW s \in Sources
         PROVE  CursorInv(saved[s], s)'
    <2>1. PICK c : c = saved[s]
      OBVIOUS
    <2>2. CursorInv(c, s) /\ (IsFresh(c) \/ s # at)
      BY <1>10, <2>1 DEF SInv
    <2>3. CursorInv(c, s)'
      BY <1>12, <2>2
    <2>4. QED
      BY <1>2, <2>1, <2>3
  <1>14. ASSUME NEW s \in Sources
         PROVE  CursorInv(cursors[s], s)'
    <2>1. PICK c : c = cursors'[s]
      OBVIOUS
    <2>2. CASE s = at
      BY <1>8, <1>9, <2>2
    <2>3. CASE s # at
      <3>1. CursorInv(c, s)
        BY <1>9, <2>1, <2>3 DEF SInv
      <3>2. CursorInv(c, s)'
        BY <1>12, <2>3, <3>1
      <3>3. QED
        BY <2>1, <3>2
    <2>4. QED
      BY <2>2, <2>3
  <1>15. HandleInv'
    <2>1. \A s \in Sources : IsFresh(cursors[s]) => IsFresh(saved[s])
      BY <1>1 DEF HandleInv
    <2>2. \A s \in Sources : IsFresh(cursors[s])' => IsFresh(saved[s])'
      BY <1>2, <1>8, <1>9, <2>1 DEF IsFresh
    <2>3. pc' = "open" => \A t \in source' .. NSources : cursors'[t] = saved'[t]
      <3>1. \A t \in source .. NSources : cursors[t] = saved[t]
        BY <1>1 DEF HandleInv
      <3>2. source \in Nat /\ NSources \in Nat /\ Sources = 1 .. NSources
        BY <1>1, ReaderTypes DEF Sources
      <3>3. \A t \in source + 1 .. NSources :
              t \in source .. NSources /\ t \in Sources \ {at}
        BY <1>5, <3>2
      <3>4. QED
        BY <1>2, <1>4, <1>9, <3>1, <3>3
    <2>4. QED
      BY <1>4, <2>2, <2>3 DEF HandleInv
  <1>16. HistoryInv'
    <2>1. Content(at) \cap Published = {}
      <3>1. \A k \in Places(at) : LineAt(at, k) \notin Published
        BY <1>1, <1>10 DEF HistoryInv
      <3>2. QED
        BY <1>1, <3>1, ContentFacts
    <2>2. ignored' \cap Published' = {}
      BY <1>1, <1>3, <1>5, <2>1 DEF HistoryInv
    <2>3. \A s \in Sources : IsFresh(saved[s])' =>
            \A k \in Places(s)' : LineAt(s, k)' \notin Published'
      BY <1>1, <1>2, <1>3, LogsSame DEF HistoryInv, IsFresh
    <2>4. QED
      BY <2>2, <2>3 DEF HistoryInv
  <1>17. ReplayInv'
    <2>1. ASSUME NEW s \in Sources, NEW k \in Places(s), LineAt(s, k) # 0, Behind(s, k)
          PROVE  Behind(s, k)'
      <3>1. CASE s = at
        <4>1. Passed(Size(at), k) /\ Size(at) \in Nat
          BY <1>1, <2>1, <3>1, LogFacts
        <4>2. QED
          BY <1>2, <1>4, <1>8, <1>9, <3>1, <4>1, LogsSame DEF Behind, Passed
      <3>2. CASE s # at
        <4>1. cursors'[s] = cursors[s]
          BY <1>9, <3>2
        <4>2. QED
          BY <1>2, <1>4, <2>1, <4>1, LogsSame DEF Behind, Passed
      <3>3. QED
        BY <3>1, <3>2
    <2>2. QED
      BY <1>1, <1>2, <1>3, <1>4, <2>1, LogsSame DEF ReplayInv
  <1>18. QED
    BY <1>7, <1>11, <1>13, <1>14, <1>15, <1>16, <1>17 DEF SInv

\* A log is opened where its cursor stands, or from the beginning.
LEMMA OpenReads ==
  ASSUME SInv, pc = "open", Exists(source), ~(IsFresh(cursors[source]) /\ StartAtEnd),
         offset' = Resume(source),
         skipped' = [skipped EXCEPT ![source] =
                       @ \/ /\ cursors[source].epoch # log[source].epoch
                            /\ cursors[source].inode = log[source].inode
                            /\ cursors[source].offset \in 1 .. Size(source)],
         opened' = log[source].epoch, pc' = "read",
         UNCHANGED <<cursors, source, ignored>>, UNCHANGED <<logs, durable, crashes>>
  PROVE  SInv'
  <1>1. Typed /\ LinesInv /\ HandleInv /\ HistoryInv /\ ReplayInv
    BY DEF SInv
  <1>2. /\ UNCHANGED logs /\ journal' = journal /\ saved' = saved /\ cursors' = cursors
        /\ crashes' = crashes /\ source' = source /\ ignored' = ignored
    BY DEF durable
  <1>3. Published' = Published /\ \A line : Times(line)' = Times(line)
    BY <1>2 DEF Published, Times
  <1>4. PICK at \in Sources, c \in Cursors : at = source /\ c = cursors[source]
    BY <1>1, ReaderTypes
  <1>5. /\ CursorInv(c, at) /\ c.offset \in Nat /\ c.epoch \in Nat /\ c.inode \in Nat
        /\ Size(at) \in Nat /\ \A k \in Places(at) : k \in Nat \ {0}
    BY <1>1, <1>4, ReaderTypes, LogFacts DEF SInv
  <1>6. saved[at] = c
    <2>1. source \in source .. NSources
      BY <1>1, ReaderTypes
    <2>2. cursors[source] = saved[source]
      BY <1>1, <2>1 DEF HandleInv
    <2>3. QED
      BY <1>4, <2>2
  <1>7. \/ offset' = 0
        \/ offset' = c.offset /\ c.inode \in {0, log[at].inode} /\ c.offset <= Size(at)
    BY <1>4, <1>5 DEF Resume
  <1>8. c.inode = log[at].inode /\ c.offset <= Size(at) => offset' = c.offset
    BY <1>4, <1>5 DEF Resume
  <1>9. /\ skipped' \in [Sources -> BOOLEAN]
        /\ \A s \in Sources : skipped[s] => skipped'[s]
        /\ c.epoch # log[at].epoch /\ c.inode = log[at].inode /\ c.offset \in 1 .. Size(at)
             => skipped'[at]
    <2>1. skipped \in [Sources -> BOOLEAN]
      BY <1>1 DEF Typed, TypeOK
    <2>2. QED
      BY <1>4, <2>1
  <1>10. offset' \in Nat /\ offset' <= Size(at)
    BY <1>5, <1>7
  <1>11. Typed'
    <2>1. Size(at) <= 2 * (nextLine - 1) /\ nextLine \in 1 .. MaxLines + 1 /\ MaxLines \in Nat
      BY <1>1, LogFacts, Counters
    <2>2. offset' \in 0 .. 2 * MaxLines
      BY <1>5, <1>10, <2>1
    <2>3. opened' \in 0 .. MaxRestarts
      BY <1>1, <1>4, LogFacts
    <2>4. /\ journal \in Seq([source : Sources, line : Lines]) /\ crashes \in 0 .. MaxCrashes
          /\ saved \in [Sources -> Cursors] /\ cursors \in [Sources -> Cursors]
          /\ ignored \subseteq Lines /\ source \in Sources
      BY <1>1 DEF Typed, TypeOK
    <2>5. QED
      BY <1>1, <1>2, <1>9, <2>2, <2>3, <2>4, SidecarTypes
  <1>12. LinesInv'
    BY <1>1, <1>2, <1>3, LinesUnmoved DEF LinesInv
  <1>13. ASSUME NEW s \in Sources
         PROVE  CursorInv(saved[s], s)' /\ CursorInv(cursors[s], s)'
    <2>1. PICK b, d : b = saved[s] /\ d = cursors[s]
      OBVIOUS
    <2>2. CursorInv(b, s) /\ CursorInv(d, s)
      BY <2>1 DEF SInv
    <2>3. CursorInv(b, s)' /\ CursorInv(d, s)'
      BY <1>2, <1>3, <1>9, <2>2, CursorStays
    <2>4. b = saved'[s] /\ d = cursors'[s]
      BY <1>2, <2>1
    <2>5. QED
      BY <2>3, <2>4
  <1>14. \A k \in Places(at) : ~Passed(0, k)
    BY <1>5 DEF Passed
  <1>15. ASSUME ~skipped'[at], NEW k \in Places(at), Passed(offset', k), LineAt(at, k) # 0
         PROVE  LineAt(at, k) \in Published \cup ignored \cup Noise
    <2>1. /\ offset' = c.offset /\ c.inode \in {0, log[at].inode} /\ c.offset <= Size(at)
          /\ c.offset # 0
      BY <1>7, <1>14, <1>15
    <2>2. c.inode # 0
      BY <1>5, <2>1 DEF CursorInv, Fresh
    <2>3. c.epoch = log[at].epoch
      BY <1>5, <1>9, <1>15, <2>1, <2>2
    <2>4. Matches(c, at)
      BY <2>1, <2>2, <2>3 DEF Matches
    <2>5. ~skipped[at]
      BY <1>9, <1>15
    <2>6. Known(c.offset, at)
      BY <1>5, <2>4, <2>5 DEF CursorInv
    <2>7. QED
      BY <1>15, <2>1, <2>6 DEF Known
  <1>16. ASSUME NEW k \in Places(at), LineAt(at, k) \in ignored
         PROVE  Passed(offset', k)
    <2>1. ~IsFresh(c)
      BY <1>1, <1>4, <1>16 DEF HistoryInv
    <2>2. Matches(c, at) /\ Passed(c.offset, k)
      BY <1>5, <1>16, <2>1 DEF CursorInv, IgnoredPassed
    <2>3. offset' = c.offset
      BY <1>5, <1>8, <2>2 DEF CursorInv, Matches
    <2>4. QED
      BY <2>2, <2>3
  <1>17. HandleInv'
    <2>1. /\ source' = at /\ pc' = "read" /\ opened' = log'[at].epoch /\ Exists(at)'
      BY <1>2, <1>4, LogsSame
    <2>2. \A s \in Sources : IsFresh(cursors[s])' => IsFresh(saved[s])'
      BY <1>1, <1>2 DEF HandleInv, IsFresh
    <2>3. \A t \in source' .. NSources : cursors'[t] = saved'[t]
      BY <1>1, <1>2 DEF HandleInv
    <2>4. log[at].epoch \in Nat /\ log' = log
      BY <1>1, <1>2, LogFacts, LogsSame
    <2>5. opened' <= log'[at].epoch
      BY <2>1, <2>4
    <2>6. StartAtEnd => ~IsFresh(saved[source])'
      BY <1>2, <1>4, <1>6 DEF IsFresh
    <2>7. offset' <= Size(source)'
      BY <1>2, <1>4, <1>10, LogsSame
    <2>8. ~skipped'[at] => Known(offset, source)'
      <3>1. ASSUME ~skipped'[at], NEW k \in Places(at)', Passed(offset', k), LineAt(at, k)' # 0
            PROVE  LineAt(at, k)' \in Published' \cup ignored' \cup Noise
        BY <1>2, <1>3, <1>15, <3>1, LogsSame
      <3>2. QED
        BY <1>2, <1>4, <3>1 DEF Known, Passed
    <2>9. IgnoredPassed(offset, source, opened = log[source].epoch)'
      <3>1. ASSUME NEW k \in Places(at)', LineAt(at, k)' \in ignored'
            PROVE  Passed(offset', k)
        BY <1>2, <1>16, <3>1, LogsSame
      <3>2. QED
        BY <1>2, <1>4, <2>1, <3>1 DEF IgnoredPassed, Passed
    <2>10. QED
      BY <2>1, <2>2, <2>3, <2>5, <2>6, <2>7, <2>8, <2>9 DEF HandleInv
  <1>18. HistoryInv'
    BY <1>1, <1>2, <1>3, LogsSame DEF HistoryInv, IsFresh
  <1>19. ReplayInv'
    <2>1. ASSUME NEW s \in Sources, NEW k \in Places(s), Behind(s, k)
          PROVE  Behind(s, k)'
      <3>1. /\ cursors[s].inode = log[s].inode /\ Passed(cursors[s].offset, k)
            /\ cursors[s].offset <= Size(s)
        BY <2>1 DEF Behind
      <3>2. CASE s = at
        <4>1. offset' = cursors[s].offset
          BY <1>4, <1>8, <3>1, <3>2
        <4>2. Size(s)' = Size(s) /\ source' = s /\ pc' = "read"
          BY <1>2, <1>4, <3>2, LogsSame
        <4>3. QED
          BY <3>1, <4>1, <4>2 DEF Behind, Passed
      <3>3. CASE s # at
        BY <1>2, <1>4, <3>1, <3>3, LogsSame DEF Behind, Passed
      <3>4. QED
        BY <3>2, <3>3
    <2>2. QED
      BY <1>1, <1>2, <1>3, <2>1, LogsSame DEF ReplayInv
  <1>20. QED
    BY <1>11, <1>12, <1>13, <1>17, <1>18, <1>19 DEF SInv

\* A source is opened, attached to or passed over.
LEMMA OpenStep ==
  ASSUME SInv, Open
  PROVE  SInv'
  <1>1. pc = "open" /\ UNCHANGED <<logs, durable, crashes>>
    BY DEF Open
  <1>2. CASE ~Exists(source) /\ NextSource /\ UNCHANGED <<cursors, history>>
    BY <1>1, <1>2, OpenMissing
  <1>3. CASE /\ Exists(source) /\ IsFresh(cursors[source]) /\ StartAtEnd
             /\ cursors' = [cursors EXCEPT ![source] = Attach(source)]
             /\ ignored' = ignored \cup Content(source)
             /\ NextSource /\ UNCHANGED <<opened, skipped>>
    BY <1>1, <1>3, OpenAttaches
  <1>4. CASE /\ Exists(source) /\ ~(IsFresh(cursors[source]) /\ StartAtEnd)
             /\ offset' = Resume(source)
             /\ skipped' = [skipped EXCEPT ![source] =
                  @ \/ /\ cursors[source].epoch # log[source].epoch
                       /\ cursors[source].inode = log[source].inode
                       /\ cursors[source].offset \in 1 .. Size(source)]
             /\ opened' = log[source].epoch /\ pc' = "read"
             /\ UNCHANGED <<cursors, source, ignored>>
    BY <1>1, <1>4, OpenReads
  <1>5. QED
    BY <1>2, <1>3, <1>4 DEF Open

\* The line under the handle.
LEMMA LineRead ==
  ASSUME Typed, LinesInv, HasLine
  PROVE  /\ Reading \in Nat \ {0} /\ Reading \in Places(source)
         /\ LineAt(source, Reading) = log[source].lines[Reading]
         /\ LineAt(source, Reading) \in Lines
         /\ 2 * Reading <= Size(source) /\ offset <= 2 * Reading
         /\ Passed(2 * Reading, Reading)
         /\ offset % 2 = 0 => ~Passed(offset, Reading)
         /\ offset % 2 # 0 => Passed(offset, Reading)
         /\ \A k \in Nat \ {0} : Passed(2 * Reading, k) => Passed(offset, k) \/ k = Reading
         /\ \A k \in Nat : Passed(offset, k) => Passed(2 * Reading, k)
  <1>1. offset \in Nat /\ source \in Sources
    BY ReaderTypes
  <1>2. PICK r, n : r = Reading /\ n = Len(log[source].lines)
    OBVIOUS
  <1>3. /\ r \in Nat \ {0} /\ offset \in {2 * r - 2, 2 * r - 1}
        /\ offset % 2 = 0 => offset = 2 * r - 2
        /\ offset % 2 # 0 => offset = 2 * r - 1
    BY <1>1, <1>2, HandleAt DEF Reading
  <1>4. n \in Nat /\ r <= n
    BY <1>1, <1>2, LogFacts DEF HasLine
  <1>5. r \in 1 .. n /\ r \in Places(source)
    BY <1>2, <1>3, <1>4 DEF Places
  <1>6. LineAt(source, r) = log[source].lines[r]
    BY <1>2, <1>5 DEF LineAt
  <1>7. log[source].lines[r] \in Lines
    <2>1. \A q \in Seq(Lines) : \A k \in 1 .. Len(q) : q[k] \in Lines
      OBVIOUS
    <2>2. log[source].lines \in Seq(Lines)
      BY <1>1, LogFacts
    <2>3. QED
      BY <1>2, <1>5, <2>1, <2>2
  <1>8. 2 * r <= Size(source)
    <2>1. Size(source) = 2 * n + (IF log[source].torn = 0 THEN 0 ELSE 1)
      BY <1>2 DEF Size
    <2>2. QED
      BY <1>3, <1>4, <2>1
  <1>9. offset <= 2 * r
    BY <1>3
  <1>10. /\ Passed(2 * r, r)
         /\ offset % 2 = 0 => ~Passed(offset, r)
         /\ offset % 2 # 0 => Passed(offset, r)
    BY <1>3 DEF Passed
  <1>11. /\ \A k \in Nat \ {0} : Passed(2 * r, k) => Passed(offset, k) \/ k = r
         /\ \A k \in Nat : Passed(offset, k) => Passed(2 * r, k)
    BY <1>3 DEF Passed
  <1>12. QED
    BY <1>2, <1>3, <1>5, <1>6, <1>7, <1>8, <1>9, <1>10, <1>11

\* A step of the handle, with or without a record of the line.
LEMMA ReadStep ==
  ASSUME SInv, ReadLine
  PROVE  SInv'
  <1>1. Typed /\ LinesInv /\ HandleInv /\ HistoryInv /\ ReplayInv
    BY DEF SInv
  <1>2. /\ pc = "read" /\ HasLine /\ offset' = 2 * Reading
        /\ UNCHANGED logs /\ saved' = saved /\ cursors' = cursors /\ pc' = pc
        /\ source' = source /\ crashes' = crashes /\ opened' = opened
        /\ ignored' = ignored /\ skipped' = skipped
    BY DEF ReadLine, history
  <1>3. PICK at \in Sources, r \in Nat \ {0}, line \in Lines :
          at = source /\ r = Reading /\ line = log[source].lines[Reading]
    BY <1>1, <1>2, ReaderTypes, LineRead
  <1>4. /\ r \in Places(at) /\ LineAt(at, r) = line
        /\ 2 * r <= Size(at) /\ offset <= 2 * r /\ offset' = 2 * r
        /\ Passed(2 * r, r)
        /\ offset % 2 = 0 => ~Passed(offset, r)
        /\ offset % 2 # 0 => Passed(offset, r)
        /\ \A k \in Nat \ {0} : Passed(2 * r, k) => Passed(offset, k) \/ k = r
        /\ \A k \in Nat : Passed(offset, k) => Passed(2 * r, k)
    BY <1>1, <1>2, <1>3, LineRead
  <1>5. /\ Exists(at) /\ opened <= log[at].epoch
        /\ StartAtEnd => ~IsFresh(saved[at])
        /\ opened = log[at].epoch => offset <= Size(at)
        /\ opened = log[at].epoch /\ ~skipped[at] => Known(offset, at)
        /\ IgnoredPassed(offset, at, opened = log[at].epoch)
    BY <1>1, <1>2, <1>3 DEF HandleInv
  <1>6. /\ line # 0 /\ line < nextLine /\ crashes \in Nat /\ Times(line) \in Nat
    <2>1. line # 0 /\ crashes \in Nat /\ Times(line) \in Nat
      BY <1>1, <1>3, ReaderTypes
    <2>2. line < nextLine
      BY <1>1, <1>4, LogFacts
    <2>3. QED
      BY <2>1, <2>2
  <1>7. /\ journal' \in Seq([source : Sources, line : Lines])
        /\ Published \subseteq Published' /\ Published' \subseteq Published \cup {line}
        /\ line \in Published' \/ line \in Noise \/ Passed(offset, r)
        /\ ignored \cap Published' = {}
        /\ line \in Published' \ Published /\ StartAtEnd => ~IsFresh(saved[at])
        /\ \A l : l # line => Times(l)' = Times(l)
        /\ Times(line)' <= 1 + crashes
    <2>1. Times(line) <= 1 + crashes /\ ignored \cap Published = {}
      BY <1>1 DEF ReplayInv, HistoryInv
    <2>2. CASE offset % 2 = 0 /\ line \notin Noise
      <3>1. PICK e \in [source : Sources, line : Lines] :
              e.line = line /\ journal' = Append(journal, e)
        <4>1. journal' = Append(journal, [source |-> at, line |-> line])
          BY <1>3, <2>2 DEF ReadLine
        <4>2. QED
          BY <4>1
      <3>2. /\ Published' = Published \cup {line}
            /\ \A l : l # line => Times(l)' = Times(l)
            /\ Times(line)' = Times(line) + 1
        BY <1>1, <3>1, ReaderTypes, PublishOne
      <3>3. line \notin ignored
        BY <1>4, <1>5, <2>2 DEF IgnoredPassed
      <3>4. Times(line) <= crashes
        <4>1. ~Behind(at, r)
          BY <1>2, <1>3, <1>4, <2>2 DEF Behind
        <4>2. Times(LineAt(at, r)) <= crashes \/ Behind(at, r)
          BY <1>1, <1>2, <1>4, <1>6 DEF ReplayInv
        <4>3. QED
          BY <1>4, <4>1, <4>2
      <3>5. journal' \in Seq([source : Sources, line : Lines])
        BY <1>1, <3>1, ReaderTypes
      <3>6. Times(line)' <= 1 + crashes
        BY <1>6, <3>2, <3>4
      <3>7. QED
        BY <1>5, <2>1, <3>2, <3>3, <3>5, <3>6
    <2>3. CASE ~(offset % 2 = 0 /\ line \notin Noise)
      <3>1. journal' = journal
        BY <1>3, <2>3 DEF ReadLine
      <3>2. Published' = Published /\ \A l : Times(l)' = Times(l)
        BY <3>1 DEF Published, Times
      <3>3. line \in Noise \/ Passed(offset, r)
        BY <1>4, <2>3
      <3>4. journal \in Seq([source : Sources, line : Lines])
        BY <1>1, ReaderTypes
      <3>5. QED
        BY <2>1, <3>1, <3>2, <3>3, <3>4
    <2>4. QED
      BY <2>2, <2>3
  <1>8. Typed'
    <2>1. Size(at) <= 2 * (nextLine - 1) /\ Size(at) \in Nat
      BY <1>1, LogFacts
    <2>2. nextLine \in 1 .. MaxLines + 1 /\ MaxLines \in Nat
      BY <1>1, Counters
    <2>3. offset' \in 0 .. 2 * MaxLines
      BY <1>4, <2>1, <2>2
    <2>4. /\ crashes \in 0 .. MaxCrashes /\ opened \in 0 .. MaxRestarts
          /\ saved \in [Sources -> Cursors] /\ cursors \in [Sources -> Cursors]
          /\ ignored \subseteq Lines /\ source \in Sources
          /\ skipped \in [Sources -> BOOLEAN] /\ pc \in {"down", "open", "read", "save"}
      BY <1>1 DEF Typed, TypeOK
    <2>5. QED
      BY <1>1, <1>2, <1>7, <2>3, <2>4, SidecarTypes
  <1>9. LinesInv'
    <2>1. \A l \in Published \cup ignored : l < nextLine
      BY <1>1 DEF LinesInv
    <2>2. QED
      BY <1>1, <1>2, <1>6, <1>7, <2>1, LinesUnmoved
  <1>10. ASSUME NEW s \in Sources
         PROVE  CursorInv(saved[s], s)' /\ CursorInv(cursors[s], s)'
    <2>1. PICK b, d : b = saved[s] /\ d = cursors[s]
      OBVIOUS
    <2>2. CursorInv(b, s) /\ CursorInv(d, s)
      BY <2>1 DEF SInv
    <2>3. CursorInv(b, s)' /\ CursorInv(d, s)'
      BY <1>2, <1>7, <2>2, CursorStays
    <2>4. b = saved'[s] /\ d = cursors'[s]
      BY <1>2, <2>1
    <2>5. QED
      BY <2>3, <2>4
  <1>11. HandleInv'
    <2>1. \A s \in Sources : IsFresh(cursors[s])' => IsFresh(saved[s])'
      BY <1>1, <1>2 DEF HandleInv, IsFresh
    <2>2. \A t \in source' .. NSources : cursors'[t] = saved'[t]
      BY <1>1, <1>2 DEF HandleInv
    <2>3. source' = at /\ pc' = "read" /\ log' = log /\ Exists(at)'
      BY <1>2, <1>3, <1>5, LogsSame
    <2>4. StartAtEnd => ~IsFresh(saved[at])'
      BY <1>2, <1>5 DEF IsFresh
    <2>5. offset' <= Size(at)'
      BY <1>2, <1>4, LogsSame
    <2>6. opened' = log'[at].epoch /\ ~skipped'[at] => Known(offset, source)'
      <3>1. ASSUME opened = log[at].epoch, ~skipped[at], NEW k \in Places(at),
                   Passed(offset', k), LineAt(at, k) # 0
            PROVE  LineAt(at, k) \in Published' \cup ignored' \cup Noise
        <4>1. k \in Nat \ {0}
          BY <1>1, LogFacts
        <4>2. ASSUME Passed(offset, k)
              PROVE  LineAt(at, k) \in Published' \cup ignored' \cup Noise
          BY <1>2, <1>5, <1>7, <3>1, <4>2 DEF Known
        <4>3. QED
          BY <1>4, <1>7, <3>1, <4>1, <4>2
      <3>2. ASSUME opened' = log'[at].epoch, ~skipped'[at], NEW k \in Places(at)',
                   Passed(offset', k), LineAt(at, k)' # 0
            PROVE  LineAt(at, k)' \in Published' \cup ignored' \cup Noise
        BY <1>2, <3>1, <3>2, LogsSame
      <3>3. QED
        BY <2>3, <3>2 DEF Known, Passed
    <2>7. IgnoredPassed(offset, source, opened = log[source].epoch)'
      <3>1. ASSUME NEW k \in Places(at), LineAt(at, k) \in ignored
            PROVE  opened = log[at].epoch /\ Passed(offset', k)
        <4>1. opened = log[at].epoch /\ Passed(offset, k)
          BY <1>5, <3>1 DEF IgnoredPassed
        <4>2. k \in Nat
          BY <1>1, LogFacts
        <4>3. QED
          BY <1>4, <4>1, <4>2
      <3>2. ASSUME NEW k \in Places(at)', LineAt(at, k)' \in ignored'
            PROVE  opened' = log'[at].epoch /\ Passed(offset', k)
        BY <1>2, <3>1, <3>2, LogsSame
      <3>3. QED
        BY <2>3, <3>2 DEF IgnoredPassed, Passed
    <2>8. opened' <= log'[at].epoch
      BY <1>2, <1>5, <2>3
    <2>9. QED
      BY <2>1, <2>2, <2>3, <2>4, <2>5, <2>6, <2>7, <2>8 DEF HandleInv
  <1>12. HistoryInv'
    <2>1. ASSUME StartAtEnd, NEW s \in Sources, IsFresh(saved[s]), NEW k \in Places(s)
          PROVE  LineAt(s, k) \notin Published'
      <3>1. LineAt(s, k) \notin Published
        BY <1>1, <2>1 DEF HistoryInv
      <3>2. s # at
        BY <1>5, <2>1
      <3>3. LineAt(s, k) # line
        BY <1>1, <1>4, <1>6, <3>2, OnePlace
      <3>4. QED
        BY <1>7, <3>1, <3>3
    <2>2. ~StartAtEnd => ignored' = {}
      BY <1>1, <1>2 DEF HistoryInv
    <2>3. ASSUME StartAtEnd, NEW s \in Sources, IsFresh(saved[s])', NEW k \in Places(s)'
          PROVE  LineAt(s, k)' \notin Published'
      <3>1. IsFresh(saved[s]) /\ k \in Places(s) /\ LineAt(s, k)' = LineAt(s, k)
        BY <1>2, <2>3, LogsSame DEF IsFresh
      <3>2. QED
        BY <2>1, <2>3, <3>1
    <2>4. ignored' \cap Published' = {}
      BY <1>2, <1>7
    <2>5. QED
      BY <2>2, <2>3, <2>4 DEF HistoryInv
  <1>13. ReplayInv'
    <2>1. \A l \in Lines : Times(l)' <= 1 + crashes'
      BY <1>1, <1>2, <1>7 DEF ReplayInv
    <2>2. ASSUME NEW s \in Sources, NEW k \in Places(s), LineAt(s, k) # 0
          PROVE  Times(LineAt(s, k))' <= crashes \/ Behind(s, k)'
      <3>1. CASE LineAt(s, k) = line
        <4>1. s = at /\ k = r
          BY <1>1, <1>4, <1>6, <3>1, OnePlace
        <4>2. QED
          BY <1>2, <1>3, <1>4, <4>1, LogsSame DEF Behind, Passed
      <3>2. CASE LineAt(s, k) # line
        <4>1. Times(LineAt(s, k))' = Times(LineAt(s, k))
          BY <1>2, <1>7, <3>2, LogsSame
        <4>2. Times(LineAt(s, k)) <= crashes \/ Behind(s, k)
          BY <1>1, <1>2, <2>2 DEF ReplayInv
        <4>3. ASSUME Behind(s, k), s = at PROVE Behind(s, k)'
          <5>1. Passed(offset, k) /\ k \in Nat
            BY <1>1, <1>2, <1>3, <4>3, LogFacts DEF Behind
          <5>2. Passed(2 * r, k)
            BY <1>4, <5>1
          <5>3. QED
            BY <1>2, <1>3, <1>4, <4>3, <5>2, LogsSame DEF Behind, Passed
        <4>4. ASSUME Behind(s, k), s # at PROVE Behind(s, k)'
          BY <1>2, <1>3, <4>4, LogsSame DEF Behind, Passed
        <4>5. QED
          BY <4>1, <4>2, <4>3, <4>4
      <3>3. QED
        BY <3>1, <3>2
    <2>3. ASSUME NEW s \in Sources, NEW k \in Places(s)', LineAt(s, k)' # 0
          PROVE  Times(LineAt(s, k))' <= crashes' \/ Behind(s, k)'
      BY <1>2, <2>2, <2>3, LogsSame
    <2>4. QED
      BY <1>2, <2>1, <2>3 DEF ReplayInv
  <1>14. QED
    BY <1>8, <1>9, <1>10, <1>11, <1>12, <1>13 DEF SInv

\* The end of a log: the cursor moves to the handle.
LEMMA EndStep ==
  ASSUME SInv, EndOfLog
  PROVE  SInv'
  <1>1. Typed /\ LinesInv /\ HandleInv /\ HistoryInv /\ ReplayInv
    BY DEF SInv
  <1>2. /\ pc = "read" /\ NextSource /\ UNCHANGED logs /\ journal' = journal
        /\ saved' = saved /\ crashes' = crashes /\ opened' = opened
        /\ ignored' = ignored /\ skipped' = skipped
        /\ cursors' = [cursors EXCEPT ![source] = Cursor(offset, log[source].inode, opened)]
    BY DEF EndOfLog, durable, history
  <1>3. Published' = Published /\ \A line : Times(line)' = Times(line)
    BY <1>2 DEF Published, Times
  <1>4. /\ pc' \in {"open", "save"} /\ source' \in Sources /\ offset' = 0
        /\ pc' = "open" => source' = source + 1
    BY <1>1, <1>2, NextSourceIs
  <1>5. PICK at, c :
          /\ at \in Sources /\ at = source
          /\ c = [offset |-> offset, inode |-> log[source].inode, epoch |-> opened]
    BY <1>1, ReaderTypes
  <1>6. c.offset = offset /\ c.inode = log[at].inode /\ c.epoch = opened
    BY <1>5
  <1>7. /\ Exists(at) /\ opened <= log[at].epoch
        /\ opened = log[at].epoch => offset <= Size(at)
        /\ opened = log[at].epoch /\ ~skipped[at] => Known(offset, at)
        /\ IgnoredPassed(offset, at, opened = log[at].epoch)
    BY <1>1, <1>2, <1>5 DEF HandleInv
  <1>8. c \in Cursors
    <2>1. /\ offset \in 0 .. 2 * MaxLines /\ opened \in 0 .. MaxRestarts
          /\ log[at].inode \in 0 .. MaxRestarts + 1
      BY <1>1, <1>5, LogFacts DEF Typed, TypeOK
    <2>2. QED
      BY <1>5, <2>1 DEF Cursors
  <1>9. /\ cursors' \in [Sources -> Cursors] /\ cursors'[at] = c
        /\ \A s \in Sources \ {at} : cursors'[s] = cursors[s]
    BY <1>1, <1>2, <1>5, <1>8, ReaderTypes DEF Cursor
  <1>10. c.inode # 0 /\ ~IsFresh(c)
    BY <1>6, <1>7 DEF Exists, IsFresh
  <1>11. CursorInv(c, at)
    <2>1. Matches(c, at) <=> opened = log[at].epoch
      BY <1>6 DEF Matches
    <2>2. IgnoredPassed(c.offset, at, Matches(c, at))
      BY <1>6, <1>7, <2>1 DEF IgnoredPassed
    <2>3. QED
      BY <1>6, <1>7, <1>10, <2>1, <2>2 DEF CursorInv
  <1>12. Typed'
    <2>1. 0 \in 0 .. 2 * MaxLines
      BY ConstantsAssumption
    <2>2. /\ journal \in Seq([source : Sources, line : Lines]) /\ crashes \in 0 .. MaxCrashes
          /\ opened \in 0 .. MaxRestarts /\ skipped \in [Sources -> BOOLEAN]
          /\ saved \in [Sources -> Cursors] /\ ignored \subseteq Lines
      BY <1>1 DEF Typed, TypeOK
    <2>3. QED
      BY <1>1, <1>2, <1>4, <1>9, <2>1, <2>2, SidecarTypes
  <1>13. LinesInv'
    BY <1>1, <1>2, <1>3, LinesUnmoved DEF LinesInv
  <1>14. ASSUME NEW s \in Sources
         PROVE  CursorInv(saved[s], s)' /\ CursorInv(cursors[s], s)'
    <2>1. PICK b, d : b = saved[s] /\ d = cursors'[s]
      OBVIOUS
    <2>2. CursorInv(b, s)
      BY <2>1 DEF SInv
    <2>3. CursorInv(d, s)
      <3>1. CASE s = at
        BY <1>9, <1>11, <2>1, <3>1
      <3>2. CASE s # at
        BY <1>9, <2>1, <3>2 DEF SInv
      <3>3. QED
        BY <3>1, <3>2
    <2>4. CursorInv(b, s)' /\ CursorInv(d, s)'
      BY <1>2, <1>3, <2>2, <2>3, CursorStays
    <2>5. b = saved'[s]
      BY <1>2, <2>1
    <2>6. QED
      BY <2>1, <2>4, <2>5
  <1>15. HandleInv'
    <2>1. \A s \in Sources : IsFresh(cursors[s]) => IsFresh(saved[s])
      BY <1>1, <1>2 DEF HandleInv
    <2>2. \A s \in Sources : IsFresh(cursors[s])' => IsFresh(saved[s])'
      BY <1>2, <1>9, <1>10, <2>1 DEF IsFresh
    <2>3. pc' = "open" => \A t \in source' .. NSources : cursors'[t] = saved'[t]
      <3>1. \A t \in source .. NSources : cursors[t] = saved[t]
        BY <1>1, <1>2 DEF HandleInv
      <3>2. source \in Nat /\ NSources \in Nat /\ Sources = 1 .. NSources
        BY <1>1, ReaderTypes DEF Sources
      <3>3. \A t \in source + 1 .. NSources :
              t \in source .. NSources /\ t \in Sources \ {at}
        BY <1>5, <3>2
      <3>4. QED
        BY <1>2, <1>4, <1>9, <3>1, <3>3
    <2>4. QED
      BY <1>4, <2>2, <2>3 DEF HandleInv
  <1>16. HistoryInv'
    BY <1>1, <1>2, <1>3, LogsSame DEF HistoryInv, IsFresh
  <1>17. ReplayInv'
    <2>1. ASSUME NEW s \in Sources, NEW k \in Places(s), Behind(s, k)
          PROVE  Behind(s, k)'
      <3>1. CASE s = at
        <4>1. Passed(offset, k) /\ offset <= Size(at)
          BY <1>2, <1>5, <2>1, <3>1 DEF Behind
        <4>2. QED
          BY <1>2, <1>4, <1>6, <1>9, <3>1, <4>1, LogsSame DEF Behind, Passed
      <3>2. CASE s # at
        BY <1>2, <1>4, <1>5, <1>9, <2>1, <3>2, LogsSame DEF Behind, Passed
      <3>3. QED
        BY <3>1, <3>2
    <2>2. QED
      BY <1>1, <1>2, <1>3, <1>4, <2>1, LogsSame DEF ReplayInv
  <1>18. QED
    BY <1>12, <1>13, <1>14, <1>15, <1>16, <1>17 DEF SInv

\* The cursors are saved, or the process ends.
LEMMA SaveOrCrash ==
  ASSUME SInv, Save \/ Crash
  PROVE  SInv'
  <1>1. Typed /\ LinesInv /\ HandleInv /\ HistoryInv /\ ReplayInv
    BY DEF SInv
  <1>2. /\ UNCHANGED logs /\ journal' = journal /\ cursors' = cursors
        /\ offset' = offset /\ opened' = opened /\ ignored' = ignored /\ skipped' = skipped
        /\ saved' = saved \/ saved' = cursors
    BY DEF Save, Crash, durable, history
  <1>3. Published' = Published /\ \A line : Times(line)' = Times(line)
    BY <1>2 DEF Published, Times
  <1>4. /\ crashes \in Nat /\ \A line \in Lines : Times(line) \in Nat
        /\ Times(0) \in Nat
    BY <1>1, ReaderTypes
  <1>5. Typed'
    <2>1. /\ journal \in Seq([source : Sources, line : Lines]) /\ offset \in 0 .. 2 * MaxLines
          /\ opened \in 0 .. MaxRestarts /\ skipped \in [Sources -> BOOLEAN]
          /\ saved \in [Sources -> Cursors] /\ cursors \in [Sources -> Cursors]
          /\ ignored \subseteq Lines /\ source \in Sources /\ crashes \in 0 .. MaxCrashes
      BY <1>1 DEF Typed, TypeOK
    <2>2. pc' \in {"down", "open"}
      BY DEF Save, Crash
    <2>3. source' \in Sources
      BY <2>1, ConstantsAssumption DEF Save, Crash, Sources
    <2>4. crashes' \in 0 .. MaxCrashes
      BY <2>1, ConstantsAssumption DEF Save, Crash
    <2>5. QED
      BY <1>1, <1>2, <2>1, <2>2, <2>3, <2>4, SidecarTypes
  <1>6. LinesInv'
    BY <1>1, <1>2, <1>3, LinesUnmoved DEF LinesInv
  <1>7. ASSUME NEW s \in Sources
        PROVE  CursorInv(saved[s], s)' /\ CursorInv(cursors[s], s)'
    <2>1. PICK b, d : b = saved'[s] /\ d = cursors[s]
      OBVIOUS
    <2>2. CursorInv(b, s) /\ CursorInv(d, s)
      BY <1>2, <2>1 DEF SInv
    <2>3. CursorInv(b, s)' /\ CursorInv(d, s)'
      BY <1>2, <1>3, <2>2, CursorStays
    <2>4. d = cursors'[s]
      BY <1>2, <2>1
    <2>5. QED
      BY <2>1, <2>3, <2>4
  <1>8. CASE Save
    <2>1. pc = "save" /\ pc' = "open" /\ saved' = cursors /\ crashes' = crashes
      BY <1>8 DEF Save
    <2>2. HandleInv'
      BY <1>2, <2>1 DEF HandleInv
    <2>3. \A s \in Sources : IsFresh(saved[s])' => IsFresh(saved[s])
      BY <1>1, <2>1 DEF HandleInv, IsFresh
    <2>4. HistoryInv'
      BY <1>1, <1>2, <1>3, <2>3, LogsSame DEF HistoryInv
    <2>5. \A s, k : Behind(s, k) => Behind(s, k)'
      BY <1>2, <2>1, LogsSame DEF Behind, Passed
    <2>6. ReplayInv'
      BY <1>1, <1>2, <1>3, <2>1, <2>5, LogsSame DEF ReplayInv
    <2>7. QED
      BY <1>5, <1>6, <1>7, <2>2, <2>4, <2>6 DEF SInv
  <1>9. CASE Crash
    <2>1. pc' = "down" /\ saved' = saved /\ crashes' = crashes + 1
      BY <1>9 DEF Crash, durable
    <2>2. HandleInv'
      BY <2>1 DEF HandleInv
    <2>3. HistoryInv'
      BY <1>1, <1>2, <1>3, <2>1, LogsSame DEF HistoryInv, IsFresh
    <2>4. \A line \in Lines : Times(line)' <= crashes' /\ Times(line)' <= 1 + crashes'
      <3>1. \A line \in Lines : Times(line) <= 1 + crashes
        BY <1>1 DEF ReplayInv
      <3>2. QED
        BY <1>3, <1>4, <2>1, <3>1
    <2>5. ReplayInv'
      BY <2>1, <2>4 DEF ReplayInv
    <2>6. QED
      BY <1>5, <1>6, <1>7, <2>2, <2>3, <2>5 DEF SInv
  <1>10. QED
    BY <1>8, <1>9

(***************************************************************************)
(* The theorems.                                                           *)
(***************************************************************************)
\* The first state.
LEMMA Initial == Init => SInv
  <1>1. SUFFICES ASSUME Init PROVE SInv
    OBVIOUS
  <1>2. /\ nextLine = 1 /\ restarts = 0 /\ journal = <<>> /\ cursors = saved /\ pc = "down"
        /\ saved = [s \in Sources |-> Fresh]
        /\ source = 1 /\ offset = 0 /\ crashes = 0 /\ opened = 0 /\ ignored = {}
        /\ skipped = [s \in Sources |-> FALSE]
    BY <1>1 DEF Init
  <1>3. /\ MaxLines \in Nat /\ MaxRestarts \in Nat /\ MaxCrashes \in Nat
        /\ NSources \in Nat \ {0}
    BY ConstantsAssumption
  <1>4. ASSUME NEW s \in Sources
        PROVE  /\ log[s] \in Logs /\ log[s].inode \in {0, 1} /\ log[s].lines = <<>>
               /\ log[s].torn = 0 /\ log[s].epoch = 0
    <2>1. PICK i \in {0, 1} : log[s] = [inode |-> i, lines |-> <<>>, torn |-> 0, epoch |-> 0]
      BY <1>1 DEF Init, NoLog
    <2>2. <<>> \in Seq(Lines)
      OBVIOUS
    <2>3. PICK none \in Seq(Lines) : none = <<>>
      BY <2>2
    <2>4. log[s] = [inode |-> i, lines |-> none, torn |-> 0, epoch |-> 0]
      BY <2>1, <2>3
    <2>5. i \in 0 .. MaxRestarts + 1 /\ 0 \in 0 .. MaxRestarts
      BY <1>3
    <2>6. log[s] \in Logs
      BY <2>4, <2>5 DEF Logs
    <2>7. QED
      BY <2>1, <2>6
  <1>5. ASSUME NEW s \in Sources
        PROVE  Size(s) = 0 /\ \A k \in Places(s) : LineAt(s, k) = 0
    <2>1. Len(log[s].lines) = 0 /\ log[s].torn = 0
      BY <1>4
    <2>2. QED
      BY <2>1 DEF Size, Places, LineAt
  <1>6. Fresh \in Cursors /\ IsFresh(Fresh) /\ Fresh.epoch = 0 /\ Fresh.inode = 0 /\ Fresh.offset = 0
    BY <1>3 DEF Fresh, Cursors, IsFresh
  <1>7. Published = {}
    BY <1>2 DEF Published, ToSet
  <1>8. journal \in Seq([source : Sources, line : Lines])
    BY <1>2
  <1>9. \A line : Times(line) = 0
    BY <1>7, <1>8, PublishedFacts
  <1>10. TypeOK
    <2>1. \A s \in Sources : /\ log[s].inode \in 0 .. MaxRestarts + 1
                             /\ log[s].lines \in Seq(Lines)
                             /\ log[s].torn \in Lines \cup {0}
                             /\ log[s].epoch \in 0 .. MaxRestarts
      BY <1>4 DEF Logs
    <2>2. 1 \in 1 .. MaxLines + 1 /\ 0 \in 0 .. MaxRestarts /\ 0 \in 0 .. MaxCrashes
          /\ 0 \in 0 .. 2 * MaxLines /\ 1 \in Sources
      BY <1>3 DEF Sources
    <2>3. saved \in [Sources -> Cursors] /\ skipped \in [Sources -> BOOLEAN]
      BY <1>2, <1>6
    <2>4. QED
      BY <1>2, <1>8, <2>1, <2>2, <2>3 DEF TypeOK
  <1>11. Typed
    <2>1. log \in [Sources -> {NoLog, [NoLog EXCEPT !.inode = 1]}]
      BY <1>1 DEF Init
    <2>2. log \in [Sources -> Logs]
      BY <1>4, <2>1
    <2>3. QED
      BY <1>10, <2>2 DEF Typed
  <1>12. LinesInv
    BY <1>2, <1>4, <1>5, <1>7 DEF LinesInv
  <1>13. ASSUME NEW s \in Sources PROVE CursorInv(Fresh, s)
    BY <1>2, <1>4, <1>5, <1>6 DEF CursorInv, Known, IgnoredPassed
  <1>14. \A s \in Sources : CursorInv(saved[s], s) /\ CursorInv(cursors[s], s)
    BY <1>2, <1>13
  <1>15. HandleInv /\ HistoryInv
    BY <1>2, <1>7 DEF HandleInv, HistoryInv
  <1>16. ReplayInv
    BY <1>2, <1>9 DEF ReplayInv
  <1>17. QED
    BY <1>11, <1>12, <1>14, <1>15, <1>16 DEF SInv

\* Nothing moves.
LEMMA Stutters ==
  ASSUME SInv, UNCHANGED vars
  PROVE  SInv'
  <1>1. Typed /\ LinesInv
    BY DEF SInv
  <1>2. /\ log' = log /\ nextLine' = nextLine /\ restarts' = restarts
        /\ UNCHANGED <<durable, process, history>>
    BY DEF vars, logs
  <1>3. \A s \in Sources : LogKept(s) /\ Size(s)' = Size(s) /\ Places(s)' = Places(s)
    BY <1>1, <1>2, SameLog
  <1>4. ASSUME NEW s \in Sources, NEW k \in Places(s)'
        PROVE  LineAt(s, k)' # nextLine
    <2>1. k \in Places(s) /\ LineAt(s, k)' = LineAt(s, k)
      BY <1>1, <1>2, <1>3, <1>4, SameLog
    <2>2. LineAt(s, k) \in Nat /\ LineAt(s, k) < nextLine
      BY <1>1, <2>1, LogFacts
    <2>3. QED
      BY <1>1, <2>1, <2>2, Counters
  <1>5. NewOnce
    BY <1>4 DEF NewOnce
  <1>6. \A s \in Sources : /\ Size(s) <= 2 * (nextLine - 1) /\ log[s].epoch <= restarts
                           /\ log[s].inode <= restarts + 1
    BY <1>1, LogFacts
  <1>7. /\ nextLine \in 1 .. MaxLines + 1 /\ nextLine <= nextLine
        /\ restarts \in 0 .. MaxRestarts /\ restarts <= restarts
    BY <1>1, Counters
  <1>8. log' \in [Sources -> Logs]
    BY <1>1, <1>2 DEF Typed
  <1>9. LogsMove
    BY <1>2, <1>3, <1>5, <1>6, <1>7, <1>8 DEF LogsMove
  <1>10. QED
    BY <1>2, <1>9, TraderStep

\* Every step of the sidecar and of the traders keeps the invariant.
LEMMA StepKeeps == SInv /\ [Next]_vars => SInv'
  <1>1. SUFFICES ASSUME SInv, [Next]_vars PROVE SInv'
    OBVIOUS
  <1>2. CASE Start
    BY <1>1, <1>2, StartStep
  <1>3. CASE Open
    BY <1>1, <1>3, OpenStep
  <1>4. CASE ReadLine
    BY <1>1, <1>4, ReadStep
  <1>5. CASE EndOfLog
    BY <1>1, <1>5, EndStep
  <1>6. CASE Save \/ Crash
    BY <1>1, <1>6, SaveOrCrash
  <1>7. ASSUME NEW s \in Sources, BeginLine(s) \/ EndLine(s) \/ RestartTrader(s)
        PROVE  SInv'
    <2>1. UNCHANGED <<durable, process, history>>
      BY <1>7 DEF BeginLine, EndLine, RestartTrader
    <2>2. LogsMove
      BY <1>1, <1>7, TraderWrites DEF SInv
    <2>3. QED
      BY <1>1, <2>1, <2>2, TraderStep
  <1>8. CASE UNCHANGED vars
    BY <1>1, <1>8, Stutters
  <1>9. QED
    BY <1>1, <1>2, <1>3, <1>4, <1>5, <1>6, <1>7, <1>8 DEF Next, Sidecar

\* The invariant holds of the sidecar by itself.
THEOREM SidecarInvariance == Spec => []SInv
  <1>1. Init => SInv
    BY Initial
  <1>2. SInv /\ [Next]_vars => SInv'
    BY StepKeeps
  <1>3. QED
    BY <1>1, <1>2, PTL DEF Spec

\* It holds next to the API, which moves no variable of the sidecar.
THEOREM Invariance == RuntimeSpec => []SInv
  <1>1. RuntimeInit => SInv
    BY Initial DEF RuntimeInit
  <1>2. SInv /\ [SidecarMoves \/ ApiMoves]_<<moves, vars, validationVars>> => SInv'
    <2>1. SUFFICES ASSUME SInv, [SidecarMoves \/ ApiMoves]_<<moves, vars, validationVars>>
                   PROVE  SInv'
      OBVIOUS
    <2>2. [Next]_vars
      BY <2>1 DEF SidecarMoves, ApiMoves
    <2>3. QED
      BY <2>1, <2>2, StepKeeps
  <1>3. QED
    BY <1>1, <1>2, PTL DEF RuntimeSpec

\* What a saved cursor has passed is in the journal (save of poll_once after
\* publish): no crash of the sidecar and no restart of a trader loses a line,
\* unless a new log had outgrown the old cursor.
THEOREM ConsumedPublished == RuntimeSpec => []ConsumedIsPublished
  <1>1. SInv => ConsumedIsPublished
    <2>1. SUFFICES ASSUME SInv, NEW s \in Sources,
                          saved[s].epoch = log[s].epoch, saved[s].inode = log[s].inode,
                          ~skipped[s], NEW k \in 1 .. Len(log[s].lines),
                          2 * k <= saved[s].offset
                   PROVE  log[s].lines[k] \in Published \cup ignored \cup Noise
      BY DEF ConsumedIsPublished
    <2>2. Typed /\ LinesInv /\ CursorInv(saved[s], s)
      BY <2>1 DEF SInv
    <2>3. Known(saved[s].offset, s)
      BY <2>1, <2>2 DEF CursorInv, Matches
    <2>4. Len(log[s].lines) \in Nat /\ log[s].lines \in Seq(Lines) /\ saved[s].offset \in Nat
      BY <2>2, LogFacts, ReaderTypes
    <2>5. k \in Places(s) /\ LineAt(s, k) = log[s].lines[k]
      BY <2>4 DEF Places, LineAt
    <2>6. Passed(saved[s].offset, k)
      BY <2>1, <2>4 DEF Passed
    <2>7. log[s].lines[k] \in Lines
      BY <2>4
    <2>8. LineAt(s, k) # 0
      BY <2>2, <2>5, <2>7, ReaderTypes
    <2>9. QED
      BY <2>3, <2>5, <2>6, <2>8 DEF Known
  <1>2. QED
    BY <1>1, Invariance, PTL

\* Events from before the sidecar attached to a log never reach the live room.
THEOREM HistoryStaysOut == RuntimeSpec => []HistoryNotReplayed
  <1>1. SInv => HistoryNotReplayed
    BY DEF SInv, HistoryInv, HistoryNotReplayed
  <1>2. QED
    BY <1>1, Invariance, PTL

\* A line is published once, and once more for each end of the process at most.
THEOREM ReplaysAreCrashes == RuntimeSpec => []ReplayNeedsCrash
  <1>1. SInv => ReplayNeedsCrash
    BY DEF SInv, ReplayInv, ReplayNeedsCrash, Times
  <1>2. QED
    BY <1>1, Invariance, PTL

(***************************************************************************)
(* The API next to the sidecar.  The proofs about the validation trade are *)
(* of a module of their own; its definitions, over the variables of this   *)
(* one, are those of Validation.                                           *)
(***************************************************************************)
P == INSTANCE Phase41Validation_proofs

\* The validation trade of the runtime is the one the proofs are about.
LEMMA SameLane ==
  /\ Validation!Init <=> P!Init
  /\ Validation!Next <=> P!Next
  /\ Validation!TypeOK <=> P!TypeOK
  /\ Validation!LossIsTold <=> P!LossIsTold
  BY Zenon DEF
         Validation!Cardinality, Validation!lane, Validation!Entries, Validation!Lane,
         Validation!NoEntry, Validation!NoCopy, Validation!Kinds, Validation!Idle,
         Validation!At, Validation!Kind, Validation!Answered,
         Validation!AnsweredInDoubt, Validation!Goes, Validation!GoesLoaded,
         Validation!Asked, Validation!Open, Validation!First, Validation!Starts,
         Validation!ReadsCandles, Validation!ReadsPrice, Validation!RequestFails,
         Validation!Answers, Validation!Executed, Validation!Acknowledged,
         Validation!Buys, Validation!Sells, Validation!Raises, Validation!Saved,
         Validation!After, Validation!Captures, Validation!Saves,
         Validation!StoreRaises, Validation!Due, Validation!SweepStarts,
         Validation!Visits, Validation!Fetches, Validation!SweepEnds,
         Validation!Reports, Validation!ProcessEnds, Validation!Waits,
         Validation!Init, Validation!Next, Validation!Labels, Validation!TypeOK,
         Validation!InProgress, Validation!LossIsTold, Validation!NoPosition,
         Validation!UnresolvedStatuses, Validation!Statuses, Validation!RecStatuses,
         Validation!Positions, Validation!ExitKinds, Validation!Tracked,
         Validation!Unresolved, Validation!ActivePositions,
         Validation!UnresolvedPositions, Validation!AddRefused,
         Validation!AddPosition, Validation!Closed, Validation!MarkClosed,
         Validation!MarkReconciliationError, Validation!ReconciledRow,
         Validation!ReconcileFills,
         P!Cardinality, P!lane, P!Entries, P!Lane, P!NoEntry, P!NoCopy, P!Kinds,
         P!Idle, P!At, P!Kind, P!Answered, P!AnsweredInDoubt, P!Goes, P!GoesLoaded,
         P!Asked, P!Open, P!First, P!Starts, P!ReadsCandles, P!ReadsPrice,
         P!RequestFails, P!Answers, P!Executed, P!Acknowledged, P!Buys, P!Sells,
         P!Raises, P!Saved, P!After, P!Captures, P!Saves, P!StoreRaises, P!Due,
         P!SweepStarts, P!Visits, P!Fetches, P!SweepEnds, P!Reports, P!ProcessEnds,
         P!Waits, P!Init, P!Next, P!Labels, P!TypeOK, P!InProgress, P!LossIsTold,
         P!NoPosition, P!UnresolvedStatuses, P!Statuses, P!RecStatuses, P!Positions,
         P!ExitKinds, P!Tracked, P!Unresolved, P!ActivePositions,
         P!UnresolvedPositions, P!AddRefused, P!AddPosition, P!Closed, P!MarkClosed,
         P!MarkReconciliationError, P!ReconciledRow, P!ReconcileFills

\* Both processes keep their invariants.
RInv == moves \in {"sidecar", "api"} /\ SInv /\ P!VInv

\* No step of the one reads or writes what the other's invariant is about.
LEMMA RuntimeInvariance == RuntimeSpec => []RInv
  <1>1. P!Bounds
    BY ValidationAssumption DEF P!Bounds
  <1>2. RuntimeInit => RInv
    BY <1>1, Initial, SameLane, P!InitHolds DEF RuntimeInit, RInv
  <1>3. RInv /\ [SidecarMoves \/ ApiMoves]_<<moves, vars, validationVars>> => RInv'
    <2>1. SUFFICES ASSUME RInv, [SidecarMoves \/ ApiMoves]_<<moves, vars, validationVars>>
                   PROVE  RInv'
      OBVIOUS
    <2>2. [Next]_vars /\ moves' = moves
      BY <2>1 DEF SidecarMoves, ApiMoves
    <2>3. [P!Next]_(P!lane)
      BY <2>1, SameLane DEF SidecarMoves, ApiMoves, validationVars, P!lane
    <2>4. SInv'
      BY <2>1, <2>2, StepKeeps DEF RInv
    <2>5. P!VInv'
      BY <1>1, <2>1, <2>3, P!StepKeeps DEF RInv
    <2>6. QED
      BY <2>1, <2>2, <2>4, <2>5 DEF RInv
  <1>4. QED
    BY <1>2, <1>3, PTL DEF RuntimeSpec

\* Type correctness of both processes.
THEOREM TypeCorrect == RuntimeSpec => []RuntimeTypeOK
  <1>1. RInv => RuntimeTypeOK
    BY SameLane, P!Told DEF RInv, SInv, Typed, RuntimeTypeOK
  <1>2. QED
    BY <1>1, RuntimeInvariance, PTL

\* The file of the validation trade never shows two open positions, and it is
\* right about every entry that no request has lost, undone or raced for.
THEOREM LossTold == RuntimeSpec => []ValidationLossIsTold
  <1>1. RInv => ValidationLossIsTold
    BY SameLane, P!Told DEF RInv, ValidationLossIsTold
  <1>2. QED
    BY <1>1, RuntimeInvariance, PTL
=============================================================================
