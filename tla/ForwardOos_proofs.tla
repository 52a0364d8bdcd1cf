-------------------------- MODULE ForwardOos_proofs --------------------------
(***************************************************************************)
(* Safety of ForwardOos for any markets, milestones and settings, and for  *)
(* any number of hours, appends by hand, manifests and faults.  The        *)
(* inductive invariant adds to the types what an accumulation has appended *)
(* so far, what a checkpoint counts, which files agree at which stage, and *)
(* what the scheduler may know of the last script.                         *)
(***************************************************************************)
EXTENDS ForwardOos, FiniteSetTheorems, TLAPS

\* The views the daily replay may have had.
SeenViews == {FALSE, filled}

\* What no append by hand has touched holds trades the daily replay found.
Known(until) ==
  {t \in market[<<"daily", FALSE>>] \cup market[<<"daily", filled>>] :
     t.closed <= until /\ t.entered >= 1}

Untouched(until, trades) == byHand = {} => trades \subseteq Known(until)

StoreInv == Untouched(now, store)

\* What an accumulation has appended, or is about to write.
FreshOf(i) ==
  {t \in Fresh(run.filled, run.until, pin) : t.strategy = CanonicalStrategies[i]}

Holds(trades, next) ==
  "dropped" \notin byHand =>
    \A i \in 1 .. Len(CanonicalStrategies) : i < next => FreshOf(i) \subseteq trades

AppendInv ==
  /\ pc \in {"append", "write"} =>
       /\ run.until \in 1 .. now /\ run.filled \in SeenViews
       /\ Untouched(run.until, store) /\ Holds(store, run.next)
  /\ pc = "write" =>
       /\ run.next <= Len(CanonicalStrategies)
       /\ Untouched(run.until, run.trades) /\ Holds(run.trades, run.next + 1)

\* A count stands for the trades of a manifest up to an hour.
Counted(count, until, manifest) ==
  /\ "dropped" \notin byHand =>
       \E full \in SeenViews : Cardinality(Fresh(full, until, manifest)) <= count
  /\ byHand = {} =>
       count <= Cardinality(Fresh(FALSE, until, manifest) \cup Fresh(filled, until, manifest))

CheckpointInv ==
  /\ checkpoint # NoCheckpoint =>
       /\ checkpoint.until \in 1 .. now /\ checkpoint.pin \in 1 .. Len(earliest)
       /\ Counted(checkpoint.count, checkpoint.until, checkpoint.pin)
  /\ pc \in {"audit", "audited", "gate", "frozen", "milestones", "alert", "sent"} =>
       checkpoint # NoCheckpoint

\* A count of the store, taken after the audit, against the checkpoint's.
FollowsCheckpoint(count) ==
  /\ "dropped" \notin byHand => checkpoint.count <= count
  /\ byHand = {} => checkpoint.count = count

\* What the files of a running script share.
StageInv ==
  /\ pc \in {"audited", "gate", "frozen"} => checkpoint.pin = pin
  /\ pc \in {"audited", "gate"} => FollowsCheckpoint(Cardinality(store))
  /\ pc = "frozen" => gate = pin /\ FollowsCheckpoint(Cardinality(run.trades))
  /\ pc \in {"audited", "gate", "frozen", "milestones", "alert", "sent"} =>
       integrity.count = checkpoint.count
  /\ pc \in {"milestones", "alert", "sent"} => FollowsCheckpoint(promotion.signals)
  /\ pc = "milestones" => promotion.pin = checkpoint.pin

CountsAgree ==
  promotion.signals = checkpoint.count /\ integrity.count = checkpoint.count

SuccessHeard ==
  \/ heard = "awaited" /\ scheduler = "succeeded"
  \/ heard = "yes" /\ result = "SUCCESS"

\* Whom the script's exit code reaches, and what a success that reached the
\* scheduler says about the files.
SchedulerInv ==
  /\ heard = "awaited" => scheduler \in {"waits", "succeeded", "failed"}
  /\ scheduler = "waits" => heard = "awaited" /\ pc # "idle"
  /\ pc # "idle" => heard # "yes" /\ (heard = "awaited" => scheduler = "waits")
  /\ SuccessHeard /\ byHand = {} /\ checkpoint # NoCheckpoint => CountsAgree

IInv ==
  /\ TypeOK /\ StoreInv /\ AppendInv /\ CheckpointInv /\ StageInv /\ SchedulerInv
  /\ MilestoneAudited /\ OneFrozenContract

-------------------------------------------------------------------------------
(***************************************************************************)
(* The verdicts, and the trades of a market.                               *)
(***************************************************************************)
\* What validate and the gate may answer.
LEMMA Verdicts ==
  ASSUME NEW rows
  PROVE  /\ EvidenceState(rows) \in {"TOO_EARLY", "PASS", "EVALUATE", "FAIL"}
         /\ Decision(rows) \in {"TOO_EARLY", "REJECT", "CONTINUE_ACCUMULATING", "ACCEPT"}
  BY DEF EvidenceState, Decision

\* A market holds finitely many trades, so every set of them can be counted.
LEMMA Countable ==
  ASSUME TypeOK, NEW trades, trades \subseteq AllTrades
  PROVE  /\ IsFiniteSet(trades) /\ Cardinality(trades) \in Nat
         /\ \A some : some \subseteq trades =>
              IsFiniteSet(some) /\ Cardinality(some) \in Nat
              /\ Cardinality(some) <= Cardinality(trades)
<1>1. IsFiniteSet(AllTrades)
  BY ForwardAssumption DEF TypeOK, AllTrades
<1>2. trades \in SUBSET AllTrades
  OBVIOUS
<1>3. IsFiniteSet(trades)
  BY <1>1, <1>2, FS_Subset
<1>4. \A some : some \subseteq trades =>
        IsFiniteSet(some) /\ Cardinality(some) <= Cardinality(trades)
  BY <1>3, FS_Subset
<1>5. QED
  BY <1>3, <1>4, FS_CardinalityType

\* A replay finds trades of the market.
LEMMA ReplayFacts ==
  ASSUME TypeOK, NEW full \in BOOLEAN, NEW setting \in Settings
  PROVE  /\ market[<<setting, full>>] \subseteq AllTrades
         /\ \A t \in market[<<setting, full>>] : t \in Trades
         /\ \A strategy, until, boundary :
              Kept(Replay(strategy, until, setting, full), boundary) \subseteq AllTrades
<1>1. <<setting, full>> \in Views
  BY DEF Views
<1>2. market[<<setting, full>>] \subseteq AllTrades
  BY <1>1 DEF AllTrades
<1>3. market[<<setting, full>>] \subseteq Trades
  BY <1>1, ForwardAssumption DEF TypeOK
<1>4. \A strategy, until, boundary :
        Kept(Replay(strategy, until, setting, full), boundary) \subseteq market[<<setting, full>>]
  BY DEF Kept, Replay
<1>5. QED
  BY <1>2, <1>3, <1>4

\* The fresh trades are trades of the market, in any view.
LEMMA FreshFacts ==
  ASSUME TypeOK, NEW full \in BOOLEAN
  PROVE  \A until, manifest : Fresh(full, until, manifest) \subseteq AllTrades
<1>1. "daily" \in Settings
  BY ForwardAssumption
<1>2. market[<<"daily", full>>] \subseteq AllTrades
  BY <1>1, ReplayFacts
<1>3. QED
  BY <1>2 DEF Fresh

-------------------------------------------------------------------------------
(***************************************************************************)
(* What a step leaves as it is.                                            *)
(***************************************************************************)
\* The market stays, a gap is filled once and manifests are only added; what an
\* append by hand did is not forgotten; and each file has its few writers.
LEMMA Frame ==
  ASSUME TypeOK, Next
  PROVE  /\ market' = market /\ (filled' = filled \/ filled' = TRUE)
         /\ (now' = now \/ Tick) /\ byHand \subseteq byHand'
         /\ (earliest' = earliest \/ Refreezes) /\ (byHand' = byHand \/ HandWrites)
         /\ (store' = store \/ Writes \/ HandWrites \/ StoreRestored)
         /\ (checkpoint' = checkpoint \/ Checkpoints \/ PinRemoved)
         /\ (audited' = audited \/ AuditSaves)
         /\ (integrity' = integrity \/ AuditPasses \/ AuditFails)
         /\ (gate' = gate \/ GateFreezes \/ PinRemoved)
         /\ (promotion' = promotion \/ GateReports \/ GateTears)
         /\ ((history' = history /\ candidate' = candidate) \/ RecordsMilestones)
         /\ (run' \in {run, NoRun} \/ Fetches \/ Loads \/ Writes \/ AuditPasses \/ GateFreezes)
         /\ (hand' \in {hand, NoHand} \/ HandStarts \/ HandLoads \/ HandWrites)
         /\ (left' = left \/ \E kind \in Disturbances : Spends(kind))
<1> USE DEF files, records, alerts, world, script, daemon, manual
<1>1. CASE SchedulerStarts
  BY <1>1
  DEF SchedulerStarts, ScriptStarts
<1>2. CASE CronStarts
  BY <1>2
  DEF CronStarts, ScriptStarts
<1>3. CASE SchedulerSkips
  BY <1>3
  DEF SchedulerSkips
<1>4. CASE StateWritten
  BY <1>4
  DEF StateWritten
<1>5. CASE NoNewData
  BY <1>5
  DEF NoNewData, LastClosedHour
<1>6. CASE Fetches
  BY <1>6
  DEF Fetches, LastClosedHour
<1>7. CASE PinRefused
  BY <1>7
  DEF PinRefused, Fails, Ends
<1>8. CASE Loads
  BY <1>8
  DEF Loads
<1>9. CASE Writes
  BY <1>9
  DEF Writes
<1>10. CASE AppendRefused
  BY <1>10
  DEF AppendRefused, Fails, Ends
<1>11. CASE Checkpoints
  BY <1>11
  DEF Checkpoints
<1>12. CASE ValidationRefused
  BY <1>12
  DEF ValidationRefused, Fails, Ends
<1>13. CASE AuditPasses
  BY <1>13
  DEF AuditPasses, AuditReport
<1>14. CASE AuditFails
  BY <1>14
  DEF AuditFails, AuditReport, Fails, Ends
<1>15. CASE AuditSaves
  BY <1>15
  DEF AuditSaves
<1>16. CASE GateFreezes
  BY <1>16
  DEF GateFreezes, LoadedOrFrozen
<1>17. CASE GateRefused
  BY <1>17
  DEF GateRefused, Fails, Ends
<1>18. CASE GateReports
  BY <1>18
  DEF GateReports
<1>19. CASE RecordsMilestones
  BY <1>19
  DEF RecordsMilestones
<1>20. CASE MilestonesBlocked
  BY <1>20
  DEF MilestonesBlocked
<1>21. CASE MilestonesRefused
  BY <1>21
  DEF MilestonesRefused, Fails, Ends
<1>22. CASE AlertSends
  BY <1>22
  DEF AlertSends
<1>23. CASE AlertSaves
  BY <1>23
  DEF AlertSaves, Succeeds, Ends
<1>24. CASE Heartbeat
  BY <1>24
  DEF Heartbeat, Succeeds, Ends
<1>25. CASE GateTears
  BY <1>25
  DEF GateTears, Fails, Ends, Disturbances
<1>26. CASE AlertFails
  BY <1>26
  DEF AlertFails, Succeeds, Ends, Disturbances
<1>27. CASE StageDies
  BY <1>27
  DEF StageDies, Fails, Ends, Disturbances
<1>28. CASE Killed
  BY <1>28
  DEF Killed, Disturbances
<1>29. CASE SchedulerDies
  BY <1>29
  DEF SchedulerDies, Disturbances
<1>30. CASE HandStarts
  BY <1>30
  DEF HandStarts, Loaded, Disturbances
<1>31. CASE HandLoads
  BY <1>31
  DEF HandLoads, Loaded
<1>32. CASE HandWrites
  BY <1>32
  DEF HandWrites
<1>33. CASE HandStops
  BY <1>33
  DEF HandStops
<1>34. CASE Refreezes
  BY <1>34
  DEF Refreezes, Disturbances
<1>35. CASE StoreRestored
  BY <1>35
  DEF StoreRestored, Disturbances
<1>36. CASE PinRemoved
  BY <1>36
  DEF PinRemoved, Disturbances
<1>37. CASE LockRemoved
  BY <1>37
  DEF LockRemoved
<1>38. CASE Tick
  BY <1>38
  DEF Tick
<1>39. CASE GapFilled
  BY <1>39
  DEF GapFilled, Disturbances
<1>40. QED
  BY <1>1, <1>2, <1>3, <1>4, <1>5, <1>6, <1>7, <1>8, <1>9, <1>10, <1>11, <1>12,
    <1>13, <1>14, <1>15, <1>16, <1>17, <1>18, <1>19, <1>20, <1>21, <1>22,
    <1>23, <1>24, <1>25, <1>26, <1>27, <1>28, <1>29, <1>30, <1>31, <1>32,
    <1>33, <1>34, <1>35, <1>36, <1>37, <1>38, <1>39
  DEF Next, Stage, Faults, Operator

\* What is spent leaves a budget.
LEMMA Spending ==
  ASSUME left \in [Disturbances -> Nat], NEW kind \in Disturbances, Spends(kind)
  PROVE  left' \in [Disturbances -> Nat]
<1>1. left[kind] \in Nat /\ left[kind] > 0
  BY DEF Spends
<1>2. left[kind] - 1 \in Nat
  BY <1>1
<1>3. QED
  BY <1>2 DEF Spends

\* The lists an append by hand works through.
LEMMA Lists ==
  ASSUME NEW S, NEW s \in Seq(S)
  PROVE  /\ \A x \in S : <<x>> \in Seq(S)
         /\ s # << >> => Head(s) \in S /\ Tail(s) \in Seq(S)
  OBVIOUS

-------------------------------------------------------------------------------
(***************************************************************************)
(* Types.                                                                  *)
(***************************************************************************)
\* The hours and the manifests there are, and their bounds.
LEMMA Growth ==
  ASSUME TypeOK, Next
  PROVE  /\ now \in Nat /\ now > 0 /\ now' \in Hours /\ now <= now'
         /\ earliest' \in Seq(0 .. MaxHours) /\ earliest' # << >>
         /\ Len(earliest) \in Nat /\ Len(earliest) > 0
         /\ Len(earliest') \in Nat /\ Len(earliest) <= Len(earliest')
         /\ \A i \in 1 .. Len(earliest) : earliest'[i] = earliest[i]
<1>1. MaxHours \in Nat /\ now \in 1 .. MaxHours
  BY ForwardAssumption DEF TypeOK, Hours
<1>2. now' \in Hours /\ now <= now'
  BY <1>1, Frame DEF Tick, Hours
<1>0. earliest \in Seq(0 .. MaxHours) /\ earliest # << >>
  BY DEF TypeOK
<1>3. CASE earliest' = earliest
  BY <1>0, <1>1, <1>2, <1>3
<1>4. CASE Refreezes
  <2>1. PICK hour \in 0 .. now : earliest' = Append(earliest, hour)
    BY <1>4 DEF Refreezes
  <2>2. hour \in 0 .. MaxHours
    BY <2>1, <1>1
  <2>3. QED
    BY <1>0, <1>1, <1>2, <2>1, <2>2
<1>5. QED
  BY <1>3, <1>4, Frame

\* Every step keeps the types.
LEMMA TypeStep ==
  ASSUME TypeOK, AppendInv, CheckpointInv, Next
  PROVE  TypeOK'
<1> USE DEF files, records, alerts, world, script, daemon, manual
<1>1. AllTrades' = AllTrades
  BY Frame DEF AllTrades
<1>2. /\ IsFiniteSet(store) /\ Cardinality(store) \in Nat
      /\ Cardinality(run.trades) \in Nat
  <2>1. store \subseteq AllTrades /\ run.trades \subseteq AllTrades
    BY DEF TypeOK
  <2>2. QED
    BY <2>1, Countable
<1>3. /\ now \in Nat /\ now > 0 /\ now' \in Hours /\ now <= now' /\ now' \in Nat
      /\ earliest' \in Seq(0 .. MaxHours) /\ earliest' # << >>
      /\ Len(earliest) \in Nat /\ Len(earliest) > 0
      /\ Len(earliest') \in Nat /\ Len(earliest) <= Len(earliest')
  BY Growth DEF Hours
<1>4. \A full \in BOOLEAN, setting \in Settings : \A strategy, until, boundary :
        Kept(Replay(strategy, until, setting, full), boundary) \subseteq AllTrades
  BY ReplayFacts
<1>5. "daily" \in Settings /\ Len(CanonicalStrategies) = 2
  BY ForwardAssumption DEF CanonicalStrategies
<1>6. /\ now' \in Hours /\ market' \in Markets /\ filled' \in BOOLEAN
      /\ earliest' \in Seq(0 .. MaxHours) /\ earliest' # << >>
  BY <1>3, Frame DEF TypeOK
<1>7. store' \subseteq AllTrades
  <2>1. store \subseteq AllTrades /\ run.trades \subseteq AllTrades /\ hand.copy \subseteq AllTrades
    BY DEF TypeOK
  <2>2. QED
    BY <2>1, Frame DEF Writes, HandWrites, StoreRestored
<1>8. audited' \in [trades : SUBSET AllTrades, until : 0 .. now', runs : Nat]
  <2>1. /\ audited \in [trades : SUBSET AllTrades, until : 0 .. now, runs : Nat]
        /\ run.trades \in SUBSET AllTrades
        /\ checkpoint.until \in 0 .. now /\ checkpoint.runs \in Nat
    BY DEF TypeOK
  <2>2. CASE audited' = audited
    BY <2>1, <2>2, <1>3
  <2>3. CASE AuditSaves
    BY <2>1, <2>3, <1>3 DEF AuditSaves
  <2>4. QED
    BY <2>2, <2>3, Frame
<1>9. checkpoint' \in [until : 0 .. now', count : Nat, runs : Nat,
                       pin : 0 .. Len(earliest'),
                       state : {"NONE", "TOO_EARLY", "PASS", "EVALUATE", "FAIL"}]
  <2>1. /\ checkpoint \in [until : 0 .. now, count : Nat, runs : Nat,
                           pin : 0 .. Len(earliest),
                           state : {"NONE", "TOO_EARLY", "PASS", "EVALUATE", "FAIL"}]
        /\ run.until \in 0 .. now
    BY DEF TypeOK
  <2>2. CASE checkpoint' = checkpoint
    BY <2>1, <2>2, <1>3
  <2>3. CASE Checkpoints
    <3>1. EvidenceState(RowsOf(store)) \in {"TOO_EARLY", "PASS", "EVALUATE", "FAIL"}
      BY Verdicts
    <3>2. checkpoint.runs + 1 \in Nat /\ pin \in 0 .. Len(earliest')
      BY <2>1, <1>3 DEF pin
    <3>3. run.until \in 0 .. now'
      BY <2>1, <1>3
    <3>4. QED
      BY <2>3, <3>1, <3>2, <3>3, <1>2 DEF Checkpoints
  <2>4. CASE PinRemoved
    BY <2>1, <2>4, <1>3 DEF PinRemoved, NoCheckpoint
  <2>5. QED
    BY <2>2, <2>3, <2>4, Frame
<1>10. integrity' \in [state : {"MISSING", "PASS", "FAIL"},
                       health : {"MISSING", "HEALTHY", "STALE"}, count : Nat]
  <2>1. integrity \in [state : {"MISSING", "PASS", "FAIL"},
                        health : {"MISSING", "HEALTHY", "STALE"}, count : Nat]
    BY DEF TypeOK
  <2>2. QED
    BY <2>1, <1>2, Frame DEF AuditPasses, AuditFails, AuditReport
<1>11. gate' \in 0 .. Len(earliest')
  <2>1. gate \in 0 .. Len(earliest)
    BY DEF TypeOK
  <2>2. QED
    BY <2>1, <1>3, Frame DEF GateFreezes, LoadedOrFrozen, PinRemoved, pin
<1>12. promotion' \in [state : {"MISSING", "INVALID", "TOO_EARLY", "REJECT",
                                "CONTINUE_ACCUMULATING", "ACCEPT"},
                       signals : Nat, at : 0 .. now', pin : 0 .. Len(earliest')]
  <2>1. /\ promotion \in [state : {"MISSING", "INVALID", "TOO_EARLY", "REJECT",
                                   "CONTINUE_ACCUMULATING", "ACCEPT"},
                          signals : Nat, at : 0 .. now, pin : 0 .. Len(earliest)]
        /\ gate \in 0 .. Len(earliest)
    BY DEF TypeOK
  <2>2. CASE promotion' = promotion
    BY <2>1, <2>2, <1>3
  <2>3. CASE GateReports
    <3>1. Decision(RowsOf(run.trades))
            \in {"TOO_EARLY", "REJECT", "CONTINUE_ACCUMULATING", "ACCEPT"}
      BY Verdicts
    <3>2. now \in 0 .. now' /\ gate \in 0 .. Len(earliest')
      BY <2>1, <1>3
    <3>3. QED
      BY <2>3, <3>1, <3>2, <1>2 DEF GateReports
  <2>4. CASE GateTears
    BY <2>4, <1>3 DEF GateTears, Torn
  <2>5. QED
    BY <2>2, <2>3, <2>4, Frame
<1>13. /\ history' \subseteq [milestone : Milestones, observed : Nat, mode : Modes,
                              until : 1 .. now', pin : 1 .. Len(earliest')]
       /\ candidate' \in 0 .. Len(earliest')
  <2>1. /\ history \subseteq [milestone : Milestones, observed : Nat, mode : Modes,
                              until : 1 .. now, pin : 1 .. Len(earliest)]
        /\ candidate \in 0 .. Len(earliest)
        /\ promotion.signals \in Nat /\ promotion.pin \in 0 .. Len(earliest)
    BY DEF TypeOK
  <2>2. history \subseteq [milestone : Milestones, observed : Nat, mode : Modes,
                           until : 1 .. now', pin : 1 .. Len(earliest')]
    BY <2>1, <1>3
  <2>3. CASE history' = history /\ candidate' = candidate
    BY <2>1, <2>2, <2>3, <1>3
  <2>4. CASE RecordsMilestones
    <3>1. checkpoint.until \in 1 .. now' /\ checkpoint.pin \in 1 .. Len(earliest')
      BY <2>4, <1>3 DEF RecordsMilestones, CheckpointInv
    <3>2. promotion.pin \in 0 .. Len(earliest')
      BY <2>1, <1>3
    <3>3. \A m \in Due(promotion.signals) :
            Entry(m) \in [milestone : Milestones, observed : Nat, mode : Modes,
                          until : 1 .. now', pin : 1 .. Len(earliest')]
      BY <2>1, <3>1 DEF Due, Entry, Modes
    <3>4. history' = history \cup {Entry(m) : m \in Due(promotion.signals)}
          /\ candidate' = promotion.pin
      BY <2>4 DEF RecordsMilestones
    <3>5. QED
      BY <2>2, <3>2, <3>3, <3>4
  <2>5. QED
    BY <2>3, <2>4, Frame
<1>14. /\ lock' \in BOOLEAN /\ (pc' # "idle" => lock')
       /\ pc' \in {"idle", "resolve", "append", "write", "audit", "audited", "gate",
                   "frozen", "milestones", "alert", "sent"}
       /\ scheduler' \in {"polls", "waits", "succeeded", "failed"}
       /\ result' \in {"MISSING", "SUCCESS", "FAILED"}
       /\ heard' \in {"no", "awaited", "yes"}
  <2>1. /\ lock \in BOOLEAN /\ (pc # "idle" => lock)
        /\ pc \in {"idle", "resolve", "append", "write", "audit", "audited", "gate",
                   "frozen", "milestones", "alert", "sent"}
        /\ scheduler \in {"polls", "waits", "succeeded", "failed"}
        /\ result \in {"MISSING", "SUCCESS", "FAILED"}
        /\ heard \in {"no", "awaited", "yes"}
    BY DEF TypeOK
  <2>2. CASE SchedulerStarts
    BY <2>2, <2>1
    DEF SchedulerStarts, ScriptStarts
  <2>3. CASE CronStarts
    BY <2>3, <2>1
    DEF CronStarts, ScriptStarts
  <2>4. CASE SchedulerSkips
    BY <2>4, <2>1
    DEF SchedulerSkips
  <2>5. CASE StateWritten
    BY <2>5, <2>1
    DEF StateWritten
  <2>6. CASE NoNewData
    BY <2>6, <2>1
    DEF NoNewData, LastClosedHour
  <2>7. CASE Fetches
    BY <2>7, <2>1
    DEF Fetches, LastClosedHour
  <2>8. CASE PinRefused
    BY <2>8, <2>1
    DEF PinRefused, Fails, Ends
  <2>9. CASE Loads
    BY <2>9, <2>1
    DEF Loads
  <2>10. CASE Writes
    BY <2>10, <2>1
    DEF Writes
  <2>11. CASE AppendRefused
    BY <2>11, <2>1
    DEF AppendRefused, Fails, Ends
  <2>12. CASE Checkpoints
    BY <2>12, <2>1
    DEF Checkpoints
  <2>13. CASE ValidationRefused
    BY <2>13, <2>1
    DEF ValidationRefused, Fails, Ends
  <2>14. CASE AuditPasses
    BY <2>14, <2>1
    DEF AuditPasses, AuditReport
  <2>15. CASE AuditFails
    BY <2>15, <2>1
    DEF AuditFails, AuditReport, Fails, Ends
  <2>16. CASE AuditSaves
    BY <2>16, <2>1
    DEF AuditSaves
  <2>17. CASE GateFreezes
    BY <2>17, <2>1
    DEF GateFreezes, LoadedOrFrozen
  <2>18. CASE GateRefused
    BY <2>18, <2>1
    DEF GateRefused, Fails, Ends
  <2>19. CASE GateReports
    BY <2>19, <2>1
    DEF GateReports
  <2>20. CASE RecordsMilestones
    BY <2>20, <2>1
    DEF RecordsMilestones
  <2>21. CASE MilestonesBlocked
    BY <2>21, <2>1
    DEF MilestonesBlocked
  <2>22. CASE MilestonesRefused
    BY <2>22, <2>1
    DEF MilestonesRefused, Fails, Ends
  <2>23. CASE AlertSends
    BY <2>23, <2>1
    DEF AlertSends
  <2>24. CASE AlertSaves
    BY <2>24, <2>1
    DEF AlertSaves, Succeeds, Ends
  <2>25. CASE Heartbeat
    BY <2>25, <2>1
    DEF Heartbeat, Succeeds, Ends
  <2>26. CASE GateTears
    BY <2>26, <2>1
    DEF GateTears, Fails, Ends
  <2>27. CASE AlertFails
    BY <2>27, <2>1
    DEF AlertFails, Succeeds, Ends
  <2>28. CASE StageDies
    BY <2>28, <2>1
    DEF StageDies, Fails, Ends
  <2>29. CASE Killed
    BY <2>29, <2>1
    DEF Killed
  <2>30. CASE SchedulerDies
    BY <2>30, <2>1
    DEF SchedulerDies
  <2>31. CASE HandStarts
    BY <2>31, <2>1
    DEF HandStarts, Loaded
  <2>32. CASE HandLoads
    BY <2>32, <2>1
    DEF HandLoads, Loaded
  <2>33. CASE HandWrites
    BY <2>33, <2>1
    DEF HandWrites
  <2>34. CASE HandStops
    BY <2>34, <2>1
    DEF HandStops
  <2>35. CASE Refreezes
    BY <2>35, <2>1
    DEF Refreezes
  <2>36. CASE StoreRestored
    BY <2>36, <2>1
    DEF StoreRestored
  <2>37. CASE PinRemoved
    BY <2>37, <2>1
    DEF PinRemoved
  <2>38. CASE LockRemoved
    BY <2>38, <2>1
    DEF LockRemoved
  <2>39. CASE Tick
    BY <2>39, <2>1
    DEF Tick
  <2>40. CASE GapFilled
    BY <2>40, <2>1
    DEF GapFilled
  <2>41. QED
    BY <2>2, <2>3, <2>4, <2>5, <2>6, <2>7, <2>8, <2>9, <2>10, <2>11, <2>12,
      <2>13, <2>14, <2>15, <2>16, <2>17, <2>18, <2>19, <2>20, <2>21, <2>22,
      <2>23, <2>24, <2>25, <2>26, <2>27, <2>28, <2>29, <2>30, <2>31, <2>32,
      <2>33, <2>34, <2>35, <2>36, <2>37, <2>38, <2>39, <2>40
    DEF Next, Stage, Faults, Operator
<1>15. run' \in [until : 0 .. now', next : 1 .. Len(CanonicalStrategies) + 1,
                 filled : BOOLEAN, trades : SUBSET AllTrades]
  <2>1. /\ run \in [until : 0 .. now, next : 1 .. Len(CanonicalStrategies) + 1,
                    filled : BOOLEAN, trades : SUBSET AllTrades]
        /\ filled \in BOOLEAN /\ store \in SUBSET AllTrades
    BY DEF TypeOK
  <2>2. CASE run' \in {run, NoRun}
    <3>1. CASE run' = run
      BY <2>1, <3>1, <1>3
    <3>2. CASE run' = NoRun
      <4>1. 0 \in 0 .. now' /\ 1 \in 1 .. Len(CanonicalStrategies) + 1
        BY <1>3, <1>5
      <4>2. NoRun \in [until : 0 .. now', next : 1 .. Len(CanonicalStrategies) + 1,
                       filled : BOOLEAN, trades : SUBSET AllTrades]
        BY <4>1 DEF NoRun
      <4>3. QED
        BY <3>2, <4>2
    <3>3. QED
      BY <2>2, <3>1, <3>2
  <2>3. CASE Fetches
    <3>1. run' = [until |-> now, next |-> 1, filled |-> filled, trades |-> {}]
      BY <2>3 DEF Fetches, LastClosedHour
    <3>2. now \in 0 .. now' /\ 1 \in 1 .. Len(CanonicalStrategies) + 1
      BY <1>3, <1>5
    <3>3. \A full \in BOOLEAN :
            [until |-> now, next |-> 1, filled |-> full, trades |-> {}]
              \in [until : 0 .. now', next : 1 .. Len(CanonicalStrategies) + 1,
                   filled : BOOLEAN, trades : SUBSET AllTrades]
      BY <3>2
    <3>4. QED
      BY <2>1, <3>1, <3>3
  <2>4. CASE Loads
    <3>1. RunReplay \subseteq AllTrades
      BY <2>1, <1>4, <1>5 DEF RunReplay
    <3>2. store \cup RunReplay \in SUBSET AllTrades
      BY <2>1, <3>1
    <3>3. QED
      BY <2>1, <2>4, <3>2, <1>3 DEF Loads, Appended
  <2>5. CASE Writes
    <3>1. run.next + 1 \in 1 .. Len(CanonicalStrategies) + 1
      BY <2>1, <2>5, <1>5 DEF AppendInv, Writes
    <3>2. QED
      BY <2>1, <2>5, <3>1, <1>3 DEF Writes
  <2>6. CASE AuditPasses \/ GateFreezes
    BY <2>1, <2>6, <1>3 DEF AuditPasses, GateFreezes
  <2>7. QED
    BY <2>2, <2>3, <2>4, <2>5, <2>6, Frame
<1>16. hand' \in [todo : Seq(SUBSET AllTrades), loaded : BOOLEAN, copy : SUBSET AllTrades]
  <2>1. /\ hand \in [todo : Seq(SUBSET AllTrades), loaded : BOOLEAN, copy : SUBSET AllTrades]
        /\ filled \in BOOLEAN /\ store \in SUBSET AllTrades
    BY DEF TypeOK
  <2>2. CASE hand' \in {hand, NoHand}
    <3>1. << >> \in Seq(SUBSET AllTrades)
      OBVIOUS
    <3>2. CASE hand' = hand
      BY <2>1, <3>2
    <3>3. CASE hand' = NoHand
      <4>1. hand' = [todo |-> << >>, loaded |-> FALSE, copy |-> {}]
        BY <3>3 DEF NoHand
      <4>2. QED
        BY <3>1, <4>1
    <3>4. QED
      BY <2>2, <3>2, <3>3
  <2>3. CASE HandStarts
    <3>1. PICK until \in 1 .. now + 1, setting \in Settings, boundary \in {0, 1} :
            hand' = Loaded(Kept(Replay("breakout", until, setting, filled), boundary),
                           <<Kept(Replay("short", until, setting, filled), boundary)>>)
      BY <2>3 DEF HandStarts
    <3>2. /\ Kept(Replay("breakout", until, setting, filled), boundary) \in SUBSET AllTrades
          /\ Kept(Replay("short", until, setting, filled), boundary) \in SUBSET AllTrades
      BY <2>1, <1>4
    <3>3. <<Kept(Replay("short", until, setting, filled), boundary)>>
            \in Seq(SUBSET AllTrades)
      BY <3>2, Lists
    <3>4. QED
      BY <2>1, <3>1, <3>2, <3>3 DEF Loaded, Appended
  <2>4. CASE HandLoads
    <3>1. Head(hand.todo) \in SUBSET AllTrades /\ Tail(hand.todo) \in Seq(SUBSET AllTrades)
      BY <2>1, <2>4 DEF HandLoads
    <3>2. QED
      BY <2>1, <2>4, <3>1 DEF HandLoads, Loaded, Appended
  <2>5. CASE HandWrites
    BY <2>1, <2>5 DEF HandWrites
  <2>6. QED
    BY <2>2, <2>3, <2>4, <2>5, Frame
<1>17. byHand' \subseteq {"added", "dropped"}
  <2>1. byHand \subseteq {"added", "dropped"}
    BY DEF TypeOK
  <2>2. CASE HandWrites
    BY <2>1, <2>2 DEF HandWrites
  <2>3. QED
    BY <2>1, <2>2, Frame
<1>18. left' \in [Disturbances -> Nat]
  BY Frame, Spending DEF TypeOK
<1>19. QED
  BY <1>1, <1>6, <1>7, <1>8, <1>9, <1>10, <1>11, <1>12, <1>13, <1>14, <1>15,
     <1>16, <1>17, <1>18
  DEF TypeOK

-------------------------------------------------------------------------------
(***************************************************************************)
(* What an accumulation appends, and what is counted.                      *)
(***************************************************************************)
\* While a script runs nothing else touches its pin, its memory or, but for an
\* append by hand, the store.
LEMMA Alone ==
  ASSUME TypeOK, Next, pc # "idle", pc' = pc, pc # "resolve"
  PROVE  /\ earliest' = earliest /\ pin' = pin
         /\ run' = run /\ (store' = store \/ HandWrites)
         /\ checkpoint' = checkpoint /\ gate' = gate
         /\ integrity' = integrity /\ promotion' = promotion
<1> USE DEF files, records, alerts, world, script, daemon, manual, pin
<1>1. CASE SchedulerStarts
  BY <1>1
  DEF SchedulerStarts, ScriptStarts
<1>2. CASE CronStarts
  BY <1>2
  DEF CronStarts, ScriptStarts
<1>3. CASE SchedulerSkips
  BY <1>3
  DEF SchedulerSkips
<1>4. CASE StateWritten
  BY <1>4
  DEF StateWritten
<1>5. CASE NoNewData
  BY <1>5
  DEF NoNewData, LastClosedHour
<1>6. CASE Fetches
  BY <1>6
  DEF Fetches, LastClosedHour
<1>7. CASE PinRefused
  BY <1>7
  DEF PinRefused, Fails, Ends
<1>8. CASE Loads
  BY <1>8
  DEF Loads
<1>9. CASE Writes
  BY <1>9
  DEF Writes
<1>10. CASE AppendRefused
  BY <1>10
  DEF AppendRefused, Fails, Ends
<1>11. CASE Checkpoints
  BY <1>11
  DEF Checkpoints
<1>12. CASE ValidationRefused
  BY <1>12
  DEF ValidationRefused, Fails, Ends
<1>13. CASE AuditPasses
  BY <1>13
  DEF AuditPasses, AuditReport
<1>14. CASE AuditFails
  BY <1>14
  DEF AuditFails, AuditReport, Fails, Ends
<1>15. CASE AuditSaves
  BY <1>15
  DEF AuditSaves
<1>16. CASE GateFreezes
  BY <1>16
  DEF GateFreezes, LoadedOrFrozen
<1>17. CASE GateRefused
  BY <1>17
  DEF GateRefused, Fails, Ends
<1>18. CASE GateReports
  BY <1>18
  DEF GateReports
<1>19. CASE RecordsMilestones
  BY <1>19
  DEF RecordsMilestones
<1>20. CASE MilestonesBlocked
  BY <1>20
  DEF MilestonesBlocked
<1>21. CASE MilestonesRefused
  BY <1>21
  DEF MilestonesRefused, Fails, Ends
<1>22. CASE AlertSends
  BY <1>22
  DEF AlertSends
<1>23. CASE AlertSaves
  BY <1>23
  DEF AlertSaves, Succeeds, Ends
<1>24. CASE Heartbeat
  BY <1>24
  DEF Heartbeat, Succeeds, Ends
<1>25. CASE GateTears
  BY <1>25
  DEF GateTears, Fails, Ends
<1>26. CASE AlertFails
  BY <1>26
  DEF AlertFails, Succeeds, Ends
<1>27. CASE StageDies
  BY <1>27
  DEF StageDies, Fails, Ends
<1>28. CASE Killed
  BY <1>28
  DEF Killed
<1>29. CASE SchedulerDies
  BY <1>29
  DEF SchedulerDies
<1>30. CASE HandStarts
  BY <1>30
  DEF HandStarts, Loaded
<1>31. CASE HandLoads
  BY <1>31
  DEF HandLoads, Loaded
<1>32. CASE HandWrites
  BY <1>32
  DEF HandWrites
<1>33. CASE HandStops
  BY <1>33
  DEF HandStops
<1>34. CASE Refreezes
  BY <1>34
  DEF Refreezes
<1>35. CASE StoreRestored
  BY <1>35
  DEF StoreRestored
<1>36. CASE PinRemoved
  BY <1>36
  DEF PinRemoved
<1>37. CASE LockRemoved
  BY <1>37
  DEF LockRemoved
<1>38. CASE Tick
  BY <1>38
  DEF Tick
<1>39. CASE GapFilled
  BY <1>39
  DEF GapFilled
<1>40. QED
  BY <1>1, <1>2, <1>3, <1>4, <1>5, <1>6, <1>7, <1>8, <1>9, <1>10, <1>11, <1>12,
    <1>13, <1>14, <1>15, <1>16, <1>17, <1>18, <1>19, <1>20, <1>21, <1>22,
    <1>23, <1>24, <1>25, <1>26, <1>27, <1>28, <1>29, <1>30, <1>31, <1>32,
    <1>33, <1>34, <1>35, <1>36, <1>37, <1>38, <1>39
  DEF Next, Stage, Faults, Operator

\* A hand that neither dropped nor added a trade left the store as it was.
LEMMA HandFacts ==
  ASSUME HandWrites
  PROVE  /\ "dropped" \notin byHand' => "dropped" \notin byHand /\ store \subseteq store'
         /\ byHand' = {} => byHand = {} /\ store' = store
<1>1. store' = hand.copy
  BY DEF HandWrites
<1>2. /\ byHand \subseteq byHand'
      /\ ~(store \subseteq hand.copy) => "dropped" \in byHand'
      /\ ~(hand.copy \subseteq store) => "added" \in byHand'
  BY DEF HandWrites
<1>3. QED
  BY <1>1, <1>2

\* Time and a filled gap only add to what the daily replay may have found.
LEMMA KnownGrows ==
  ASSUME TypeOK, Next
  PROVE  /\ \A until : Known(until) \subseteq Known(until)'
         /\ \A until \in Int : until <= now => Known(until) \subseteq Known(now)
         /\ Known(now) \subseteq Known(now)'
         /\ SeenViews \subseteq SeenViews'
<1>1. market' = market /\ filled \in BOOLEAN /\ (filled' = filled \/ filled' = TRUE)
  BY Frame DEF TypeOK
<1>2. SeenViews \subseteq SeenViews' /\ SeenViews \subseteq BOOLEAN
  BY <1>1 DEF SeenViews
<1>4. \A full \in BOOLEAN : \A t \in market[<<"daily", full>>] : t.closed \in Int
  <2>1. "daily" \in Settings
    BY ForwardAssumption
  <2>2. \A full \in BOOLEAN : \A t \in market[<<"daily", full>>] : t \in Trades
    BY <2>1, ReplayFacts
  <2>3. 0 .. MaxHours \subseteq Int
    BY ForwardAssumption
  <2>4. QED
    BY <2>2, <2>3 DEF Trades
<1>5. market[<<"daily", FALSE>>] \cup market[<<"daily", filled>>]
        \subseteq (market[<<"daily", FALSE>>] \cup market[<<"daily", filled>>])'
  <2>1. CASE filled' = filled
    BY <1>1, <2>1
  <2>2. CASE filled = FALSE
    BY <1>1, <2>2
  <2>3. CASE filled = TRUE
    BY <1>1, <2>3
  <2>4. QED
    BY <1>1, <2>1, <2>2, <2>3
<1>6. \A from, until \in Int : from <= until => Known(from) \subseteq Known(until)
  <2>1. SUFFICES ASSUME NEW from \in Int, NEW until \in Int, from <= until,
                        NEW t \in Known(from)
                 PROVE  t \in Known(until)
    OBVIOUS
  <2>2. t \in market[<<"daily", FALSE>>] \cup market[<<"daily", filled>>]
        /\ t.closed <= from /\ t.entered >= 1
    BY <2>1 DEF Known
  <2>3. t.closed \in Int
    BY <1>1, <1>4, <2>2
  <2>4. t.closed <= until
    BY <2>1, <2>2, <2>3
  <2>5. QED
    BY <2>2, <2>4 DEF Known
<1>7. now \in Int /\ now' \in Int /\ now <= now'
  BY Growth DEF Hours
<1>8. \A until : Known(until) \subseteq Known(until)'
  BY <1>5 DEF Known
<1>9. Known(now) \subseteq Known(now)'
  <2>1. \A t \in Known(now) : t.closed \in Int
    BY <1>1, <1>4 DEF Known
  <2>2. \A t \in Known(now) : t.closed <= now'
    BY <1>7, <2>1 DEF Known
  <2>3. QED
    BY <1>5, <2>2 DEF Known
<1>10. QED
  BY <1>2, <1>6, <1>7, <1>8, <1>9

\* A count goes on to stand for its trades: the market stays, and a manifest
\* keeps its cutoff.
LEMMA CountedStable ==
  ASSUME TypeOK, Next, NEW count \in Nat, NEW until, NEW manifest \in 1 .. Len(earliest),
         Counted(count, until, manifest)
  PROVE  Counted(count, until, manifest)'
<1>1. market' = market /\ filled \in BOOLEAN /\ (filled' = filled \/ filled' = TRUE)
  BY Frame DEF TypeOK
<1>2. earliest'[manifest] = earliest[manifest]
  BY Growth
<1>3. /\ \A full : Fresh(full, until, manifest)' = Fresh(full, until, manifest)
      /\ Fresh(FALSE, until, manifest)' = Fresh(FALSE, until, manifest)
      /\ Fresh(filled, until, manifest)' = Fresh(filled', until, manifest)
  BY <1>1, <1>2 DEF Fresh
<1>4. byHand \subseteq byHand' /\ SeenViews \subseteq SeenViews'
  BY Frame, KnownGrows
<1>5. ("dropped" \notin byHand =>
         \E full \in SeenViews : Cardinality(Fresh(full, until, manifest)) <= count)'
  <2>1. SUFFICES ASSUME "dropped" \notin byHand'
                 PROVE  \E full \in SeenViews' : Cardinality(Fresh(full, until, manifest)) <= count
    BY <1>3
  <2>2. PICK full \in SeenViews : Cardinality(Fresh(full, until, manifest)) <= count
    BY <1>4, <2>1 DEF Counted
  <2>3. QED
    BY <1>4, <2>2
<1>6. (byHand = {} =>
         count <= Cardinality(Fresh(FALSE, until, manifest) \cup Fresh(filled, until, manifest)))'
  <2>1. SUFFICES ASSUME byHand' = {}
                 PROVE  count <= Cardinality(Fresh(FALSE, until, manifest)
                                             \cup Fresh(filled', until, manifest))
    BY <1>3
  <2> DEFINE Before == Fresh(FALSE, until, manifest) \cup Fresh(filled, until, manifest)
             After  == Fresh(FALSE, until, manifest) \cup Fresh(filled', until, manifest)
  <2>2. count <= Cardinality(Before)
    BY <1>4, <2>1 DEF Counted
  <2>3. Before \subseteq After
    BY <1>1
  <2>4. After \subseteq AllTrades
    BY <1>1, FreshFacts
  <2>5. Cardinality(Before) \in Nat /\ Cardinality(After) \in Nat
        /\ Cardinality(Before) <= Cardinality(After)
    BY <2>3, <2>4, Countable
  <2>6. QED
    BY <2>2, <2>5
<1>7. QED
  BY <1>5, <1>6 DEF Counted

\* What is in the store but for an append by hand is what daily replays found.
LEMMA StoreStep ==
  ASSUME IInv, Next
  PROVE  StoreInv'
<1>1. SUFFICES ASSUME byHand' = {}
               PROVE  store' \subseteq Known(now)'
  BY DEF StoreInv, Untouched
<1>2. byHand = {}
  BY <1>1, Frame DEF IInv
<1>3. store \subseteq Known(now) /\ Known(now) \subseteq Known(now)'
  BY <1>2, KnownGrows DEF IInv, StoreInv, Untouched
<1>4. CASE Writes
  <2>1. run.until \in 1 .. now /\ run.trades \subseteq Known(run.until)
    BY <1>2, <1>4 DEF IInv, AppendInv, Untouched, Writes
  <2>2. run.until \in Int /\ run.until <= now
    BY <2>1, Growth DEF IInv
  <2>3. run.trades \subseteq Known(now)
    BY <2>1, <2>2, KnownGrows DEF IInv
  <2>4. QED
    BY <1>3, <1>4, <2>3 DEF Writes
<1>5. CASE HandWrites
  BY <1>1, <1>3, <1>5, HandFacts
<1>6. CASE StoreRestored
  BY <1>3, <1>6 DEF StoreRestored
<1>7. QED
  BY <1>3, <1>4, <1>5, <1>6, Frame DEF IInv

\* How the script comes to each of its stages.
LEMMA Moves ==
  ASSUME TypeOK, Next, pc' # pc
  PROVE  /\ pc' = "append" => Fetches \/ Writes
         /\ pc' = "write" => Loads
         /\ pc' = "audit" => NoNewData \/ Checkpoints
         /\ pc' = "audited" => AuditPasses
         /\ pc' = "gate" => AuditSaves
         /\ pc' = "frozen" => GateFreezes
         /\ pc' = "milestones" => GateReports
         /\ pc' = "alert" => RecordsMilestones \/ MilestonesBlocked
         /\ pc' = "sent" => AlertSends
<1> USE DEF files, records, alerts, world, script, daemon, manual
<1>1. CASE SchedulerStarts
  BY <1>1
  DEF SchedulerStarts, ScriptStarts
<1>2. CASE CronStarts
  BY <1>2
  DEF CronStarts, ScriptStarts
<1>3. CASE SchedulerSkips
  BY <1>3
  DEF SchedulerSkips
<1>4. CASE StateWritten
  BY <1>4
  DEF StateWritten
<1>5. CASE NoNewData
  BY <1>5
  DEF NoNewData, LastClosedHour
<1>6. CASE Fetches
  BY <1>6
  DEF Fetches, LastClosedHour
<1>7. CASE PinRefused
  BY <1>7
  DEF PinRefused, Fails, Ends
<1>8. CASE Loads
  BY <1>8
  DEF Loads
<1>9. CASE Writes
  BY <1>9
  DEF Writes
<1>10. CASE AppendRefused
  BY <1>10
  DEF AppendRefused, Fails, Ends
<1>11. CASE Checkpoints
  BY <1>11
  DEF Checkpoints
<1>12. CASE ValidationRefused
  BY <1>12
  DEF ValidationRefused, Fails, Ends
<1>13. CASE AuditPasses
  BY <1>13
  DEF AuditPasses, AuditReport
<1>14. CASE AuditFails
  BY <1>14
  DEF AuditFails, AuditReport, Fails, Ends
<1>15. CASE AuditSaves
  BY <1>15
  DEF AuditSaves
<1>16. CASE GateFreezes
  BY <1>16
  DEF GateFreezes, LoadedOrFrozen
<1>17. CASE GateRefused
  BY <1>17
  DEF GateRefused, Fails, Ends
<1>18. CASE GateReports
  BY <1>18
  DEF GateReports
<1>19. CASE RecordsMilestones
  BY <1>19
  DEF RecordsMilestones
<1>20. CASE MilestonesBlocked
  BY <1>20
  DEF MilestonesBlocked
<1>21. CASE MilestonesRefused
  BY <1>21
  DEF MilestonesRefused, Fails, Ends
<1>22. CASE AlertSends
  BY <1>22
  DEF AlertSends
<1>23. CASE AlertSaves
  BY <1>23
  DEF AlertSaves, Succeeds, Ends
<1>24. CASE Heartbeat
  BY <1>24
  DEF Heartbeat, Succeeds, Ends
<1>25. CASE GateTears
  BY <1>25
  DEF GateTears, Fails, Ends
<1>26. CASE AlertFails
  BY <1>26
  DEF AlertFails, Succeeds, Ends
<1>27. CASE StageDies
  BY <1>27
  DEF StageDies, Fails, Ends
<1>28. CASE Killed
  BY <1>28
  DEF Killed
<1>29. CASE SchedulerDies
  BY <1>29
  DEF SchedulerDies
<1>30. CASE HandStarts
  BY <1>30
  DEF HandStarts, Loaded
<1>31. CASE HandLoads
  BY <1>31
  DEF HandLoads, Loaded
<1>32. CASE HandWrites
  BY <1>32
  DEF HandWrites
<1>33. CASE HandStops
  BY <1>33
  DEF HandStops
<1>34. CASE Refreezes
  BY <1>34
  DEF Refreezes
<1>35. CASE StoreRestored
  BY <1>35
  DEF StoreRestored
<1>36. CASE PinRemoved
  BY <1>36
  DEF PinRemoved
<1>37. CASE LockRemoved
  BY <1>37
  DEF LockRemoved
<1>38. CASE Tick
  BY <1>38
  DEF Tick
<1>39. CASE GapFilled
  BY <1>39
  DEF GapFilled
<1>40. QED
  BY <1>1, <1>2, <1>3, <1>4, <1>5, <1>6, <1>7, <1>8, <1>9, <1>10, <1>11, <1>12,
    <1>13, <1>14, <1>15, <1>16, <1>17, <1>18, <1>19, <1>20, <1>21, <1>22,
    <1>23, <1>24, <1>25, <1>26, <1>27, <1>28, <1>29, <1>30, <1>31, <1>32,
    <1>33, <1>34, <1>35, <1>36, <1>37, <1>38, <1>39
  DEF Next, Stage, Faults, Operator

\* What the replay of one strategy brings.
LEMMA ReplayIsFresh ==
  ASSUME TypeOK, Len(earliest) > 0, run.filled \in SeenViews, pc = "append",
         run.next \in 1 .. Len(CanonicalStrategies)
  PROVE  RunReplay \subseteq Known(run.until) /\ RunReplay = FreshOf(run.next)
<1>1. RunReplay = FreshOf(run.next)
  BY DEF RunReplay, FreshOf, Kept, Replay, Fresh
<1>2. run.filled \in BOOLEAN /\ "daily" \in Settings
  BY ForwardAssumption DEF TypeOK
<1>3. \A t \in market[<<"daily", run.filled>>] : t.entered \in Int
  <2>1. \A t \in market[<<"daily", run.filled>>] : t \in Trades
    BY <1>2, ReplayFacts
  <2>2. 0 .. MaxHours \subseteq Int
    BY ForwardAssumption
  <2>3. QED
    BY <2>1, <2>2 DEF Trades
<1>4. earliest[pin] \in Int
  <2>1. earliest \in Seq(0 .. MaxHours) /\ MaxHours \in Nat
    BY ForwardAssumption DEF TypeOK
  <2>2. QED
    BY <2>1 DEF pin
<1>5. \A t \in RunReplay : t \in market[<<"daily", run.filled>>] /\ t.closed <= run.until
                           /\ t.entered >= 1
  BY <1>3, <1>4 DEF RunReplay, Kept, Replay, Larger
<1>6. QED
  BY <1>1, <1>5 DEF Known, SeenViews

\* The store of an accumulation: what it has appended is there, and nothing
\* else unless it was appended by hand.
LEMMA AppendStep ==
  ASSUME IInv, Next
  PROVE  AppendInv'
<1> USE DEF files, records, alerts, world, script, daemon, manual
<1>1. TypeOK
  BY DEF IInv
<1>2. /\ byHand \subseteq byHand' /\ SeenViews \subseteq SeenViews' /\ market' = market
      /\ \A until : Known(until) \subseteq Known(until)'
  BY <1>1, Frame, KnownGrows
<1>3. /\ now \in Nat /\ now > 0 /\ now' \in Nat /\ now <= now' /\ Len(earliest) > 0
      /\ Len(CanonicalStrategies) = 2 /\ run.next \in 1 .. 3
  <2>1. Len(CanonicalStrategies) = 2
    BY DEF CanonicalStrategies
  <2>2. run.next \in 1 .. Len(CanonicalStrategies) + 1
    BY <1>1 DEF TypeOK
  <2>3. QED
    BY <1>1, <2>1, <2>2, Growth DEF Hours
<1>4. ASSUME pc' = pc, pc \in {"append", "write"}
      PROVE  AppendInv'
  <2>1. /\ run' = run /\ pin' = pin /\ earliest' = earliest
        /\ (store' = store \/ HandWrites)
    BY <1>1, <1>4, Alone
  <2>2. \A i : FreshOf(i)' = FreshOf(i)
    BY <1>2, <2>1 DEF FreshOf, Fresh
  <2>3. /\ run.until \in 1 .. now /\ run.filled \in SeenViews
        /\ Untouched(run.until, store) /\ Holds(store, run.next)
        /\ pc = "write" =>
             /\ run.next <= Len(CanonicalStrategies)
             /\ Untouched(run.until, run.trades) /\ Holds(run.trades, run.next + 1)
    BY <1>4 DEF IInv, AppendInv
  <2>4. /\ byHand' = {} => byHand = {} /\ store' = store
        /\ "dropped" \notin byHand' => "dropped" \notin byHand /\ store \subseteq store'
    BY <1>2, <2>1, HandFacts
  <2>5. Known(run.until) \subseteq {t \in market'[<<"daily", FALSE>>] \cup market'[<<"daily", filled'>>] :
                                       t.closed <= run.until /\ t.entered >= 1}
    BY <1>2 DEF Known
  <2>6. Untouched(run.until, store)' /\ (pc = "write" => Untouched(run.until, run.trades)')
    BY <2>1, <2>3, <2>4, <2>5 DEF Untouched, Known
  <2>7. Holds(store, run.next)' /\ (pc = "write" => Holds(run.trades, run.next + 1)')
    BY <2>1, <2>2, <2>3, <2>4 DEF Holds
  <2>8. run'.until \in 1 .. now' /\ run'.filled \in SeenViews'
    BY <1>2, <1>3, <2>1, <2>3
  <2>9. QED
    BY <1>4, <2>1, <2>3, <2>6, <2>7, <2>8 DEF AppendInv
<1>5. CASE Fetches
  <2>1. /\ pc' = "append" /\ run'.until = now /\ run'.next = 1 /\ run'.filled = filled
        /\ store' = store /\ byHand' = byHand /\ now' = now /\ market' = market /\ filled' = filled
    BY <1>5 DEF Fetches, LastClosedHour
  <2>2. Untouched(run.until, store)'
    BY <2>1 DEF IInv, StoreInv, Untouched, Known
  <2>3. Holds(store, run.next)'
    BY <2>1 DEF Holds
  <2>4. run'.until \in 1 .. now' /\ run'.filled \in SeenViews'
    BY <1>3, <2>1 DEF SeenViews
  <2>5. QED
    BY <2>1, <2>2, <2>3, <2>4 DEF AppendInv
<1>6. CASE Loads
  <2>1. /\ pc = "append" /\ pc' = "write" /\ run.next <= Len(CanonicalStrategies)
        /\ run'.trades = store \cup RunReplay
        /\ run'.until = run.until /\ run'.next = run.next /\ run'.filled = run.filled
    BY <1>1, <1>6 DEF Loads, Appended, TypeOK
  <2>2. /\ store' = store /\ byHand' = byHand /\ now' = now /\ market' = market
        /\ filled' = filled /\ earliest' = earliest
    BY <1>6 DEF Loads
  <2>3. /\ run.until \in 1 .. now /\ run.filled \in SeenViews
        /\ Untouched(run.until, store) /\ Holds(store, run.next)
    BY <2>1 DEF IInv, AppendInv
  <2>4. RunReplay \subseteq Known(run.until) /\ RunReplay = FreshOf(run.next)
    BY <1>1, <1>3, <2>1, <2>3, ReplayIsFresh
  <2>5. \A i : FreshOf(i)' = FreshOf(i)
    BY <2>1, <2>2 DEF FreshOf, Fresh, pin
  <2>6. Untouched(run.until, store)' /\ Untouched(run.until, run.trades)'
    BY <2>1, <2>2, <2>3, <2>4 DEF Untouched, Known
  <2>7. Holds(store, run.next)'
    BY <2>1, <2>2, <2>3, <2>5 DEF Holds
  <2>8. Holds(run.trades, run.next + 1)'
    <3>1. \A i \in 1 .. Len(CanonicalStrategies) :
            i < run.next + 1 => i < run.next \/ i = run.next
      BY <1>3
    <3>2. QED
      BY <2>1, <2>2, <2>3, <2>4, <2>5, <3>1 DEF Holds
  <2>9. QED
    BY <2>1, <2>2, <2>3, <2>6, <2>7, <2>8 DEF AppendInv, SeenViews
<1>7. CASE Writes
  <2>1. /\ pc = "write" /\ pc' = "append" /\ store' = run.trades
        /\ run'.until = run.until /\ run'.next = run.next + 1 /\ run'.filled = run.filled
    BY <1>1, <1>7 DEF Writes, TypeOK
  <2>2. /\ byHand' = byHand /\ now' = now /\ market' = market
        /\ filled' = filled /\ earliest' = earliest
    BY <1>7 DEF Writes
  <2>3. /\ run.until \in 1 .. now /\ run.filled \in SeenViews
        /\ Untouched(run.until, run.trades) /\ Holds(run.trades, run.next + 1)
    BY <2>1 DEF IInv, AppendInv
  <2>4. \A i : FreshOf(i)' = FreshOf(i)
    BY <2>1, <2>2 DEF FreshOf, Fresh, pin
  <2>5. Untouched(run.until, store)'
    BY <2>1, <2>2, <2>3 DEF Untouched, Known
  <2>6. Holds(store, run.next)'
    BY <2>1, <2>2, <2>3, <2>4 DEF Holds
  <2>7. QED
    BY <2>1, <2>2, <2>3, <2>5, <2>6 DEF AppendInv, SeenViews
<1>8. CASE pc' \notin {"append", "write"}
  BY <1>8 DEF AppendInv
<1>9. QED
  BY <1>1, <1>4, <1>5, <1>6, <1>7, <1>8, Moves

\* The store that passes validate after an append is what the daily replay
\* finds up to the hour of the run.
LEMMA StoreCounts ==
  ASSUME IInv, pc = "append", run.next > Len(CanonicalStrategies), Admissible(store)
  PROVE  Counted(Cardinality(store), run.until, pin)
<1>1. /\ TypeOK /\ run.filled \in SeenViews
      /\ Untouched(run.until, store) /\ Holds(store, run.next)
  BY DEF IInv, AppendInv
<1>2. SeenViews \subseteq BOOLEAN /\ Len(CanonicalStrategies) = 2 /\ run.next \in Int
  BY <1>1 DEF SeenViews, TypeOK, CanonicalStrategies
<1>3. store \subseteq AllTrades
  BY <1>1 DEF TypeOK
<1>4. ASSUME "dropped" \notin byHand
      PROVE  Cardinality(Fresh(run.filled, run.until, pin)) <= Cardinality(store)
  <2>1. FreshOf(1) \subseteq store /\ FreshOf(2) \subseteq store
    BY <1>1, <1>2, <1>4 DEF Holds
  <2>2. \A t \in market[<<"daily", run.filled>>] : t.strategy \in {"breakout", "short"}
    <3>1. "daily" \in Settings
      BY ForwardAssumption
    <3>2. QED
      BY <1>1, <1>2, <3>1, ReplayFacts DEF Trades
  <2>3. Fresh(run.filled, run.until, pin) \subseteq FreshOf(1) \cup FreshOf(2)
    BY <2>2 DEF Fresh, FreshOf, CanonicalStrategies
  <2>4. Fresh(run.filled, run.until, pin) \subseteq store
    BY <2>1, <2>3
  <2>5. QED
    BY <1>1, <1>3, <2>4, Countable
<1>5. ASSUME byHand = {}
      PROVE  Cardinality(store)
               <= Cardinality(Fresh(FALSE, run.until, pin) \cup Fresh(filled, run.until, pin))
  <2>1. store \subseteq Known(run.until)
    BY <1>1, <1>5 DEF Untouched
  <2>2. store \subseteq Fresh(FALSE, run.until, pin) \cup Fresh(filled, run.until, pin)
    BY <2>1 DEF Known, Fresh, Admissible, Larger
  <2>3. Fresh(FALSE, run.until, pin) \cup Fresh(filled, run.until, pin) \subseteq AllTrades
    BY <1>1, FreshFacts DEF TypeOK
  <2>4. QED
    BY <1>1, <2>2, <2>3, Countable
<1>6. QED
  BY <1>1, <1>4, <1>5 DEF Counted

\* A checkpoint counts the trades of its manifest up to its hour, and from the
\* audit on there is one.
LEMMA CheckpointStep ==
  ASSUME IInv, Next
  PROVE  CheckpointInv'
<1>1. TypeOK /\ CheckpointInv
  BY DEF IInv
<1>2. /\ now \in Nat /\ now > 0 /\ now' \in Nat /\ now <= now'
      /\ Len(earliest) \in Nat /\ Len(earliest) > 0
      /\ Len(earliest') \in Nat /\ Len(earliest) <= Len(earliest')
  BY <1>1, Growth DEF Hours
<1>3. CASE Checkpoints
  <2>1. /\ checkpoint'.until = run.until /\ checkpoint'.count = Cardinality(store)
        /\ checkpoint'.pin = pin
        /\ pc = "append" /\ run.next > Len(CanonicalStrategies) /\ Admissible(store)
    BY <1>3 DEF Checkpoints
  <2>2. Counted(Cardinality(store), run.until, pin)
    BY <2>1, StoreCounts
  <2>3. Cardinality(store) \in Nat /\ pin \in 1 .. Len(earliest)
    <3>1. store \subseteq AllTrades
      BY <1>1 DEF TypeOK
    <3>2. QED
      BY <1>1, <1>2, <3>1, Countable DEF pin
  <2>4. run.until \in 1 .. now
    BY <2>1 DEF IInv, AppendInv
  <2>5. Counted(checkpoint.count, checkpoint.until, checkpoint.pin)'
    <3>1. market' = market /\ filled' = filled /\ earliest' = earliest /\ byHand' = byHand
      BY <1>3 DEF Checkpoints, world, manual
    <3>2. QED
      BY <2>1, <2>2, <3>1 DEF Counted, Fresh, SeenViews
  <2>6. checkpoint'.until # NoCheckpoint.until
    BY <1>2, <2>1, <2>4 DEF NoCheckpoint
  <2>7. checkpoint' # NoCheckpoint
    BY <2>6
  <2>8. checkpoint'.until \in 1 .. now' /\ checkpoint'.pin \in 1 .. Len(earliest')
    BY <1>2, <2>1, <2>3, <2>4
  <2>9. QED
    BY <2>5, <2>7, <2>8 DEF CheckpointInv
<1>4. ASSUME checkpoint' = checkpoint, ~Checkpoints
      PROVE  CheckpointInv'
  <2>1. checkpoint # NoCheckpoint =>
          /\ checkpoint.until \in 1 .. now' /\ checkpoint.pin \in 1 .. Len(earliest')
          /\ Counted(checkpoint.count, checkpoint.until, checkpoint.pin)'
    <3>1. SUFFICES ASSUME checkpoint # NoCheckpoint
                   PROVE  /\ checkpoint.until \in 1 .. now'
                          /\ checkpoint.pin \in 1 .. Len(earliest')
                          /\ Counted(checkpoint.count, checkpoint.until, checkpoint.pin)'
      OBVIOUS
    <3>2. PICK count, until, manifest :
            count = checkpoint.count /\ until = checkpoint.until /\ manifest = checkpoint.pin
      OBVIOUS
    <3>3. /\ until \in 1 .. now /\ manifest \in 1 .. Len(earliest)
          /\ Counted(count, until, manifest) /\ count \in Nat
      BY <1>1, <3>1, <3>2 DEF CheckpointInv, TypeOK
    <3>4. Counted(count, until, manifest)'
      BY <1>1, <3>3, CountedStable
    <3>5. count = checkpoint'.count /\ until = checkpoint'.until /\ manifest = checkpoint'.pin
      BY <1>4, <3>2
    <3>6. Counted(checkpoint.count, checkpoint.until, checkpoint.pin)'
      BY <3>4, <3>5 DEF Counted, Fresh
    <3>7. QED
      BY <1>2, <3>2, <3>3, <3>6
  <2>2. NoNewData => checkpoint # NoCheckpoint
    BY <1>2 DEF NoNewData, LastClosedHour, NoCheckpoint
  <2>3. pc' \in {"audit", "audited", "gate", "frozen", "milestones", "alert", "sent"} =>
          checkpoint # NoCheckpoint
    <3>1. CASE pc' = pc
      BY <1>1, <3>1 DEF CheckpointInv
    <3>2. CASE pc' # pc
      BY <1>1, <1>4, <2>2, <3>2, Moves
      DEF CheckpointInv, AuditPasses, AuditSaves, GateFreezes, GateReports,
          RecordsMilestones, MilestonesBlocked, AlertSends
    <3>3. QED
      BY <3>1, <3>2
  <2>4. QED
    BY <1>4, <2>1, <2>3 DEF CheckpointInv
<1>5. CASE PinRemoved
  <2>1. pc' = "idle" /\ checkpoint' \in {checkpoint, NoCheckpoint} /\ ~Checkpoints
    BY <1>5 DEF PinRemoved, script, Checkpoints
  <2>2. QED
    BY <1>4, <2>1 DEF CheckpointInv
<1>6. QED
  BY <1>1, <1>3, <1>4, <1>5, Frame

\* The audit, the gate and the milestones see one checkpoint, and the store it
\* counted unless an append by hand goes on meanwhile.
LEMMA StageStep ==
  ASSUME IInv, Next
  PROVE  StageInv'
<1>1. TypeOK /\ StageInv
  BY DEF IInv
<1>2. /\ Cardinality(store) \in Nat /\ IsFiniteSet(store)
      /\ checkpoint.count \in Nat /\ promotion.signals \in Nat
      /\ Cardinality(run.trades) \in Nat
  <2>1. store \subseteq AllTrades /\ run.trades \subseteq AllTrades
    BY <1>1 DEF TypeOK
  <2>2. QED
    BY <1>1, <2>1, Countable DEF TypeOK
<1>3. byHand \subseteq byHand'
  BY <1>1, Frame
<1>4. ASSUME pc' = pc, pc \in {"audited", "gate", "frozen", "milestones", "alert", "sent"}
      PROVE  StageInv'
  <2>1. /\ pin' = pin /\ run' = run /\ (store' = store \/ HandWrites)
        /\ checkpoint' = checkpoint /\ gate' = gate
        /\ integrity' = integrity /\ promotion' = promotion
    BY <1>1, <1>4, Alone
  <2>2. /\ "dropped" \notin byHand' => "dropped" \notin byHand /\ store \subseteq store'
        /\ byHand' = {} => byHand = {} /\ store' = store
    BY <1>3, <2>1, HandFacts
  <2>3. IsFiniteSet(store') /\ Cardinality(store') \in Nat
    <3>1. store' \subseteq AllTrades
      <4>1. store \subseteq AllTrades /\ hand.copy \subseteq AllTrades
        BY <1>1 DEF TypeOK
      <4>2. QED
        BY <2>1, <4>1 DEF HandWrites
    <3>2. QED
      BY <1>1, <3>1, Countable
  <2>4. store \subseteq store' => Cardinality(store) <= Cardinality(store')
    BY <2>3, FS_Subset
  <2>5. FollowsCheckpoint(Cardinality(store)) => FollowsCheckpoint(Cardinality(store))'
    BY <1>2, <2>1, <2>2, <2>3, <2>4 DEF FollowsCheckpoint
  <2>6. /\ FollowsCheckpoint(Cardinality(run.trades)) =>
             FollowsCheckpoint(Cardinality(run.trades))'
        /\ FollowsCheckpoint(promotion.signals) => FollowsCheckpoint(promotion.signals)'
    BY <2>1, <2>2 DEF FollowsCheckpoint
  <2>7. QED
    BY <1>1, <1>4, <2>1, <2>5, <2>6 DEF StageInv
<1>5. CASE AuditPasses
  BY <1>2, <1>5 DEF AuditPasses, IntegrityOk, AuditReport, StageInv, FollowsCheckpoint,
     manual, world, pin
<1>6. CASE AuditSaves
  BY <1>1, <1>6 DEF AuditSaves, StageInv, FollowsCheckpoint, manual, world, pin
<1>7. CASE GateFreezes
  <2>1. gate' = pin
    BY <1>7 DEF GateFreezes, GateAgrees, LoadedOrFrozen
  <2>2. run'.trades = store
    BY <1>1, <1>7 DEF GateFreezes, TypeOK
  <2>3. QED
    BY <1>1, <1>7, <2>1, <2>2
    DEF GateFreezes, StageInv, FollowsCheckpoint, manual, world, pin
<1>8. CASE GateReports
  BY <1>1, <1>8 DEF GateReports, StageInv, FollowsCheckpoint, manual, world, pin
<1>9. CASE RecordsMilestones \/ MilestonesBlocked
  BY <1>1, <1>9
  DEF RecordsMilestones, MilestonesBlocked, StageInv, FollowsCheckpoint, manual, files
<1>10. CASE AlertSends
  BY <1>1, <1>10 DEF AlertSends, StageInv, FollowsCheckpoint, manual, files
<1>11. CASE pc' \notin {"audited", "gate", "frozen", "milestones", "alert", "sent"}
  BY <1>11 DEF StageInv
<1>12. QED
  BY <1>1, <1>4, <1>5, <1>6, <1>7, <1>8, <1>9, <1>10, <1>11, Moves

\* The scheduler hears what became of its script, and a success it heard means
\* that the files of that run agree.
LEMMA SchedulerStep ==
  ASSUME IInv, Next
  PROVE  SchedulerInv'
<1> USE DEF files, records, alerts, world, script, daemon, manual, CountsAgree, SuccessHeard
<1>1. SchedulerInv /\ byHand \subseteq byHand'
  BY Frame DEF IInv
<1>2. pc \in {"alert", "sent"} /\ byHand = {} => CountsAgree
  BY DEF IInv, StageInv, FollowsCheckpoint
<1>3. CASE SchedulerStarts
  BY <1>3, <1>1
  DEF SchedulerStarts, ScriptStarts, SchedulerInv
<1>4. CASE CronStarts
  BY <1>4, <1>1
  DEF CronStarts, ScriptStarts, SchedulerInv
<1>5. CASE SchedulerSkips
  BY <1>5, <1>1
  DEF SchedulerSkips, SchedulerInv
<1>6. CASE StateWritten
  BY <1>6, <1>1
  DEF StateWritten, SchedulerInv
<1>7. CASE NoNewData
  BY <1>7, <1>1
  DEF NoNewData, LastClosedHour, SchedulerInv
<1>8. CASE Fetches
  BY <1>8, <1>1
  DEF Fetches, LastClosedHour, SchedulerInv
<1>9. CASE PinRefused
  BY <1>9, <1>1
  DEF PinRefused, Fails, Ends, SchedulerInv
<1>10. CASE Loads
  BY <1>10, <1>1
  DEF Loads, SchedulerInv
<1>11. CASE Writes
  BY <1>11, <1>1
  DEF Writes, SchedulerInv
<1>12. CASE AppendRefused
  BY <1>12, <1>1
  DEF AppendRefused, Fails, Ends, SchedulerInv
<1>13. CASE Checkpoints
  BY <1>13, <1>1
  DEF Checkpoints, SchedulerInv
<1>14. CASE ValidationRefused
  BY <1>14, <1>1
  DEF ValidationRefused, Fails, Ends, SchedulerInv
<1>15. CASE AuditPasses
  BY <1>15, <1>1
  DEF AuditPasses, AuditReport, SchedulerInv
<1>16. CASE AuditFails
  BY <1>16, <1>1
  DEF AuditFails, AuditReport, Fails, Ends, SchedulerInv
<1>17. CASE AuditSaves
  BY <1>17, <1>1
  DEF AuditSaves, SchedulerInv
<1>18. CASE GateFreezes
  BY <1>18, <1>1
  DEF GateFreezes, LoadedOrFrozen, SchedulerInv
<1>19. CASE GateRefused
  BY <1>19, <1>1
  DEF GateRefused, Fails, Ends, SchedulerInv
<1>20. CASE GateReports
  BY <1>20, <1>1
  DEF GateReports, SchedulerInv
<1>21. CASE RecordsMilestones
  BY <1>21, <1>1
  DEF RecordsMilestones, SchedulerInv
<1>22. CASE MilestonesBlocked
  BY <1>22, <1>1
  DEF MilestonesBlocked, SchedulerInv
<1>23. CASE MilestonesRefused
  BY <1>23, <1>1
  DEF MilestonesRefused, Fails, Ends, SchedulerInv
<1>24. CASE AlertSends
  BY <1>24, <1>1
  DEF AlertSends, SchedulerInv
<1>25. CASE AlertSaves
  BY <1>25, <1>1, <1>2
  DEF AlertSaves, Succeeds, Ends, SchedulerInv
<1>26. CASE Heartbeat
  BY <1>26, <1>1, <1>2
  DEF Heartbeat, Succeeds, Ends, SchedulerInv
<1>27. CASE GateTears
  BY <1>27, <1>1
  DEF GateTears, Fails, Ends, SchedulerInv
<1>28. CASE AlertFails
  BY <1>28, <1>1, <1>2
  DEF AlertFails, Succeeds, Ends, SchedulerInv
<1>29. CASE StageDies
  BY <1>29, <1>1
  DEF StageDies, Fails, Ends, SchedulerInv
<1>30. CASE Killed
  BY <1>30, <1>1
  DEF Killed, SchedulerInv
<1>31. CASE SchedulerDies
  BY <1>31, <1>1
  DEF SchedulerDies, SchedulerInv
<1>32. CASE HandStarts
  BY <1>32, <1>1
  DEF HandStarts, Loaded, SchedulerInv
<1>33. CASE HandLoads
  BY <1>33, <1>1
  DEF HandLoads, Loaded, SchedulerInv
<1>34. CASE HandWrites
  BY <1>34, <1>1
  DEF HandWrites, SchedulerInv
<1>35. CASE HandStops
  BY <1>35, <1>1
  DEF HandStops, SchedulerInv
<1>36. CASE Refreezes
  BY <1>36, <1>1
  DEF Refreezes, SchedulerInv
<1>37. CASE StoreRestored
  BY <1>37, <1>1
  DEF StoreRestored, SchedulerInv
<1>38. CASE PinRemoved
  BY <1>38, <1>1
  DEF PinRemoved, SchedulerInv
<1>39. CASE LockRemoved
  BY <1>39, <1>1
  DEF LockRemoved, SchedulerInv
<1>40. CASE Tick
  BY <1>40, <1>1
  DEF Tick, SchedulerInv
<1>41. CASE GapFilled
  BY <1>41, <1>1
  DEF GapFilled, SchedulerInv
<1>42. QED
  BY <1>3, <1>4, <1>5, <1>6, <1>7, <1>8, <1>9, <1>10, <1>11, <1>12, <1>13,
    <1>14, <1>15, <1>16, <1>17, <1>18, <1>19, <1>20, <1>21, <1>22, <1>23,
    <1>24, <1>25, <1>26, <1>27, <1>28, <1>29, <1>30, <1>31, <1>32, <1>33,
    <1>34, <1>35, <1>36, <1>37, <1>38, <1>39, <1>40, <1>41
  DEF Next, Stage, Faults, Operator

-------------------------------------------------------------------------------
(***************************************************************************)
(* The milestones.                                                         *)
(***************************************************************************)
\* An entry of the history is a count that stands for its trades.
LEMMA EntriesCount ==
  MilestoneAudited <=>
    \A entry \in history :
      /\ entry.observed >= entry.milestone
      /\ Counted(entry.observed, entry.until, entry.pin)
  BY DEF MilestoneAudited, Counted, SeenViews

\* Entries are only added, from a checkpoint that stands for its trades, and
\* for the manifest the history is pinned to.
LEMMA HistoryStep ==
  ASSUME IInv, Next
  PROVE  MilestoneAudited' /\ OneFrozenContract'
<1>1. TypeOK /\ MilestoneAudited /\ OneFrozenContract /\ CheckpointInv /\ StageInv
  BY DEF IInv
<1>2. \A entry \in history :
        /\ entry.observed \in Nat /\ entry.pin \in 1 .. Len(earliest)
        /\ entry.observed >= entry.milestone
        /\ Counted(entry.observed, entry.until, entry.pin)
  BY <1>1, EntriesCount DEF TypeOK
<1>3. ASSUME NEW entry \in history
      PROVE  /\ entry.observed >= entry.milestone
             /\ Counted(entry.observed, entry.until, entry.pin)'
  <2>1. PICK count, until, manifest :
          count = entry.observed /\ until = entry.until /\ manifest = entry.pin
    OBVIOUS
  <2>2. Counted(count, until, manifest)'
    BY <1>1, <1>2, <2>1, CountedStable
  <2>3. QED
    BY <1>2, <2>1, <2>2
<1>4. CASE history' = history /\ candidate' = candidate
  <2>1. \A entry \in history' :
          /\ entry.observed >= entry.milestone
          /\ Counted(entry.observed, entry.until, entry.pin)'
    BY <1>3, <1>4
  <2>2. MilestoneAudited'
    BY <2>1 DEF MilestoneAudited, Counted, SeenViews
  <2>3. QED
    BY <1>1, <1>4, <2>2 DEF OneFrozenContract
<1>5. CASE RecordsMilestones
  <2>1. /\ pc = "milestones" /\ candidate \in {0, promotion.pin} /\ candidate' = promotion.pin
        /\ history' = history \cup {Entry(m) : m \in Due(promotion.signals)}
    BY <1>5 DEF RecordsMilestones
  <2>2. /\ checkpoint # NoCheckpoint /\ promotion.pin = checkpoint.pin
        /\ FollowsCheckpoint(promotion.signals)
        /\ checkpoint.pin \in 1 .. Len(earliest)
        /\ Counted(checkpoint.count, checkpoint.until, checkpoint.pin)
        /\ promotion.signals \in Nat /\ checkpoint.count \in Nat
    BY <1>1, <2>1 DEF CheckpointInv, StageInv, TypeOK
  <2>3. Counted(promotion.signals, checkpoint.until, checkpoint.pin)
    <3>1. \A full \in SeenViews :
            Cardinality(Fresh(full, checkpoint.until, checkpoint.pin)) \in Nat
      BY <1>1, FreshFacts, Countable DEF SeenViews, TypeOK
    <3>2. QED
      BY <2>2, <3>1 DEF Counted, FollowsCheckpoint
  <2>4. PICK count, until, manifest :
          /\ count = promotion.signals /\ until = checkpoint.until
          /\ manifest = checkpoint.pin
    OBVIOUS
  <2>5. Counted(count, until, manifest)'
    BY <1>1, <2>2, <2>3, <2>4, CountedStable
  <2>6. \A entry \in history' :
          /\ entry.observed >= entry.milestone
          /\ Counted(entry.observed, entry.until, entry.pin)'
    <3>1. SUFFICES ASSUME NEW entry \in history'
                   PROVE  /\ entry.observed >= entry.milestone
                          /\ Counted(entry.observed, entry.until, entry.pin)'
      OBVIOUS
    <3>2. CASE entry \in history
      BY <1>3, <3>2
    <3>3. ASSUME NEW m \in Due(promotion.signals), entry = Entry(m)
          PROVE  /\ entry.observed >= entry.milestone
                 /\ Counted(entry.observed, entry.until, entry.pin)'
      <4>1. /\ entry.observed = count /\ entry.milestone = m
            /\ entry.until = until /\ entry.pin = manifest
        BY <2>4, <3>3 DEF Entry
      <4>2. count >= m
        BY <2>4 DEF Due
      <4>3. QED
        BY <2>5, <4>1, <4>2
    <3>4. QED
      BY <2>1, <3>1, <3>2, <3>3
  <2>7. MilestoneAudited'
    BY <2>6 DEF MilestoneAudited, Counted, SeenViews
  <2>8. \A entry \in history : entry.pin = promotion.pin
    BY <1>1, <1>2, <2>1 DEF OneFrozenContract
  <2>9. OneFrozenContract'
    BY <2>1, <2>2, <2>8 DEF OneFrozenContract, Entry
  <2>10. QED
    BY <2>7, <2>9
<1>6. QED
  BY <1>1, <1>4, <1>5, Frame

-------------------------------------------------------------------------------
(***************************************************************************)
(* The theorems.                                                           *)
(***************************************************************************)
\* The invariant holds before the first run.
LEMMA Initially ==
  ASSUME Init
  PROVE  IInv
<1>1. MaxHours \in Nat \ {0}
  BY ForwardAssumption
<1>2. earliest \in Seq(0 .. MaxHours) /\ earliest # << >> /\ Len(earliest) = 1
  <2>1. <<0>> \in Seq(0 .. MaxHours) /\ <<0>> # << >> /\ Len(<<0>>) = 1
    BY <1>1
  <2>2. QED
    BY <2>1 DEF Init
<1>3. TypeOK
  <2>1. now \in Hours /\ market \in Markets /\ filled \in BOOLEAN
    <3>1. now \in Hours
      BY <1>1 DEF Init, Hours
    <3>2. filled = FALSE /\ market \in Markets
      BY DEF Init
    <3>3. QED
      BY <3>1, <3>2
  <2>2. store \subseteq AllTrades
        /\ audited \in [trades : SUBSET AllTrades, until : 0 .. now, runs : Nat]
    BY DEF Init, NoLineage
  <2>3. checkpoint \in [until : 0 .. now, count : Nat, runs : Nat,
                        pin : 0 .. Len(earliest),
                        state : {"NONE", "TOO_EARLY", "PASS", "EVALUATE", "FAIL"}]
    BY <1>2 DEF Init, NoCheckpoint
  <2>4. integrity \in [state : {"MISSING", "PASS", "FAIL"},
                       health : {"MISSING", "HEALTHY", "STALE"}, count : Nat]
    BY DEF Init, NoReport
  <2>5. gate \in 0 .. Len(earliest) /\ candidate \in 0 .. Len(earliest)
    BY <1>2 DEF Init
  <2>6. promotion \in [state : {"MISSING", "INVALID", "TOO_EARLY", "REJECT",
                                "CONTINUE_ACCUMULATING", "ACCEPT"},
                       signals : Nat, at : 0 .. now, pin : 0 .. Len(earliest)]
    BY <1>2 DEF Init, NoPromotion
  <2>7. history \subseteq [milestone : Milestones, observed : Nat, mode : Modes,
                           until : 1 .. now, pin : 1 .. Len(earliest)]
    BY DEF Init
  <2>8. /\ lock \in BOOLEAN /\ (pc # "idle" => lock) /\ pc = "idle"
        /\ scheduler = "polls" /\ result = "MISSING" /\ heard = "no" /\ byHand = {}
    BY DEF Init
  <2>9. run \in [until : 0 .. now, next : 1 .. Len(CanonicalStrategies) + 1,
                 filled : BOOLEAN, trades : SUBSET AllTrades]
    <3>1. Len(CanonicalStrategies) = 2
      BY DEF CanonicalStrategies
    <3>2. QED
      BY <3>1 DEF Init, NoRun
  <2>10. hand \in [todo : Seq(SUBSET AllTrades), loaded : BOOLEAN, copy : SUBSET AllTrades]
    <3>1. << >> \in Seq(SUBSET AllTrades)
      OBVIOUS
    <3>2. QED
      BY <3>1 DEF Init, NoHand
  <2>11. left \in [Disturbances -> Nat]
    BY ForwardAssumption DEF Init
  <2>12. QED
    BY <1>2, <2>1, <2>2, <2>3, <2>4, <2>5, <2>6, <2>7, <2>8, <2>9, <2>10, <2>11 DEF TypeOK
<1>4. /\ StoreInv /\ AppendInv /\ CheckpointInv /\ StageInv /\ SchedulerInv
      /\ MilestoneAudited /\ OneFrozenContract
  BY DEF Init, StoreInv, Untouched, AppendInv, CheckpointInv, StageInv, SchedulerInv,
     SuccessHeard, MilestoneAudited, OneFrozenContract
<1>5. QED
  BY <1>3, <1>4 DEF IInv

\* A step that changes nothing keeps it.
LEMMA Stutters ==
  ASSUME IInv, UNCHANGED vars
  PROVE  IInv'
<1>1. /\ now' = now /\ market' = market /\ filled' = filled /\ earliest' = earliest
      /\ store' = store /\ checkpoint' = checkpoint /\ audited' = audited
      /\ integrity' = integrity /\ gate' = gate /\ promotion' = promotion
      /\ history' = history /\ candidate' = candidate
      /\ lock' = lock /\ pc' = pc /\ run' = run /\ scheduler' = scheduler
      /\ result' = result /\ heard' = heard /\ hand' = hand /\ byHand' = byHand
      /\ left' = left
  BY DEF vars, files, records, alerts, world, script, daemon, manual
<1>2. TypeOK'
  BY <1>1 DEF IInv, TypeOK, AllTrades
<1>3. StoreInv' /\ AppendInv'
  BY <1>1 DEF IInv, StoreInv, AppendInv, Untouched, Known, Holds, FreshOf, Fresh, SeenViews, pin
<1>4. CheckpointInv' /\ StageInv'
  BY <1>1 DEF IInv, CheckpointInv, Counted, Fresh, SeenViews, StageInv, FollowsCheckpoint, pin
<1>5. SchedulerInv'
  BY <1>1 DEF IInv, SchedulerInv, SuccessHeard, CountsAgree
<1>6. MilestoneAudited' /\ OneFrozenContract'
  BY <1>1 DEF IInv, MilestoneAudited, Fresh, OneFrozenContract
<1>7. QED
  BY <1>2, <1>3, <1>4, <1>5, <1>6 DEF IInv

\* The invariant is inductive.
LEMMA Inductive ==
  ASSUME IInv, [Next]_vars
  PROVE  IInv'
<1>1. CASE Next
  <2>1. TypeOK'
    BY <1>1, TypeStep DEF IInv
  <2>2. QED
    BY <1>1, <2>1, StoreStep, AppendStep, CheckpointStep, StageStep, SchedulerStep,
       HistoryStep
    DEF IInv
<1>2. CASE UNCHANGED vars
  BY <1>2, Stutters
<1>3. QED
  BY <1>1, <1>2

\* The strengthened invariant of the forward research: what an accumulation has
\* appended so far (forward_oos.py), what a checkpoint counts, what the later
\* stages share with it, and what the scheduler may know of the last script.
THEOREM Invariance == Spec => []IInv
<1>1. Init => IInv
  BY Initially
<1>2. IInv /\ [Next]_vars => IInv'
  BY Inductive
<1>3. QED
  BY <1>1, <1>2, PTL DEF Spec

\* The research files keep their types (forward_oos_automation.py).
THEOREM TypeCorrect == Spec => []TypeOK
<1>1. IInv => TypeOK
  BY DEF IInv
<1>2. QED
  BY <1>1, Invariance, PTL

\* Every milestone entry stands for the trades the daily replay finds up to its
\* hour, and for no others, but for what an append by hand added or dropped
\* (oos_milestones.py on top of evidence_integrity.py).
THEOREM MilestonesTrue == Spec => []MilestoneAudited
<1>1. IInv => MilestoneAudited
  BY DEF IInv
<1>2. QED
  BY <1>1, Invariance, PTL

\* The history judges one candidate (oos_milestones.py), whichever manifests
\* are frozen and files removed.
THEOREM OneContract == Spec => []OneFrozenContract
<1>1. IInv => OneFrozenContract
  BY DEF IInv
<1>2. QED
  BY <1>1, Invariance, PTL

\* A dashboard that says HEALTHY has heard of a success, and a success that was
\* heard means that checkpoint, audit and gate count the same
\* (research_operations.py, daily_scheduler.py).
LEMMA HealthyCounts ==
  ASSUME IInv
  PROVE  HealthyIsConsistent
<1>1. SUFFICES ASSUME heard = "yes", byHand = {}, Dashboard = "HEALTHY"
               PROVE  CountsAgree
  BY DEF HealthyIsConsistent, CountsAgree
<1> DEFINE States == {PromotionHealth, IntegrityHealth, SchedulerHealth,
                      FileHealth(checkpoint # NoCheckpoint), FileHealth(candidate # 0)}
<1>2. "MISSING" \notin States /\ States \cap {"FAIL", "FAILED"} = {}
  BY <1>1 DEF Dashboard, OverallState
<1>3. checkpoint # NoCheckpoint
  BY <1>2 DEF FileHealth
<1>4. result = "SUCCESS"
  BY <1>2 DEF SchedulerHealth, IInv, TypeOK
<1>5. QED
  BY <1>1, <1>3, <1>4 DEF IInv, SchedulerInv, SuccessHeard

\* Between two runs a HEALTHY dashboard that heard of the last script shows the
\* counts of one run.
THEOREM HealthyTrue == Spec => []HealthyIsConsistent
<1>1. IInv => HealthyIsConsistent
  BY HealthyCounts
<1>2. QED
  BY <1>1, Invariance, PTL

===============================================================================
