---------------------------- MODULE TradingRuntime ----------------------------
(***************************************************************************)
(* Two processes the launcher starts next to the traders: the log sidecar  *)
(* and the API (trading-runtime), of which the validation trade of Phase   *)
(* 4.1 is taken here; its live room is the subject of FuturesRoom.  They   *)
(* share no file that either reads, so they need no interleaving: a        *)
(* behaviour moves the one or the other.                                   *)
(***************************************************************************)
EXTENDS LogSidecar

CONSTANTS Threads, MaxEntries, MaxRequests, MaxStops

ASSUME ValidationAssumption ==
  MaxEntries \in Nat /\ MaxRequests \in Nat /\ MaxStops \in Nat

VARIABLES
  moves, \* the process that moves
  book, thread, entered, exited, unsure, undone, raced, spent

Validation == INSTANCE Phase41Validation

validationVars == <<book, thread, entered, exited, unsure, undone, raced, spent>>

\* Which logs exist already matters to the sidecar only.
RuntimeInit ==
  /\ Init /\ Validation!Init
  /\ moves \in {"sidecar", "api"}
  /\ moves = "api" => \A s \in Sources : log[s] = NoLog

SidecarMoves ==
  moves = "sidecar" /\ Next /\ UNCHANGED <<moves, validationVars>>

SidecarPolls ==
  moves = "sidecar" /\ Sidecar /\ UNCHANGED <<moves, validationVars>>

ApiMoves ==
  moves = "api" /\ Validation!Next /\ UNCHANGED <<moves, vars>>

\* No fairness of the API: nobody has to send a request.
RuntimeSpec ==
  /\ RuntimeInit
  /\ [][SidecarMoves \/ ApiMoves]_<<moves, vars, validationVars>>
  /\ WF_vars(SidecarPolls)
-------------------------------------------------------------------------------
\* Every variable of the two processes keeps its type.
RuntimeTypeOK ==
  moves \in {"sidecar", "api"} /\ TypeOK /\ Validation!TypeOK

\* The validation lane shows at most one open position, and every other
\* difference between its file and its coins was told to a caller or needs
\* overlapping requests.
ValidationLossIsTold == Validation!LossIsTold
=============================================================================
