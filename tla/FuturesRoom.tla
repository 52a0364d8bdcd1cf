----------------------------- MODULE FuturesRoom -----------------------------
(***************************************************************************)
(* The Futures demo automation and the live room in front of it, checked   *)
(* in one run.  The room has a trader of its own: of a round it keeps what *)
(* a viewer can tell, a saved position or halt, the records, the printed   *)
(* result.  No step of the room changes what the trader reads, so the two  *)
(* need no interleaving: a behaviour moves the one or the other.           *)
(***************************************************************************)
EXTENDS FuturesShortTrader

CONSTANTS Levels, RoomOrders, RoomFaults

ASSUME RoomAssumption ==
  /\ RoomOrders \in Nat \ {0} /\ RoomFaults \in Nat
  /\ Levels \subseteq {"TP_HIT", "SL_HIT"}

VARIABLES
  side, \* which of the two moves
  row, halted, legacy, roomJob, printed, echoed, unread, split,
  viewer, view, lifecycle, told, shown, roomFaults, probes

Room ==
  INSTANCE EventStream
    WITH MaxOrders <- RoomOrders, MaxFaults <- RoomFaults,
         job <- roomJob, faults <- roomFaults

roomVars ==
  <<row, halted, legacy, roomJob, printed, echoed, unread, split, viewer, view,
    lifecycle, told, shown, roomFaults, probes>>

RoomInit == side \in {"trader", "room"} /\ Init /\ Room!Init

TraderRound  == side = "trader" /\ Process /\ UNCHANGED <<side, roomVars>>
TraderSuffers == side = "trader" /\ Environment /\ UNCHANGED <<side, roomVars>>
RoomMoves  == side = "room" /\ Room!Next /\ UNCHANGED <<side, vars>>
RoomServes == side = "room" /\ Room!Serves /\ UNCHANGED <<side, vars>>
RoomWorks  == side = "room" /\ Room!Works /\ UNCHANGED <<side, vars>>

RoomSpec ==
  /\ RoomInit
  /\ [][TraderRound \/ TraderSuffers \/ RoomMoves]_<<side, vars, roomVars>>
  /\ WF_<<vars>>(TraderRound)
  /\ WF_<<roomVars>>(RoomServes)
  /\ WF_<<roomVars>>(RoomWorks)
-----------------------------------------------------------------------------
\* Every variable of the trader, and of the room, keeps its type.
RoomTypeOK == side \in {"trader", "room"} /\ TypeOK /\ Room!TypeOK

\* What a viewer sees of positions and halts comes to agree with the files
\* again, but for two changes the stream does not look for.
ViewCatchesUp == Room!ViewCatchesUp

\* Who was told of an open position is told of its close at a level.
CloseTold == Room!CloseTold

\* Late and repeated records do not make a closed trade active again.
ClosedIsNotActive == Room!ClosedIsNotActive
=============================================================================
