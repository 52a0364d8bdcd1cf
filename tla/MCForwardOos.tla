----------------------------- MODULE MCForwardOos -----------------------------
(***************************************************************************)
(* A small market for ForwardOos, and what may disturb it.                 *)
(***************************************************************************)
EXTENDS ForwardOos

Row(r, ml, action) == [r |-> r, ml |-> ml, action |-> action]

Trade(strategy, entered, closed, row) ==
  [strategy |-> strategy, entered |-> entered, closed |-> closed, row |-> row]

Winner == Row(3, TRUE, "ML_FILTER")
Loser  == Row(-1, TRUE, "RULE_BASED")
Missed == Row(2, FALSE, "RULE_BASED")

\* A trade of the warm-up, then one of each strategy; the policy wins more than
\* it loses.  With the gap filled the breakout is another one and the short
\* has another content; so has the breakout with another setting, which finds
\* another short as well.  An hour stands for as many as lie between two runs.
Market ==
  LET breakout == Trade("breakout", 1, 1, Winner)
      short    == Trade("short", 1, 2, Loser)
  IN  (<<"daily", FALSE>>   :> {Trade("short", 0, 1, Missed), breakout, short}) @@
      (<<"daily", TRUE>>    :> {Trade("breakout", 2, 2, Winner),
                                Trade("short", 1, 2, Missed)}) @@
      (<<"default", FALSE>> :> {Trade("breakout", 1, 2, Loser),
                                Trade("short", 0, 1, Missed),
                                Trade("short", 2, 2, Loser)}) @@
      (<<"default", TRUE>>  :> {Trade("breakout", 1, 1, Loser)})

MCMarkets == {Market}

Budget(kinds) == [d \in Disturbances |-> IF d \in kinds THEN 1 ELSE 0]

\* One disturbance of each kind at most, in three combinations.
NoDisturbance == {Budget({})}

MCBudgets ==
  {Budget({"append"}), Budget({"gap", "fault"}), Budget({"files", "freeze", "fault"})}

MCStages == [early |-> 1, intermediate |-> 2, stronger |-> 3]

=============================================================================
