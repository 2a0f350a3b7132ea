------------------------------ MODULE MCScoring ------------------------------
(***************************************************************************)
(* One agent with an owner and a stranger, or two agents; pages of two     *)
(* rows, a cap of three.                                                   *)
(***************************************************************************)
EXTENDS Scoring

CONSTANTS a1, a2

MCWeights == {2, -1, NaN}

Row(a, s, t) == [agent |-> a, source |-> s, time |-> t]

MCRows == {Row(a1, Native, 3), Row(a1, "web", 1)}
MCLedgers ==
    { <<>>,
      <<Row(a1, "web", 2)>>,
      <<Row(a1, "web", 2), Row(a2, Native, 1), Row(a1, Native, 2)>>,
      <<Row(a1, Native, 1), Row(a1, "web", 2), Row(a1, "web", 1)>> }
=============================================================================
