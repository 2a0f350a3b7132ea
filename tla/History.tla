------------------------------ MODULE History ------------------------------
(***************************************************************************)
(* The conversation handed to the model with a task: historySliceForTurn   *)
(* of the terminal and normalizeHistory of the run loop, the SDK's         *)
(* boundary.  A turn is its role and its content; the length of a content  *)
(* is all that is told of it, and length 0 stands for whitespace only.     *)
(***************************************************************************)
EXTENDS Naturals, SequencesExt

CONSTANTS
  Content,     (* what users type and models answer                         *)
  SizeOf,      (* the length of each content                                *)
  TurnCap,     (* MAX_HISTORY_TURNS                                         *)
  CharBudget,  (* MAX_HISTORY_TOTAL_CHARACTERS                              *)
  MaxTurn      (* MAX_HISTORY_TURN_LENGTH                                   *)

ASSUME HistoryAssumption ==
  /\ SizeOf \in [Content -> Nat]
  /\ TurnCap \in Nat \ {0}
  /\ MaxTurn \in Nat /\ CharBudget \in Nat /\ MaxTurn <= CharBudget

Turn == [role : {"user", "assistant"}, content : Content]

Newest(h) == IF Len(h) <= TurnCap THEN h ELSE SubSeq(h, Len(h) - TurnCap + 1, Len(h))

SizeOfAll(h) == FoldLeft(LAMBDA n, t : n + SizeOf[t.content], 0, h)

----------------------------------------------------------------------------
(* historySliceForTurn: the transcript without the message about to be      *)
(* sent, which is its last entry if the screen has already shown it.        *)

WithoutTask(h, task) ==
  IF h # << >> /\ Last(h) = [role |-> "user", content |-> task] THEN Front(h) ELSE h

HistoryForTurn(h, task) == Newest(WithoutTask(h, task))

----------------------------------------------------------------------------
(* normalizeHistory: one turn blank or over the limit spoils the whole      *)
(* history; a valid one is bounded walking back from its newest turn, and a *)
(* turn that does not fit any more is skipped.                              *)

ValidHistory(h) == \A i \in DOMAIN h : SizeOf[h[i].content] \in 1..MaxTurn

Fits(t, kept) == SizeOf[t.content] + SizeOfAll(kept) <= CharBudget

FaultyNormalized(h) ==  \* the budget spent from the oldest turn on
  FoldLeft(LAMBDA kept, t : IF Fits(t, kept) THEN Append(kept, t) ELSE kept, << >>, Newest(h))

Normalized(h) ==
  FoldRight(LAMBDA t, kept : IF Fits(t, kept) THEN <<t>> \o kept ELSE kept, Newest(h), << >>)

============================================================================
