------------------------------ MODULE RunLoop ------------------------------
(***************************************************************************)
(* runAgentLoop: the bounded conversation with a model behind wrapAgent.   *)
(* The loop awaits one provider call or one tool at a time while a timer   *)
(* runs; the abort reaches the provider call in flight, never a tool.      *)
(***************************************************************************)
EXTENDS Naturals, Sequences

CONSTANTS
  Tool,      (* the tools offered                                           *)
  Output,    (* final texts a model can answer                              *)
  MaxCalls,  (* MAX_TURNS                                                   *)
  NULL

VARIABLES
  loop,      (* the run                                                     *)
  aborted    (* abortController.signal.aborted                              *)

ASSUME LoopAssumption == MaxCalls \in Nat \ {0} /\ NULL \notin Tool \cup Output

Captured == [tool : Tool, output : {"result", "error"}]

Failed == {"PROVIDER_API_FAILURE", "RUN_TIMED_OUT", "TOOL_ARGUMENT_INVALID", "TURN_LIMIT_EXCEEDED",
           "UNREGISTERED_TOOL"}

(* used is toolsUsed, what gets signed; ran is what really ran (history).   *)
LoopState == [pc      : {"idle", "call", "tool", "done"},
              calls   : 0..MaxCalls,
              tool    : Tool \cup {NULL},
              used    : Seq(Captured),
              ran     : Seq(Captured),
              output  : Output \cup {NULL},
              outcome : Failed \cup {"none", "converged"}]

NoRun == [pc |-> "idle", calls |-> 0, tool |-> NULL, used |-> << >>, ran |-> << >>,
          output |-> NULL, outcome |-> "none"]

----------------------------------------------------------------------------
End(l, outcome) == [l EXCEPT !.pc = "done", !.outcome = outcome]

FaultyLoopHead(l) ==  \* one call too many
  IF l.calls > MaxCalls THEN End(l, "TURN_LIMIT_EXCEEDED")
  ELSE IF aborted THEN End(l, "RUN_TIMED_OUT")
  ELSE [l EXCEPT !.pc = "call"]

(* The head of the while loop, up to the provider call it starts. *)
LoopHead(l) ==
  IF l.calls = MaxCalls THEN End(l, "TURN_LIMIT_EXCEEDED")
  ELSE IF aborted THEN End(l, "RUN_TIMED_OUT")
  ELSE [l EXCEPT !.pc = "call"]

StartLoop == loop' = [NoRun EXCEPT !.pc = "call"] /\ aborted' = FALSE

Answered == [loop EXCEPT !.calls = @ + 1]

(* A text answer converges, even one that the timer had no time to stop.    *)
ProviderConverges(text) ==
  /\ loop.pc = "call"
  /\ loop' = [End(Answered, "converged") EXCEPT !.output = text]
  /\ UNCHANGED aborted

ProviderAsksTool(t) ==
  /\ loop.pc = "call"
  /\ loop' = [Answered EXCEPT !.pc = "tool", !.tool = t]
  /\ UNCHANGED aborted

(* A tool that was not offered, or arguments its schema rejects. *)
ProviderBreaksProtocol ==
  /\ loop.pc = "call"
  /\ \E code \in {"UNREGISTERED_TOOL", "TOOL_ARGUMENT_INVALID"} : loop' = End(Answered, code)
  /\ UNCHANGED aborted

ProviderFails ==
  /\ loop.pc = "call" /\ ~ aborted
  /\ loop' = End(loop, "PROVIDER_API_FAILURE")
  /\ UNCHANGED aborted

(* Whatever a call throws once the timer fired is the timeout. *)
ProviderAborted ==
  /\ loop.pc = "call" /\ aborted
  /\ loop' = End(loop, "RUN_TIMED_OUT")
  /\ UNCHANGED aborted

FaultyToolSettles(output) ==  \* a tool that throws is not captured
  LET entry == [tool |-> loop.tool, output |-> output] IN
  /\ loop.pc = "tool"
  /\ loop' = LoopHead([loop EXCEPT !.tool = NULL, !.ran = Append(@, entry),
                                   !.used = IF output = "error" THEN @ ELSE Append(@, entry)])
  /\ UNCHANGED aborted

(* The tool returns or throws; either is captured and fed back. *)
ToolSettles(output) ==
  LET entry == [tool |-> loop.tool, output |-> output] IN
  /\ loop.pc = "tool"
  /\ loop' = LoopHead([loop EXCEPT !.tool = NULL, !.ran = Append(@, entry), !.used = Append(@, entry)])
  /\ UNCHANGED aborted

FaultyTimerFires ==  \* the budget checked between calls only
  /\ loop.pc = "tool" /\ ~ aborted
  /\ aborted' = TRUE
  /\ UNCHANGED loop

TimerFires ==
  /\ loop.pc \in {"call", "tool"} /\ ~ aborted
  /\ aborted' = TRUE
  /\ UNCHANGED loop

LoopStep ==
  \/ \E text \in Output : ProviderConverges(text)
  \/ \E t \in Tool : ProviderAsksTool(t)
  \/ ProviderBreaksProtocol \/ ProviderFails \/ ProviderAborted
  \/ \E output \in {"result", "error"} : ToolSettles(output)
  \/ TimerFires

LoopTypeOK ==
  /\ loop \in LoopState
  /\ aborted \in BOOLEAN

LoopInit == loop = NoRun /\ aborted = FALSE

============================================================================
