----------------------------- MODULE ChatScreen -----------------------------
(***************************************************************************)
(* The chat of the terminal interface with one agent: messages sent and    *)
(* retried, wrapAgent run for each, its attestation, and the transcript.   *)
(* One turn runs at a time: the prompt is out of focus while a turn runs   *)
(* and the terminal is suspended while keys are looked up.  attest is one  *)
(* step here; its races are those of the ledger modules.                   *)
(***************************************************************************)
EXTENDS History, RunLoop

CONSTANTS
  Text,       (* messages a user types                                      *)
  MaxTask,    (* MAX_TASK_LENGTH                                            *)
  MaxOutput,  (* MAX_OUTPUT_LENGTH                                          *)
  MaxTurns    (* bound on the turns a behaviour begins                      *)

VARIABLES
  entries,    (* chatByAgent of the agent: the transcript on screen         *)
  prompt,     (* keyPrompt: the message parked until a provider key is given *)
  keyed,      (* a provider key is known to the session                     *)
  error,      (* the error line                                             *)
  turn,       (* the turn that runs: its task and the history it was given  *)
  ledger,     (* the agent's attestations                                   *)
  begun       (* turns begun                                                *)

screen == <<entries, prompt, keyed>>
vars == <<screen, error, turn, ledger, begun, loop, aborted>>

ASSUME ChatAssumption ==
  /\ Text \subseteq Content /\ Output \subseteq Content /\ NULL \notin Content
  /\ \A t \in Text : SizeOf[t] > 0
  /\ {MaxTask, MaxOutput, MaxTurns} \subseteq Nat

(* An attestation's uuid is named by the turn that wrote it. *)
Entry == [role : {"user", "assistant"}, content : Content, attestation : 0..MaxTurns]

Row == [id : 1..MaxTurns, key : Text, task : Text, output : Output, tools : Seq(Captured)]

NoTurn == [task |-> NULL, history |-> << >>, context |-> << >>]

FaultyIdleTurnKey(text) == CHOOSE t \in Text : TRUE  \* one key per agent

(* A digest of the agent and the text: the same text has the same key. *)
IdleTurnKey(text) == text

UserEntry(text) == [role |-> "user", content |-> text, attestation |-> 0]

AssistantEntry(text, row) == [role |-> "assistant", content |-> text, attestation |-> row.id]

Busy == loop.pc # "idle"

Transcript(es) == [i \in DOMAIN es |-> [role |-> es[i].role, content |-> es[i].content]]

----------------------------------------------------------------------------
Fail(code) == error' = code /\ UNCHANGED <<loop, aborted, turn>>

(* wrapAgent's checks, in order, up to the loop. *)
Wrap(text, seen) ==
  LET h == HistoryForTurn(Transcript(seen), text) IN
  IF SizeOf[text] > MaxTask THEN Fail("INPUT_TOO_LARGE")
  ELSE IF ~ ValidHistory(h) THEN Fail("INVALID_INPUT")
  ELSE /\ StartLoop
       /\ turn' = [task |-> text, history |-> h, context |-> Normalized(h)]
       /\ error' = NULL

(* The identity key, then the run. *)
Proceed(text, seen) == Fail("KEYCHAIN_UNAVAILABLE") \/ Wrap(text, seen)

(* runChatTurn: without a provider key the message is parked.  seen is the  *)
(* transcript of the render that handled the key press.                     *)
RunChatTurn(text, seen) ==
  /\ ~ Busy /\ begun < MaxTurns
  /\ begun' = begun + 1
  /\ \/ keyed' = TRUE /\ Proceed(text, seen) /\ UNCHANGED prompt
     \/ ~ keyed /\ prompt' = text /\ Fail(NULL) /\ UNCHANGED keyed
     \/ ~ keyed /\ Fail("KEYCHAIN_UNAVAILABLE") /\ UNCHANGED <<prompt, keyed>>
  /\ UNCHANGED ledger

(* The entry is pushed first, but that render does not show it yet. *)
HandleSend(text) ==
  /\ prompt = NULL
  /\ entries' = Append(entries, UserEntry(text))
  /\ RunChatTurn(text, entries)

LastUserIs(es, text) ==
  \E i \in DOMAIN es :
    /\ es[i].role = "user" /\ es[i].content = text
    /\ \A j \in DOMAIN es : es[j].role = "user" => j <= i

HandleRetry ==
  /\ prompt = NULL
  /\ \E text \in Text : LastUserIs(entries, text) /\ RunChatTurn(text, entries)
  /\ UNCHANGED entries

(* The key is stored, and the parked turn resumes; or the store refuses it. *)
HandleKeySubmit ==
  /\ prompt # NULL
  /\ \/ keyed' = TRUE /\ prompt' = NULL /\ Proceed(prompt, entries)
     \/ Fail("KEYCHAIN_UNAVAILABLE") /\ UNCHANGED <<prompt, keyed>>
  /\ UNCHANGED <<entries, ledger, begun>>

HandleKeyCancel ==
  /\ prompt # NULL
  /\ prompt' = NULL
  /\ Fail(NULL)
  /\ UNCHANGED <<entries, keyed, ledger, begun>>

----------------------------------------------------------------------------
Run ==
  /\ LoopStep
  /\ UNCHANGED <<screen, error, turn, ledger, begun>>

(* The finally block: not busy any more. *)
Settle(code) ==
  /\ error' = code
  /\ loop' = NoRun /\ aborted' = FALSE /\ turn' = NoTurn
  /\ UNCHANGED <<prompt, keyed, begun>>

RunFailed ==
  /\ loop.pc = "done" /\ loop.outcome # "converged"
  /\ Settle(loop.outcome)
  /\ UNCHANGED <<entries, ledger>>

NewRow == [id |-> begun, key |-> IdleTurnKey(turn.task), task |-> turn.task, output |-> loop.output,
           tools |-> loop.used]

Reply(row) ==
  /\ entries' = Append(entries, AssistantEntry(loop.output, row))
  /\ Settle(NULL)

(* attest under the turn's key: an attestation that has the key is the      *)
(* answer, otherwise one is written.  Any gate or the store may refuse.     *)
Attest ==
  LET existing == {r \in ledger : r.key = IdleTurnKey(turn.task)} IN
  /\ loop.pc = "done" /\ loop.outcome = "converged"
  /\ IF SizeOf[loop.output] > MaxOutput
       THEN Settle("INPUT_TOO_LARGE") /\ UNCHANGED <<entries, ledger>>
       ELSE \/ \E row \in existing : Reply(row) /\ UNCHANGED ledger
            \/ existing = {} /\ ledger' = ledger \cup {NewRow} /\ Reply(NewRow)
            \/ existing = {} /\ ledger' = ledger \cup {NewRow}
                 /\ Settle("STORAGE_WRITE_FAILED") /\ UNCHANGED entries
            \/ Settle("ATTEST_REFUSED") /\ UNCHANGED <<entries, ledger>>

(* The terminal is closed, mid turn or not, and opened again. *)
Restart ==
  /\ entries' = << >> /\ prompt' = NULL /\ keyed' \in BOOLEAN
  /\ loop' = NoRun /\ aborted' = FALSE /\ turn' = NoTurn /\ error' = NULL
  /\ UNCHANGED <<ledger, begun>>

----------------------------------------------------------------------------
Init ==
  /\ entries = << >> /\ prompt = NULL /\ keyed \in BOOLEAN /\ error = NULL
  /\ turn = NoTurn /\ ledger = {} /\ begun = 0
  /\ LoopInit

Next ==
  \/ \E text \in Text : HandleSend(text)
  \/ HandleRetry \/ HandleKeySubmit \/ HandleKeyCancel
  \/ Run \/ RunFailed \/ Attest
  \/ Restart

Spec == Init /\ [][Next]_vars

(* Only what the code itself makes happen: the timer fires, an aborted call *)
(* rejects, a tool's own limits settle it and continuations run.  No        *)
(* provider call is assumed to answer.                                      *)
FairSpec ==
  /\ Spec
  /\ WF_vars(Run /\ (TimerFires \/ ProviderAborted \/ ToolSettles("error")))
  /\ WF_vars(RunFailed \/ Attest)

----------------------------------------------------------------------------
TypeOK ==
  /\ entries \in Seq(Entry)
  /\ prompt \in Text \cup {NULL}
  /\ keyed \in BOOLEAN
  /\ ledger \subseteq Row
  /\ begun \in 0..MaxTurns
  /\ LoopTypeOK

(* What reaches the model obeys every bound, and the newest turn handed     *)
(* over is never the one dropped (normalizeHistory; run-loop.ts:33-37).     *)
ContextWithinBounds ==
  Busy =>
    /\ Len(turn.context) <= TurnCap
    /\ SizeOfAll(turn.context) <= CharBudget
    /\ ValidHistory(turn.context)
    /\ turn.history # << >> => turn.context # << >> /\ Last(turn.context) = Last(turn.history)

(* A reply shows an attestation of the message it answers, through retries, *)
(* lost responses and restarts (idleTurnKey and attest's key lookup).       *)
RepliesAttestTheirMessage ==
  \A i \in DOMAIN entries : entries[i].role = "assistant" =>
    \E r \in ledger : r.id = entries[i].attestation /\ LastUserIs(SubSeq(entries, 1, i), r.task)

(* What is signed is what one run really did: its task, its answer and      *)
(* every tool it ran, those that threw included (the run loop's capture,    *)
(* and attest called on convergence only).                                  *)
EvidenceIsWork ==
  [][\A r \in ledger' \ ledger :
       /\ loop.outcome = "converged"
       /\ <<r.task, r.output, r.tools>> = <<turn.task, loop.output, loop.ran>>]_vars

(* A turn always gives the prompt back, even if the provider never answers  *)
(* (MAX_RUN_MS and the abort signal).                                       *)
EveryTurnEnds == Busy ~> ~ Busy

============================================================================
