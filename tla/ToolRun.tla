------------------------------- MODULE ToolRun ------------------------------
(***************************************************************************)
(* One run of an agent with the stock tools, seen from the wire: the       *)
(* request each adapter builds from the run's messages, what it makes of   *)
(* the provider's answer, the gate on the arguments, and the tool, whose   *)
(* fetches are those of SafeFetch. RunLoop has the same loop with its      *)
(* limits and its evidence; here the calls keep their names and ids, and   *)
(* every name is this module's own, so that one may extend both.           *)
(***************************************************************************)
EXTENDS SafeFetch, ToolSchema, Calculator

CONSTANTS
  Providers,        \* the kinds of adapter in use
  Blocks,           \* the parts of an answer: texts, calls, anything else
  Arguments,        \* the arguments a model may write
  Expressions,      \* the token sequences a model may write
  Tools,            \* per adapter, its agent's tools: from name to schema and fetches
  MaxRunTurns

ASSUME RunAssumption ==
  /\ Providers \subseteq {"openai", "gemini", "anthropic"} /\ DOMAIN Tools = Providers
  /\ Arguments \subseteq Values /\ Expressions \subseteq Input
  /\ \A p \in Providers : \A name \in DOMAIN Tools[p] :
       Tools[p][name].schema \in {s \in Schemas : s.type = "object" /\ s.closed}
  /\ \A b \in Blocks :
       /\ b.kind \in {"text", "call", "broken", "junk"}
       /\ b.kind = "call" => b = [kind |-> "call", name |-> b.name, id |-> b.id, sig |-> b.sig]
  /\ MaxRunTurns \in Nat

VARIABLES
  provider,         \* the adapter of this run
  messages,         \* the run's normalized messages after the task
  wire,             \* the tool part of the last request, as the provider got it
  issued,           \* the calls the provider made and the run took up
  run               \* where the run is, and the call it is at

runVars == <<provider, messages, wire, issued, run>>
wireVars == <<runVars, fetchVars>>

Idle == [pc |-> "loop", turns |-> 0, call |-> Absent, args |-> Absent, expression |-> <<>>, fetches |-> 0]

TextBlock(empty) == [kind |-> "text", empty |-> empty]
CallBlock(name, id, sig) == [kind |-> "call", name |-> name, id |-> id, sig |-> sig]
BrokenCall == [kind |-> "broken"]       \* a call without a name or with arguments of no use
Junk == [kind |-> "junk"]

(* Back to the head of the loop, or out of it.                              *)
Leave(pc) == run' = [Idle EXCEPT !.pc = pc, !.turns = run.turns]

-----------------------------------------------------------------------------
(* Requests. The openai kinds, compatible endpoints too, pair by id and     *)
(* refuse a history without one; gemini echoes what it was given; anthropic *)
(* gets plain text that names the tool.                                     *)
Unsendable == provider = "openai" /\ \E i \in DOMAIN messages : messages[i].id = Absent

ToChatMessage(m) == IF m.kind = "call" THEN m ELSE [m EXCEPT !.name = Absent]
ToGeminiContents(m) == m
ToTextMessages(m) == [m EXCEPT !.id = Absent, !.sig = Absent]

WireItem(m) ==
  CASE provider = "openai" -> ToChatMessage(m)
    [] provider = "gemini" -> ToGeminiContents(m)
    [] provider = "anthropic" -> ToTextMessages(m)

Complete ==
  /\ run.pc = "loop" /\ run.turns < MaxRunTurns
  /\ IF Unsendable
     THEN Leave("provider-failure") /\ UNCHANGED wire
     ELSE /\ wire' = [i \in DOMAIN messages |-> WireItem(messages[i])]
          /\ run' = [run EXCEPT !.pc = "sent"]
  /\ UNCHANGED <<provider, messages, issued, fetchVars>>

TurnLimit ==
  /\ run.pc = "loop" /\ run.turns = MaxRunTurns
  /\ Leave("turn-limit")
  /\ UNCHANGED <<provider, messages, wire, issued, fetchVars>>

-----------------------------------------------------------------------------
(* Answers. openai has one content beside its calls, and any text in it     *)
(* wins; the others take the first part they can use, an empty text too. A  *)
(* broken call is passed over by anthropic's adapter alone.                 *)
Of(answer, kinds) == {i \in DOMAIN answer : answer[i].kind \in kinds}

FirstOf(answer, at) == IF at = {} THEN Junk ELSE answer[CHOOSE i \in at : \A j \in at : i <= j]

ParseOpenAiResponse(answer) ==
  LET texts == {i \in Of(answer, {"text"}) : ~ answer[i].empty}
  IN  FirstOf(answer, IF texts # {} THEN texts ELSE Of(answer, {"call", "broken"}))

ParseGeminiResponse(answer) == FirstOf(answer, Of(answer, {"text", "call", "broken"}))

ParseAnthropicResponse(answer) == FirstOf(answer, Of(answer, {"text", "call"}))

(* The block the adapter answers with, Junk when there is none.             *)
Chosen(answer) ==
  CASE provider = "openai" -> ParseOpenAiResponse(answer)
    [] provider = "gemini" -> ParseGeminiResponse(answer)
    [] provider = "anthropic" -> ParseAnthropicResponse(answer)

FaultyKeptCall(call) == [call EXCEPT !.id = Absent]      \* the id lost in parsing

KeptCall(call) ==
  CASE provider = "openai" -> [call EXCEPT !.sig = Absent]
    [] provider = "gemini" -> call
    [] provider = "anthropic" -> [call EXCEPT !.id = Absent, !.sig = Absent]

(* The tools the agent's config offers.                                     *)
Offered == Tools[provider]

Admitted(call, args) == call.name \in DOMAIN Offered /\ Validate(args, Offered[call.name].schema)

(* The expression stands for the calculator's one argument.                 *)
Written(name) == IF Offered[name].rule = "calculator" THEN Expressions ELSE {<<>>}

Take(call, args) ==
  /\ issued' = Append(issued, call)
  /\ \E e \in Written(call.name) :
       run' = [run EXCEPT !.pc = "tool", !.turns = @ + 1, !.call = KeptCall(call), !.args = args,
                          !.expression = e]

(* From the answer to the start of the tool there is no await.              *)
Answer(block) ==
  /\ run.pc = "sent"
  /\ CASE block.kind \in {"junk", "broken"} -> Leave("provider-failure") /\ UNCHANGED issued
       [] block.kind = "text" -> Leave("converged") /\ UNCHANGED issued
       [] block.kind = "call" ->
            \E args \in Arguments :
              IF Admitted(block, args) THEN Take(block, args) ELSE Leave("refused") /\ UNCHANGED issued
  /\ UNCHANGED <<provider, messages, wire, fetchVars>>

CompleteFails ==
  /\ run.pc = "sent"
  /\ Leave("provider-failure")
  /\ UNCHANGED <<provider, messages, wire, issued, fetchVars>>

-----------------------------------------------------------------------------
(* Tools.                                                                   *)
ToolInUse == Offered[run.call.name]

(* The result, a value or an error, goes back as a pair of messages.        *)
FeedBack(outcome) ==
  /\ messages' = messages \o
       << [kind |-> "call", name |-> run.call.name, id |-> run.call.id, sig |-> run.call.sig],
          [kind |-> outcome, name |-> run.call.name, id |-> run.call.id, sig |-> run.call.sig] >>
  /\ Leave("loop")

Calculate ==
  /\ run.pc = "tool" /\ ToolInUse.rule = "calculator"
  /\ FeedBack(IF Evaluate(run.expression) = {} THEN "error" ELSE "result")
  /\ UNCHANGED <<provider, wire, issued, fetchVars>>

BeginFetch(o) ==
  /\ StartFetch(o, ToolInUse.headers)
  /\ run' = [run EXCEPT !.pc = "fetch", !.fetches = @ + 1]

(* The storage tools only read the ledger, and throw for what is not there. *)
ReadStorage ==
  /\ run.pc = "tool" /\ ToolInUse.rule = "storage"
  /\ \E outcome \in {"result", "error"} : FeedBack(outcome)
  /\ UNCHANGED <<provider, wire, issued, fetchVars>>

(* What a tool checks beyond its schema may refuse before any fetch.        *)
RunTool ==
  /\ run.pc = "tool" /\ ToolInUse.rule \notin {"calculator", "storage"}
  /\ UNCHANGED <<provider, wire, issued>>
  /\ \/ BeginFetch(ToolInUse.first) /\ UNCHANGED messages
     \/ FeedBack("error") /\ UNCHANGED fetchVars

Succeeded == fetch.pc = "done" /\ fetch.status = 200

(* web_search asks again after a 502, package_info asks the other registry  *)
(* after any failure, and wikipedia_lookup and weather need two answers.    *)
SearchRetries == ToolInUse.rule = "retry" /\ fetch.pc = "done" /\ fetch.status = 502
RegistryFallsBack(usable) == ToolInUse.rule = "fallback" /\ ~ (Succeeded /\ usable)
PlaceWasFound(usable) == ToolInUse.rule = "chain" /\ Succeeded /\ usable

Again(usable) == run.fetches = 1 /\ (SearchRetries \/ RegistryFallsBack(usable) \/ PlaceWasFound(usable))

(* A search that finds nothing is an answer too.                            *)
Outcomes(usable) ==
  CASE Succeeded /\ usable -> {"result"}
    [] Succeeded /\ ~ usable /\ ToolInUse.rule = "chain" -> {"result", "error"}
    [] OTHER -> {"error"}

(* usable: the body parses and holds what the tool looks for.               *)
FetchEnds(usable) ==
  /\ run.pc = "fetch" /\ fetch.pc \in {"done", "failed"}
  /\ UNCHANGED <<provider, wire, issued>>
  /\ IF Again(usable)
     THEN BeginFetch(ToolInUse.second) /\ UNCHANGED messages
     ELSE /\ \E outcome \in Outcomes(usable) : FeedBack(outcome)
          /\ fetch' = NoFetch /\ sent' = NoRequest

Fetch(step) == run.pc = "fetch" /\ step /\ UNCHANGED runVars

Look == \E found \in Found(fetch.at) : Gate(found)

-----------------------------------------------------------------------------
WireInit ==
  /\ provider \in Providers
  /\ messages = <<>> /\ wire = <<>> /\ issued = <<>>
  /\ run = Idle
  /\ fetch = NoFetch /\ sent = NoRequest

Answers == {<<b>> : b \in Blocks} \cup {<<b, c>> : b \in Blocks, c \in Blocks}

WireNext ==
  \/ Complete \/ TurnLimit \/ CompleteFails
  \/ \E block \in {Chosen(a) : a \in Answers} : Answer(block)
  \/ Calculate
  \/ ReadStorage \/ RunTool
  \/ \E usable \in BOOLEAN : FetchEnds(usable)
  \/ Fetch(Look) \/ Fetch(Request) \/ Fetch(Server) \/ Fetch(Breaks)

(* The process runs on and a hop's timer fires; lookups answer. Nothing is  *)
(* assumed of servers.                                                      *)
WireFairness ==
  /\ WF_wireVars(Complete) /\ WF_wireVars(TurnLimit) /\ WF_wireVars(CompleteFails)
  /\ WF_wireVars(RunTool) /\ WF_wireVars(ReadStorage) /\ WF_wireVars(Calculate)
  /\ WF_wireVars(\E usable \in BOOLEAN : FetchEnds(usable))
  /\ WF_wireVars(Fetch(Look)) /\ WF_wireVars(Fetch(Request)) /\ WF_wireVars(Fetch(Breaks))

WireSpec == WireInit /\ [][WireNext]_wireVars /\ WireFairness

-----------------------------------------------------------------------------
Identifying(p) ==
  CASE p = "openai" -> {"id"}
    [] p = "gemini" -> {"name", "id", "sig"}
    [] p = "anthropic" -> {"name"}

(* What a request says of tools is what the provider asked for, in its      *)
(* order: the k-th call and right behind it its result, each with the       *)
(* fields that tell this provider which call it is (run-loop.ts:193-209 and *)
(* the adapters). An id dropped or taken from another call on the way       *)
(* through parsing, the run's history and the next request breaks it.       *)
ResultsArePaired ==
  /\ Len(wire) % 2 = 0
  /\ \A k \in 1 .. Len(wire) \div 2 :
       /\ wire[2 * k - 1].kind = "call" /\ wire[2 * k].kind \in {"result", "error"}
       /\ \A field \in Identifying(provider) :
            /\ wire[2 * k - 1][field] = issued[k][field]
            /\ wire[2 * k][field] = issued[k][field]

(* A tool that runs was offered, and its arguments are what its schema      *)
(* declares, at every depth: the implementations index into them without    *)
(* looking again (run-loop.ts:152-158, validate.ts:24-105). What is not     *)
(* declared, a closed schema lets through only under a name that every      *)
(* object inherits, and only as a plain object (validate.ts:61); and a      *)
(* required argument is there unless it has such a name (validate.ts:52).   *)
ToolsGetWhatTheyDeclare ==
  run.pc \in {"tool", "fetch"} =>
    LET schema == ToolInUse.schema IN
    /\ run.call.name \in DOMAIN Offered
    /\ AsDeclared(run.args, schema) /\ run.args.is = "object"
    /\ schema.required \ Inherited \subseteq DOMAIN run.args.props
    /\ \A k \in DOMAIN run.args.props \ DOMAIN schema.props :
         k \in Inherited /\ run.args.props[k].is = "object"

(* The calculator groups an expression as arithmetic is read: powers first  *)
(* and from the right, a sign over a power, products and sums from the      *)
(* left; and it refuses exactly what is not an expression                   *)
(* (calculator.ts:1-5).                                                     *)
EvaluatesAsRead == Evaluate(run.expression) = Reading(run.expression)

(* Whatever redirects lead to, the caller's headers reach no origin but the *)
(* one it named, back from another origin included, and one call makes at   *)
(* most MaxRedirects + 1 requests (guards.ts:281-288 and 319-330).          *)
FetchKeepsItsScope ==
  /\ sent.headers => sent.to = fetch.home
  /\ sent.count <= MaxRedirects + 1

(* Every run ends, with servers that never answer, redirect in circles,     *)
(* trickle or fail: no tool can hold a run for ever, although nothing       *)
(* aborts one (guards.ts:12-13, run-loop.ts:167).                           *)
EveryRunEnds == <>(run.pc \in {"converged", "refused", "provider-failure", "turn-limit"})
=============================================================================
