-------------------------- MODULE ChatScreenProofs --------------------------
(***************************************************************************)
(* What ChatScreen keeps for every set of texts, outputs and tools, every  *)
(* limit and any number of turns; and, from the section on the wire on,    *)
(* what ToolRun keeps for any models, servers, schemas and expressions.    *)
(***************************************************************************)
EXTENDS ChatScreen, ToolRun, FiniteSetTheorems, SequenceTheorems, WellFoundedInduction, TLAPS

(* The run that is under way: what its place in the loop implies, and that  *)
(* what it will have signed is what ran.                                    *)
LoopInv ==
  /\ loop.pc = "call" => loop.calls < MaxCalls
  /\ loop.pc = "tool" => loop.tool \in Tool
  /\ loop.outcome = "converged" => loop.output \in Output
  /\ loop.used = loop.ran

(* A turn that runs, or waits for a key, answers the last message shown.    *)
TurnInv ==
  /\ Busy => turn.task \in Text /\ begun >= 1 /\ LastUserIs(entries, turn.task)
  /\ prompt # NULL => begun >= 1 /\ LastUserIs(entries, prompt)

KeyInv == \A r \in ledger : r.key = r.task

IInv == TypeOK /\ LoopInv /\ TurnInv /\ KeyInv /\ RepliesAttestTheirMessage

----------------------------------------------------------------------------
(* The loop on its own. *)

LEMMA NoRunIsState == NoRun \in LoopState
  BY LoopAssumption DEF NoRun, LoopState

LEMMA EndIsState ==
  ASSUME NEW l \in LoopState, NEW code \in Failed \cup {"converged"}
  PROVE  /\ End(l, code) \in LoopState
         /\ End(l, code) = [l EXCEPT !.pc = "done", !.outcome = code]
  BY DEF End, LoopState

LEMMA AnsweredIsState ==
  ASSUME loop \in LoopState, loop.pc = "call", LoopInv
  PROVE  /\ Answered \in LoopState
         /\ Answered.pc = "call" /\ Answered.outcome = loop.outcome
         /\ Answered.output = loop.output /\ Answered.used = Answered.ran
<1>1. loop.calls \in 0..MaxCalls
  BY DEF LoopState
<1>2. loop.calls + 1 \in 0..MaxCalls
  BY <1>1, LoopAssumption DEF LoopInv
<1> DEFINE n == loop.calls + 1
<1>3. n \in 0..MaxCalls /\ Answered = [loop EXCEPT !.calls = n]
  BY <1>2 DEF Answered, LoopState
<1> HIDE DEF n
<1> QED
  BY <1>3 DEF LoopState, LoopInv

LEMMA HeadOK ==
  ASSUME NEW l \in LoopState, l.pc = "tool", l.used = l.ran,
         l.outcome = "converged" => l.output \in Output
  PROVE  /\ LoopHead(l) \in LoopState
         /\ LoopHead(l).pc \in {"call", "done"}
         /\ LoopHead(l).pc = "call" => LoopHead(l).calls < MaxCalls
         /\ LoopHead(l).outcome = "converged" => LoopHead(l).output \in Output
         /\ LoopHead(l).used = LoopHead(l).ran
<1>1. CASE l.calls = MaxCalls
  BY <1>1 DEF LoopHead, End, LoopState, Failed
<1>2. CASE l.calls # MaxCalls /\ aborted
  BY <1>2 DEF LoopHead, End, LoopState, Failed
<1>3. CASE l.calls # MaxCalls /\ ~ aborted
  <2>1. l.calls \in 0..MaxCalls
    BY DEF LoopState
  <2>2. l.calls < MaxCalls
    BY <1>3, <2>1, LoopAssumption
  <2>3. LoopHead(l) = [l EXCEPT !.pc = "call"]
    BY <1>3 DEF LoopHead
  <2> QED
    BY <2>2, <2>3 DEF LoopState
<1> QED
  BY <1>1, <1>2, <1>3

LEMMA LoopIs ==
  ASSUME NEW l \in LoopState, loop' = l, aborted' \in BOOLEAN, l.pc # "idle",
         l.pc = "call" => l.calls < MaxCalls,
         l.pc = "tool" => l.tool \in Tool,
         l.outcome = "converged" => l.output \in Output,
         l.used = l.ran
  PROVE  LoopTypeOK' /\ LoopInv' /\ Busy'
  BY DEF LoopTypeOK, LoopInv, Busy

(* A step of the run keeps its type and its invariant, and stays busy. *)
LEMMA LoopStepOK ==
  ASSUME LoopTypeOK, LoopInv, LoopStep
  PROVE  LoopTypeOK' /\ LoopInv' /\ Busy'
<1>a. loop \in LoopState /\ aborted \in BOOLEAN
  BY DEF LoopTypeOK
<1>b. ASSUME loop.pc = "call", NEW code \in Failed, NEW l \in {loop, Answered},
             loop' = End(l, code), UNCHANGED aborted
      PROVE  LoopTypeOK' /\ LoopInv' /\ Busy'
  <2>1. l \in LoopState /\ l.used = l.ran
    BY <1>a, <1>b, AnsweredIsState DEF LoopInv
  <2> DEFINE m == [l EXCEPT !.pc = "done", !.outcome = code]
  <2>2. m = End(l, code) /\ m \in LoopState
    BY <2>1, EndIsState
  <2>3. m.pc = "done" /\ m.outcome # "converged" /\ m.used = m.ran
    BY <2>1 DEF LoopState, Failed
  <2> HIDE DEF m
  <2> QED
    BY <1>a, <1>b, <2>2, <2>3, LoopIs
<1>1. ASSUME NEW text \in Output, ProviderConverges(text)
      PROVE  LoopTypeOK' /\ LoopInv' /\ Busy'
  <2>1. Answered \in LoopState /\ Answered.used = Answered.ran
    BY <1>a, <1>1, AnsweredIsState DEF ProviderConverges
  <2> DEFINE m == [Answered EXCEPT !.pc = "done", !.outcome = "converged"]
             l == [m EXCEPT !.output = text]
  <2>2. m = End(Answered, "converged") /\ m \in LoopState
    BY <2>1, EndIsState
  <2>3. m.pc = "done" /\ m.used = m.ran
    BY <2>1 DEF LoopState
  <2> HIDE DEF m
  <2>4. l \in LoopState /\ l.pc = "done" /\ l.output = text /\ l.used = l.ran
    BY <2>2, <2>3 DEF LoopState
  <2>5. loop' = l /\ aborted' = aborted
    BY <1>1, <2>2 DEF ProviderConverges
  <2> HIDE DEF l
  <2> QED
    BY <1>a, <2>4, <2>5, LoopIs
<1>2. ASSUME NEW t \in Tool, ProviderAsksTool(t)
      PROVE  LoopTypeOK' /\ LoopInv' /\ Busy'
  <2> DEFINE l == [Answered EXCEPT !.pc = "tool", !.tool = t]
  <2>1. /\ Answered \in LoopState /\ Answered.used = Answered.ran
        /\ Answered.outcome = loop.outcome /\ Answered.output = loop.output
    BY <1>a, <1>2, AnsweredIsState DEF ProviderAsksTool
  <2>2. /\ l \in LoopState /\ l.pc = "tool" /\ l.tool = t /\ l.used = l.ran
        /\ l.outcome = loop.outcome /\ l.output = loop.output
    BY <2>1 DEF LoopState
  <2>3. loop' = l /\ aborted' = aborted
    BY <1>2 DEF ProviderAsksTool
  <2> HIDE DEF l
  <2> QED
    BY <1>a, <2>2, <2>3, LoopIs DEF LoopInv
<1>3. CASE ProviderBreaksProtocol
  BY <1>b, <1>3 DEF ProviderBreaksProtocol, Failed
<1>4. CASE ProviderFails
  BY <1>b, <1>4 DEF ProviderFails, Failed
<1>5. CASE ProviderAborted
  BY <1>b, <1>5 DEF ProviderAborted, Failed
<1>6. ASSUME NEW output \in {"result", "error"}, ToolSettles(output)
      PROVE  LoopTypeOK' /\ LoopInv' /\ Busy'
  <2> DEFINE entry == [tool |-> loop.tool, output |-> output]
             used == Append(loop.used, entry)
             l == [loop EXCEPT !.tool = NULL, !.ran = used, !.used = used]
  <2>1. loop.pc = "tool" /\ loop.tool \in Tool /\ loop.used \in Seq(Captured) /\ loop.used = loop.ran
    BY <1>a, <1>6 DEF ToolSettles, LoopInv, LoopState
  <2>2. entry \in Captured
    BY <2>1 DEF Captured
  <2>3. used \in Seq(Captured)
    BY <2>1, <2>2
  <2>4. loop' = LoopHead(l) /\ aborted' = aborted
    BY <1>6, <2>1 DEF ToolSettles
  <2> HIDE DEF used
  <2>5. l \in LoopState /\ l.pc = "tool" /\ l.used = l.ran
        /\ l.outcome = loop.outcome /\ l.output = loop.output
    BY <1>a, <2>1, <2>3 DEF LoopState
  <2> HIDE DEF l
  <2>6. l.outcome = "converged" => l.output \in Output
    BY <2>5 DEF LoopInv
  <2> DEFINE h == LoopHead(l)
  <2>7. /\ h \in LoopState /\ h.pc \in {"call", "done"} /\ h.used = h.ran
        /\ h.pc = "call" => h.calls < MaxCalls
        /\ h.outcome = "converged" => h.output \in Output
    BY <2>5, <2>6, HeadOK
  <2> HIDE DEF h
  <2> QED
    BY <1>a, <2>4, <2>7, LoopIs DEF h
<1>7. CASE TimerFires
  BY <1>a, <1>7 DEF TimerFires, LoopTypeOK, LoopInv, Busy
<1> QED
  BY <1>1, <1>2, <1>3, <1>4, <1>5, <1>6, <1>7 DEF LoopStep

LEMMA StartLoopOK == StartLoop => LoopTypeOK' /\ LoopInv' /\ Busy'
<1> DEFINE l == [NoRun EXCEPT !.pc = "call"]
<1>1. /\ l \in LoopState /\ l.pc = "call" /\ l.used = l.ran
      /\ l.outcome = "none" /\ l.calls = 0
  BY NoRunIsState DEF LoopState, NoRun
<1>2. l.calls < MaxCalls
  BY <1>1, LoopAssumption
<1> HIDE DEF l
<1> QED
  BY <1>1, <1>2, LoopIs DEF StartLoop, l

LEMMA NoRunOK ==
  /\ loop = NoRun /\ aborted = FALSE => LoopTypeOK /\ LoopInv /\ ~ Busy
  /\ loop' = NoRun /\ aborted' = FALSE => LoopTypeOK' /\ LoopInv' /\ ~ Busy'
<1>1. /\ NoRun.pc = "idle" /\ NoRun.outcome = "none"
      /\ NoRun.used = NoRun.ran
  BY DEF NoRun
<1> QED
  BY <1>1, NoRunIsState DEF LoopTypeOK, LoopInv, Busy

----------------------------------------------------------------------------
(* The transcript. *)

(* The message just pushed is the last one. *)
LEMMA PushedIsLast ==
  ASSUME NEW es \in Seq(Entry), NEW text \in Text
  PROVE  LastUserIs(Append(es, UserEntry(text)), text)
<1> DEFINE fs == Append(es, UserEntry(text))
<1>1. /\ Len(es) + 1 \in DOMAIN fs
      /\ fs[Len(es) + 1].role = "user" /\ fs[Len(es) + 1].content = text
      /\ \A j \in DOMAIN fs : j <= Len(es) + 1
  BY DEF UserEntry
<1> QED
  BY <1>1 DEF LastUserIs

(* A reply does not change which message is the last. *)
LEMMA ReplyKeepsLast ==
  ASSUME NEW es \in Seq(Entry), NEW e \in Entry, e.role = "assistant", NEW text, LastUserIs(es, text)
  PROVE  LastUserIs(Append(es, e), text)
<1> DEFINE fs == Append(es, e)
<1>1. PICK i \in DOMAIN es : /\ es[i].role = "user" /\ es[i].content = text
                             /\ \A j \in DOMAIN es : es[j].role = "user" => j <= i
  BY DEF LastUserIs
<1>2. i \in DOMAIN fs /\ fs[i] = es[i]
  OBVIOUS
<1>3. ASSUME NEW j \in DOMAIN fs, fs[j].role = "user"
      PROVE  j <= i
  <2>1. j # Len(es) + 1
    BY <1>3
  <2>2. j \in DOMAIN es /\ fs[j] = es[j]
    BY <2>1
  <2> QED
    BY <1>1, <1>3, <2>2
<1> QED
  BY <1>1, <1>2, <1>3 DEF LastUserIs

LEMMA PrefixKept ==
  ASSUME NEW es \in Seq(Entry), NEW e \in Entry, NEW i \in DOMAIN es
  PROVE  SubSeq(Append(es, e), 1, i) = SubSeq(es, 1, i)
  OBVIOUS

LEMMA WholePrefix ==
  ASSUME NEW es \in Seq(Entry), NEW e \in Entry
  PROVE  SubSeq(Append(es, e), 1, Len(es) + 1) = Append(es, e)
  OBVIOUS

(* Replies already shown stay right when an entry is pushed and the ledger  *)
(* grows.                                                                   *)
LEMMA OldRepliesKept ==
  ASSUME RepliesAttestTheirMessage, entries \in Seq(Entry), ledger \subseteq ledger',
         NEW e \in Entry, entries' = Append(entries, e),
         NEW i \in DOMAIN entries, entries[i].role = "assistant"
  PROVE  \E r \in ledger' : r.id = entries'[i].attestation /\ LastUserIs(SubSeq(entries', 1, i), r.task)
<1>1. SubSeq(entries', 1, i) = SubSeq(entries, 1, i)
  BY PrefixKept
<1>2. entries'[i] = entries[i]
  OBVIOUS
<1> QED
  BY <1>1, <1>2 DEF RepliesAttestTheirMessage

----------------------------------------------------------------------------
LEMMA InitIInv == Init => IInv
<1> USE ChatAssumption DEF Init
<1>1. Init => TypeOK /\ LoopInv
  BY NoRunOK DEF TypeOK, LoopInit
<1>2. Init => ~ Busy
  BY NoRunOK DEF LoopInit
<1>3. Init => TurnInv /\ KeyInv /\ RepliesAttestTheirMessage
  BY <1>2 DEF TurnInv, KeyInv, RepliesAttestTheirMessage
<1> QED
  BY <1>1, <1>3 DEF IInv

(* Starting a turn for a message that is the last one shown. *)
LEMMA ProceedOK ==
  ASSUME NEW text \in Text, NEW seen, LoopTypeOK, LoopInv, Proceed(text, seen)
  PROVE  /\ LoopTypeOK' /\ LoopInv'
         /\ \/ Busy' /\ turn'.task = text
            \/ Busy' = Busy /\ turn' = turn
<1>1. CASE StartLoop /\ turn'.task = text
  BY <1>1, StartLoopOK
<1>2. CASE UNCHANGED <<loop, aborted, turn>>
  BY <1>2 DEF LoopTypeOK, LoopInv, Busy
<1> QED
  BY <1>1, <1>2 DEF Proceed, Wrap, Fail

LEMMA BeginOK ==
  ASSUME TypeOK, LoopInv, prompt = NULL, NEW text \in Text, NEW seen,
         RunChatTurn(text, seen), LastUserIs(entries', text)
  PROVE  /\ prompt' \in Text \cup {NULL} /\ keyed' \in BOOLEAN /\ begun' \in 0..MaxTurns
         /\ ledger' = ledger
         /\ LoopTypeOK' /\ LoopInv' /\ TurnInv'
<1>1. ~ Busy /\ begun \in 0..MaxTurns /\ begun < MaxTurns /\ begun' = begun + 1 /\ ledger' = ledger
  BY DEF RunChatTurn, TypeOK
<1>2. begun' \in 0..MaxTurns /\ begun' >= 1
  BY <1>1, ChatAssumption
<1>3. CASE keyed' = TRUE /\ Proceed(text, seen) /\ UNCHANGED prompt
  <2>1. LoopTypeOK' /\ LoopInv' /\ (Busy' => turn'.task = text)
    BY <1>1, <1>3, ProceedOK DEF TypeOK
  <2> QED
    BY <1>1, <1>2, <1>3, <2>1 DEF TurnInv
<1>4. CASE UNCHANGED <<loop, aborted>> /\ keyed' = keyed /\ prompt' \in {prompt, text}
  <2>1. LoopTypeOK' /\ LoopInv' /\ ~ Busy'
    BY <1>1, <1>4 DEF TypeOK, LoopTypeOK, LoopInv, Busy
  <2> QED
    BY <1>1, <1>2, <1>4, <2>1 DEF TurnInv, TypeOK
<1> QED
  BY <1>3, <1>4 DEF RunChatTurn, Fail

LEMMA PushKeepsReplies ==
  ASSUME RepliesAttestTheirMessage, entries \in Seq(Entry), NEW text \in Text,
         entries' = Append(entries, UserEntry(text)), ledger' = ledger
  PROVE  entries' \in Seq(Entry) /\ RepliesAttestTheirMessage'
<1>1. UserEntry(text) \in Entry
  BY ChatAssumption DEF UserEntry, Entry
<1>2. ASSUME NEW i \in DOMAIN entries', entries'[i].role = "assistant"
      PROVE  i \in DOMAIN entries /\ entries[i].role = "assistant"
  BY <1>2 DEF UserEntry
<1>3. ASSUME NEW i \in DOMAIN entries', entries'[i].role = "assistant"
      PROVE  \E r \in ledger' : r.id = entries'[i].attestation /\ LastUserIs(SubSeq(entries', 1, i), r.task)
  BY <1>1, <1>2, <1>3, OldRepliesKept
<1> QED
  BY <1>1, <1>3 DEF RepliesAttestTheirMessage

(* A reply shown with an attestation of the message it answers. *)
LEMMA ReplyOK ==
  ASSUME IInv, Busy, loop.outcome = "converged", ledger' \subseteq Row, ledger \subseteq ledger',
         NEW row \in ledger', row.task = turn.task, Reply(row)
  PROVE  /\ TypeOK' /\ LoopInv' /\ TurnInv' /\ RepliesAttestTheirMessage'
<1> DEFINE e == AssistantEntry(loop.output, row)
<1>1. row \in Row /\ loop.output \in Output /\ entries \in Seq(Entry)
  BY DEF IInv, LoopInv, TypeOK
<1>2. row.id \in 0..MaxTurns
  BY <1>1, ChatAssumption DEF Row
<1>3. e \in Entry /\ e.role = "assistant" /\ e.attestation = row.id
  BY <1>1, <1>2, ChatAssumption DEF AssistantEntry, Entry
<1>4. entries' = Append(entries, e)
  BY DEF Reply
<1> HIDE DEF e
<1>5. LastUserIs(entries, turn.task) /\ (prompt # NULL => begun >= 1 /\ LastUserIs(entries, prompt))
  BY DEF IInv, TurnInv
<1>6. LastUserIs(entries', turn.task) /\ (prompt # NULL => LastUserIs(entries', prompt))
  BY <1>1, <1>3, <1>4, <1>5, ReplyKeepsLast
<1>7. LoopTypeOK' /\ LoopInv' /\ ~ Busy' /\ UNCHANGED <<prompt, keyed, begun>>
  BY NoRunOK DEF Reply, Settle
<1>8. TypeOK' /\ TurnInv'
  BY <1>1, <1>3, <1>4, <1>5, <1>6, <1>7 DEF IInv, TypeOK, TurnInv
<1>9. ASSUME NEW i \in DOMAIN entries', entries'[i].role = "assistant"
      PROVE  \E r \in ledger' : r.id = entries'[i].attestation /\ LastUserIs(SubSeq(entries', 1, i), r.task)
  <2>1. CASE i \in DOMAIN entries
    BY <1>1, <1>3, <1>4, <1>9, <2>1, OldRepliesKept DEF IInv
  <2>2. CASE i = Len(entries) + 1
    <3>1. SubSeq(entries', 1, i) = entries' /\ entries'[i] = e
      BY <1>1, <1>3, <1>4, <2>2, WholePrefix
    <3> QED
      BY <1>3, <1>6, <3>1
  <2> QED
    BY <1>1, <1>4, <2>1, <2>2
<1> QED
  BY <1>7, <1>8, <1>9 DEF RepliesAttestTheirMessage

(* Leaving the transcript and the ledger as they are. *)
LEMMA SameScreen ==
  ASSUME IInv, UNCHANGED <<entries, ledger>>
  PROVE  KeyInv' /\ RepliesAttestTheirMessage' /\ entries' \in Seq(Entry) /\ ledger' \subseteq Row
  BY DEF IInv, TypeOK, KeyInv, RepliesAttestTheirMessage

----------------------------------------------------------------------------
LEMMA SettleOK ==
  ASSUME IInv, NEW code, Settle(code), entries' = entries, ledger' \subseteq Row
  PROVE  TypeOK' /\ LoopInv' /\ TurnInv'
<1>1. LoopTypeOK' /\ LoopInv' /\ ~ Busy' /\ UNCHANGED <<prompt, keyed, begun>>
  BY NoRunOK DEF Settle
<1> QED
  BY <1>1 DEF IInv, TypeOK, TurnInv

(* The row a turn writes is a row, under the key of its task. *)
LEMMA NewRowOK ==
  ASSUME IInv, Busy, loop.outcome = "converged"
  PROVE  NewRow \in Row /\ NewRow.key = NewRow.task /\ NewRow.task = turn.task
<1>1. begun \in 1..MaxTurns
  BY ChatAssumption DEF IInv, TypeOK, TurnInv
<1>2. turn.task \in Text /\ loop.output \in Output /\ loop.used \in Seq(Captured)
  BY DEF IInv, TypeOK, LoopTypeOK, LoopState, TurnInv, LoopInv
<1> QED
  BY <1>1, <1>2 DEF NewRow, Row, IdleTurnKey

LEMMA AttestOK == IInv /\ Attest => IInv'
<1> SUFFICES ASSUME IInv, Attest PROVE IInv'
  OBVIOUS
<1> DEFINE existing == {r \in ledger : r.key = IdleTurnKey(turn.task)}
<1>1. Busy /\ loop.outcome = "converged"
  BY DEF Attest, Busy
<1>2. ledger \subseteq Row /\ KeyInv /\ RepliesAttestTheirMessage /\ entries \in Seq(Entry)
  BY DEF IInv, TypeOK
<1>3. NewRow \in Row /\ NewRow.key = NewRow.task /\ NewRow.task = turn.task
  BY <1>1, NewRowOK
<1>4. ASSUME NEW code, Settle(code), UNCHANGED <<entries, ledger>>
      PROVE  IInv'
  BY <1>2, <1>4, SettleOK, SameScreen DEF IInv
<1>5. ASSUME NEW row \in existing, Reply(row), UNCHANGED ledger
      PROVE  IInv'
  <2>1. row \in ledger /\ row.task = turn.task
    BY <1>2, <1>5 DEF KeyInv, IdleTurnKey
  <2>2. TypeOK' /\ LoopInv' /\ TurnInv' /\ RepliesAttestTheirMessage'
    BY <1>1, <1>2, <1>5, <2>1, ReplyOK
  <2> QED
    BY <1>2, <1>5, <2>2 DEF IInv, KeyInv
<1>6. ASSUME ledger' = ledger \cup {NewRow}
      PROVE  ledger' \subseteq Row /\ ledger \subseteq ledger' /\ KeyInv'
  BY <1>2, <1>3, <1>6 DEF KeyInv
<1>7. CASE ledger' = ledger \cup {NewRow} /\ Reply(NewRow)
  <2>1. NewRow \in ledger'
    BY <1>7
  <2>2. TypeOK' /\ LoopInv' /\ TurnInv' /\ RepliesAttestTheirMessage'
    BY <1>1, <1>3, <1>6, <1>7, <2>1, ReplyOK
  <2> QED
    BY <1>6, <1>7, <2>2 DEF IInv
<1>8. CASE ledger' = ledger \cup {NewRow} /\ Settle("STORAGE_WRITE_FAILED") /\ UNCHANGED entries
  <2>1. RepliesAttestTheirMessage'
    BY <1>2, <1>6, <1>8 DEF RepliesAttestTheirMessage
  <2> QED
    BY <1>6, <1>8, <2>1, SettleOK DEF IInv
<1> QED
  BY <1>4, <1>5, <1>7, <1>8 DEF Attest

LEMMA NextIInv == IInv /\ [Next]_vars => IInv'
<1> SUFFICES ASSUME IInv, [Next]_vars PROVE IInv'
  OBVIOUS
<1>a. TypeOK /\ LoopInv /\ TurnInv /\ KeyInv /\ RepliesAttestTheirMessage /\ LoopTypeOK
  BY DEF IInv, TypeOK
<1>1. ASSUME NEW text \in Text, HandleSend(text)
      PROVE  IInv'
  <2>1. entries \in Seq(Entry) /\ entries' = Append(entries, UserEntry(text)) /\ prompt = NULL
    BY <1>a, <1>1 DEF HandleSend, TypeOK
  <2>2. LastUserIs(entries', text)
    BY <2>1, PushedIsLast
  <2>3. /\ prompt' \in Text \cup {NULL} /\ keyed' \in BOOLEAN /\ begun' \in 0..MaxTurns
        /\ ledger' = ledger /\ LoopTypeOK' /\ LoopInv' /\ TurnInv'
    BY <1>a, <1>1, <2>1, <2>2, BeginOK DEF HandleSend
  <2>4. entries' \in Seq(Entry) /\ RepliesAttestTheirMessage'
    BY <1>a, <2>1, <2>3, PushKeepsReplies
  <2> QED
    BY <1>a, <2>3, <2>4 DEF IInv, TypeOK, KeyInv
<1>2. CASE HandleRetry
  <2>1. PICK text \in Text : LastUserIs(entries, text) /\ RunChatTurn(text, entries)
    BY <1>2 DEF HandleRetry
  <2>2. entries' = entries /\ prompt = NULL
    BY <1>2 DEF HandleRetry
  <2>3. /\ prompt' \in Text \cup {NULL} /\ keyed' \in BOOLEAN /\ begun' \in 0..MaxTurns
        /\ ledger' = ledger /\ LoopTypeOK' /\ LoopInv' /\ TurnInv'
    BY <1>a, <2>1, <2>2, BeginOK
  <2> QED
    BY <2>2, <2>3, SameScreen DEF IInv, TypeOK
<1>3. CASE HandleKeySubmit
  <2>1. prompt \in Text /\ begun >= 1 /\ LastUserIs(entries, prompt)
    BY <1>3, <1>a DEF HandleKeySubmit, TypeOK, TurnInv
  <2>2. UNCHANGED <<entries, ledger, begun>>
    BY <1>3 DEF HandleKeySubmit
  <2>3. CASE keyed' = TRUE /\ prompt' = NULL /\ Proceed(prompt, entries)
    <3>1. /\ LoopTypeOK' /\ LoopInv'
          /\ (Busy' /\ turn'.task = prompt) \/ (Busy' = Busy /\ turn' = turn)
      BY <1>a, <2>1, <2>3, ProceedOK
    <3>2. TurnInv'
      BY <1>a, <2>1, <2>2, <2>3, <3>1 DEF TurnInv
    <3> QED
      BY <1>a, <2>2, <2>3, <3>1, <3>2, SameScreen DEF IInv, TypeOK
  <2>4. CASE UNCHANGED <<loop, aborted, turn, prompt, keyed>>
    BY <1>a, <2>2, <2>4, SameScreen DEF IInv, TypeOK, TurnInv, LoopInv, LoopTypeOK, Busy
  <2> QED
    BY <1>3, <2>3, <2>4 DEF HandleKeySubmit, Fail
<1>4. CASE HandleKeyCancel
  <2>1. UNCHANGED <<loop, aborted, turn, entries, keyed, ledger, begun>> /\ prompt' = NULL
    BY <1>4 DEF HandleKeyCancel, Fail
  <2> QED
    BY <1>a, <2>1, SameScreen DEF IInv, TypeOK, TurnInv, LoopInv, LoopTypeOK, Busy
<1>5. CASE Run
  <2>1. LoopTypeOK' /\ LoopInv' /\ Busy'
    BY <1>a, <1>5, LoopStepOK DEF Run
  <2>2. Busy
    BY <1>5 DEF Run, LoopStep, ProviderConverges, ProviderAsksTool, ProviderBreaksProtocol,
                ProviderFails, ProviderAborted, ToolSettles, TimerFires, Busy
  <2>3. UNCHANGED <<entries, prompt, keyed, turn, ledger, begun>>
    BY <1>5 DEF Run, screen
  <2> QED
    BY <1>a, <2>1, <2>2, <2>3, SameScreen DEF IInv, TypeOK, TurnInv
<1>6. CASE RunFailed
  <2>1. Settle(loop.outcome) /\ UNCHANGED <<entries, ledger>>
    BY <1>6 DEF RunFailed
  <2> QED
    BY <1>a, <2>1, SettleOK, SameScreen DEF IInv
<1>7. CASE Attest
  BY <1>7, AttestOK
<1>8. CASE Restart
  <2>1. LoopTypeOK' /\ LoopInv' /\ ~ Busy'
    BY <1>8, NoRunOK DEF Restart
  <2>2. /\ entries' = << >> /\ prompt' = NULL /\ keyed' \in BOOLEAN
        /\ UNCHANGED <<ledger, begun>>
    BY <1>8 DEF Restart
  <2> QED
    BY <1>a, <2>1, <2>2 DEF IInv, TypeOK, TurnInv, KeyInv, RepliesAttestTheirMessage
<1>9. CASE UNCHANGED vars
  BY <1>a, <1>9, SameScreen DEF vars, screen, IInv, TypeOK, TurnInv, LoopInv, LoopTypeOK, Busy
<1> QED
  BY <1>1, <1>2, <1>3, <1>4, <1>5, <1>6, <1>7, <1>8, <1>9 DEF Next

LEMMA IInvHolds == Spec => []IInv
  BY InitIInv, NextIInv, PTL DEF Spec

----------------------------------------------------------------------------
(* Every state of the chat is well typed, whatever users type and models    *)
(* answer.                                                                  *)
THEOREM ChatTypeCorrect == Spec => []TypeOK
<1>1. IInv => TypeOK
  BY DEF IInv
<1> QED
  BY <1>1, IInvHolds, PTL

(* A reply on screen always carries an attestation of the message it        *)
(* answers: through retries, lost responses, parked messages and restarts.  *)
THEOREM RepliesAttested == Spec => []RepliesAttestTheirMessage
<1>1. IInv => RepliesAttestTheirMessage
  BY DEF IInv
<1> QED
  BY <1>1, IInvHolds, PTL

(* Only the work of a run that converged is ever signed, with every tool    *)
(* it ran.                                                                  *)
THEOREM OnlyWorkIsSigned == Spec => EvidenceIsWork
<1> DEFINE Signed ==
      \A r \in ledger' \ ledger :
        /\ loop.outcome = "converged"
        /\ <<r.task, r.output, r.tools>> = <<turn.task, loop.output, loop.ran>>
<1>1. IInv /\ [Next]_vars => [Signed]_vars
  <2> SUFFICES ASSUME IInv, Next PROVE Signed
    BY DEF vars
  <2>1. CASE Attest
    <3>1. ledger' \ ledger \subseteq {NewRow} /\ loop.outcome = "converged"
      BY <2>1 DEF Attest
    <3>2. loop.used = loop.ran
      BY DEF IInv, LoopInv
    <3> QED
      BY <3>1, <3>2 DEF NewRow
  <2>2. CASE ledger' = ledger
    BY <2>2
  <2> QED
    BY <2>1, <2>2 DEF Next, HandleSend, HandleRetry, RunChatTurn, HandleKeySubmit, HandleKeyCancel,
                      Run, RunFailed, Restart
<1> QED
  BY <1>1, IInvHolds, PTL DEF Spec, EvidenceIsWork

----------------------------------------------------------------------------
(* The folds of History.  A fold's table exists, and what it computes is    *)
(* shown by a smallest counterexample.                                      *)

LEMMA SmallestOf ==
  ASSUME NEW T \in SUBSET Nat, T # {}
  PROVE  \E x \in T : \A y \in T : x <= y
<1>1. PICK x \in T : \A y \in T : ~ (<<y, x>> \in OpToRel(<, Nat))
  BY NatLessThanWellFounded, WFMin
<1>2. \A y \in T : <<y, x>> \in Nat \X Nat /\ (y < x => <<y, x>> \in OpToRel(<, Nat))
  BY DEF OpToRel
<1>3. \A y \in T : x \in Nat /\ y \in Nat /\ ~ (y < x)
  BY <1>1, <1>2
<1> QED
  BY <1>3

(* The first number up to n that something goes wrong for is not the first  *)
(* of all, and goes right for the one before.                               *)
LEMMA NoFirstFailure ==
  ASSUME NEW n \in Nat, NEW good \in SUBSET (0..n), 0 \in good,
         \A i \in 1..n : i - 1 \in good => i \in good
  PROVE  good = 0..n
<1> DEFINE Bad == (0..n) \ good
<1> SUFFICES ASSUME Bad # {} PROVE FALSE
  OBVIOUS
<1>1. PICK i \in Bad : \A j \in Bad : i <= j
  <2>1. Bad \in SUBSET Nat
    OBVIOUS
  <2> HIDE DEF Bad
  <2> QED
    BY <2>1, SmallestOf
<1>2. i \in 1..n /\ i - 1 \in 0..n
  OBVIOUS
<1>3. i - 1 \notin Bad
  BY <1>1, <1>2
<1> QED
  BY <1>2, <1>3

(* What a fold computes for each part of S, taking the elements as pick does. *)
Folded(g, S, pick, base, step) ==
  g = [s \in SUBSET S |-> IF s = {} THEN base ELSE step[pick[s], g[s \ {pick[s]}]]]

LEMMA FoldExists ==
  ASSUME NEW S, IsFiniteSet(S), NEW V, NEW base \in V, NEW step \in [S \X V -> V],
         NEW pick, \A s \in SUBSET S : s # {} => pick[s] \in s
  PROVE  \E g \in [SUBSET S -> V] : Folded(g, S, pick, base, step)
<1> DEFINE Level(n) == {s \in SUBSET S : Cardinality(s) <= n}
           Value(g, s) == IF s = {} THEN base ELSE step[pick[s], g[s \ {pick[s]}]]
           Upto(g, n) == g \in [Level(n) -> V] /\ \A s \in Level(n) : g[s] = Value(g, s)
<1>1. \A s \in SUBSET S : IsFiniteSet(s) /\ Cardinality(s) \in Nat
  BY FS_Subset, FS_CardinalityType
<1>2. ASSUME NEW n \in Nat, n > 0, NEW g, Upto(g, n - 1) PROVE \E h : Upto(h, n)
  <2> DEFINE h == [s \in Level(n) |-> Value(g, s)]
  <2>1. ASSUME NEW s \in Level(n), s # {}
        PROVE  pick[s] \in S /\ s \ {pick[s]} \in Level(n - 1)
    <3>1. pick[s] \in s
      BY <2>1
    <3>2. Cardinality(s \ {pick[s]}) = Cardinality(s) - 1 /\ Cardinality(s) \in Nat
      BY <1>1, <3>1, FS_RemoveElement
    <3> QED
      BY <3>1, <3>2
  <2>2. ASSUME NEW s \in Level(n) PROVE Value(g, s) \in V
    <3>1. CASE s # {}
      <4>1. pick[s] \in S /\ g[s \ {pick[s]}] \in V
        BY <1>2, <2>1, <3>1
      <4> QED
        BY <3>1, <4>1
    <3> QED
      BY <3>1
  <2>3. h \in [Level(n) -> V]
    <3> HIDE DEF Value, Level
    <3> QED
      BY <2>2
  <2>4. ASSUME NEW s \in Level(n - 1) PROVE h[s] = g[s]
    <3>1. s \in Level(n)
      BY <1>1
    <3>2. h[s] = Value(g, s)
      BY <3>1
    <3>3. g[s] = Value(g, s)
      <4> HIDE DEF Value, Level, h
      <4> QED
        BY <1>2
    <3> QED
      BY <3>2, <3>3
  <2>5. ASSUME NEW s \in Level(n) PROVE h[s] = Value(h, s)
    <3>1. h[s] = Value(g, s)
      OBVIOUS
    <3>2. s # {} => h[s \ {pick[s]}] = g[s \ {pick[s]}]
      <4> HIDE DEF Level, h
      <4> QED
        BY <2>1, <2>4
    <3> HIDE DEF h, Level
    <3> QED
      BY <3>1, <3>2
  <2> QED
    BY <2>3, <2>5
<1>3. \E g : Upto(g, 0)
  <2> DEFINE h == [s \in Level(0) |-> base]
  <2>1. \A s \in Level(0) : s = {}
    BY <1>1, FS_EmptySet
  <2> QED
    <3>1. Upto(h, 0)
      BY <2>1
    <3> QED
      BY <3>1
<1>4. Cardinality(S) \in Nat
  BY FS_CardinalityType
<1>5. PICK g : Upto(g, Cardinality(S))
  <2> DEFINE good == {n \in 0..Cardinality(S) : \E g : Upto(g, n)}
  <2>1. 0 \in good
    <3> HIDE DEF Upto
    <3> QED
      BY <1>3, <1>4
  <2>2. ASSUME NEW i \in 1..Cardinality(S), i - 1 \in good PROVE i \in good
    <3> HIDE DEF Upto
    <3>1. i \in Nat /\ i > 0 /\ i \in 0..Cardinality(S)
      BY <1>4
    <3>2. \E g : Upto(g, i - 1)
      BY <2>2
    <3> QED
      BY <1>2, <3>1, <3>2
  <2>3. good \in SUBSET (0..Cardinality(S))
    OBVIOUS
  <2>4. good = 0..Cardinality(S)
    <3> HIDE DEF good
    <3> QED
      BY <1>4, <2>1, <2>2, <2>3, NoFirstFailure
  <2> HIDE DEF Upto
  <2> QED
    BY <1>4, <2>4
<1>6. Level(Cardinality(S)) = SUBSET S
  BY FS_Subset
<1>7. g \in [SUBSET S -> V] /\ \A s \in SUBSET S : g[s] = Value(g, s)
  BY <1>5, <1>6
<1>8. g = [s \in SUBSET S |-> Value(g, s)]
  <2> HIDE DEF Value
  <2> QED
    BY <1>7
<1>9. Folded(g, S, pick, base, step)
  BY <1>8, Zenon DEF Folded
<1> QED
  BY <1>7, <1>9

(* The ends of a stretch of indices. *)
LEMMA EndsIn ==
  ASSUME NEW n \in Nat, NEW s \in SUBSET (1..n), s # {}
  PROVE  Min(s) \in s /\ Max(s) \in s
<1>1. \E x \in s : \A y \in s : x <= y
  BY SmallestOf
<1>2. \E x \in s : \A y \in s : x >= y
  <2> DEFINE T == {n - y : y \in s}
  <2>1. T \in SUBSET Nat /\ T # {}
    <3>1. \A y \in s : n - y \in Nat
      OBVIOUS
    <3> QED
      BY <3>1
  <2>2. PICK d \in T : \A e \in T : d <= e
    <3> HIDE DEF T
    <3> QED
      BY <2>1, SmallestOf
  <2>3. PICK x \in s : d = n - x
    OBVIOUS
  <2>4. ASSUME NEW y \in s PROVE x >= y
    <3>1. n - x <= n - y
      BY <2>2, <2>3
    <3> QED
      BY <3>1
  <2> QED
    BY <2>4
<1> QED
  BY <1>1, <1>2 DEF Min, Max

LEMMA EndsAre ==
  ASSUME NEW n \in Nat, NEW i \in 1..n
  PROVE  /\ Max(1..i) = i /\ (1..i) \ {i} = 1..(i - 1) /\ 1..i \subseteq 1..n
         /\ Min(i..n) = i /\ (i..n) \ {i} = (i + 1)..n /\ i..n \subseteq 1..n
<1>1. Max(1..i) \in 1..i /\ \A y \in 1..i : Max(1..i) >= y
  <2>1. i \in 1..i /\ \A y \in 1..i : i >= y
    OBVIOUS
  <2> QED
    BY <2>1, Zenon DEF Max
<1>2. Min(i..n) \in i..n /\ \A y \in i..n : Min(i..n) <= y
  <2>1. i \in i..n /\ \A y \in i..n : i <= y
    OBVIOUS
  <2> QED
    BY <2>1, Zenon DEF Min
<1> QED
  BY <1>1, <1>2

----------------------------------------------------------------------------
(* The size of a history *)

Sized(g, h) ==
  g = [s \in SUBSET DOMAIN h |->
         IF s = {} THEN 0 ELSE g[s \ {Max(s)}] + SizeOf[h[Max(s)].content]]

SizesOf(h) == CHOOSE g : Sized(g, h)

LEMMA SizeIsFold ==
  ASSUME NEW h
  PROVE  SizeOfAll(h) = SizesOf(h)[DOMAIN h]
  BY DEF SizeOfAll, FoldLeft, MapThenFoldSet, Sized, SizesOf

LEMMA TurnSize ==
  ASSUME NEW t \in Turn
  PROVE  SizeOf[t.content] \in Nat
  BY HistoryAssumption DEF Turn

LEMMA SizesExist ==
  ASSUME NEW h \in Seq(Turn)
  PROVE  Sized(SizesOf(h), h)
<1> DEFINE S == DOMAIN h
           pick == [s \in SUBSET S |-> Max(s)]
           step == [x \in S \X Nat |-> x[2] + SizeOf[h[x[1]].content]]
<1>1. S = 1..Len(h) /\ Len(h) \in Nat /\ IsFiniteSet(S)
  <2>1. S = 1..Len(h) /\ Len(h) \in Nat
    OBVIOUS
  <2> QED
    BY <2>1, FS_Interval
<1>2. \A s \in SUBSET S : s # {} => pick[s] \in s
  BY <1>1, EndsIn
<1>3. step \in [S \X Nat -> Nat]
  <2>1. ASSUME NEW i \in S, NEW v \in Nat PROVE v + SizeOf[h[i].content] \in Nat
    <3>1. h[i] \in Turn
      OBVIOUS
    <3> QED
      BY <3>1, TurnSize
  <2> QED
    BY <2>1
<1>4. PICK g \in [SUBSET S -> Nat] : Folded(g, S, pick, 0, step)
  <2> HIDE DEF S, pick, step
  <2> QED
    BY <1>1, <1>2, <1>3, FoldExists
<1>5. ASSUME NEW s \in SUBSET S
      PROVE  g[s] = IF s = {} THEN 0 ELSE g[s \ {Max(s)}] + SizeOf[h[Max(s)].content]
  <2>1. g[s] = IF s = {} THEN 0 ELSE step[pick[s], g[s \ {pick[s]}]]
    <3> HIDE DEF S, pick, step
    <3> QED
      BY <1>4 DEF Folded
  <2>2. CASE s # {}
    <3>1. pick[s] = Max(s) /\ Max(s) \in S /\ s \ {Max(s)} \in SUBSET S
      BY <1>2, <2>2
    <3>2. g[s \ {Max(s)}] \in Nat
      BY <3>1
    <3>3. step[Max(s), g[s \ {Max(s)}]] = g[s \ {Max(s)}] + SizeOf[h[Max(s)].content]
      BY <3>1, <3>2
    <3> QED
      BY <2>1, <2>2, <3>1, <3>3
  <2> QED
    BY <2>1, <2>2
<1>6. Sized(g, h)
  BY <1>5 DEF Sized
<1> QED
  BY <1>6 DEF SizesOf

(* The sizes of its beginnings. *)
LEMMA SizesAre ==
  ASSUME NEW h \in Seq(Turn)
  PROVE  /\ SizesOf(h)[1..0] = 0
         /\ \A i \in 1..Len(h) : SizesOf(h)[1..i] = SizesOf(h)[1..(i - 1)] + SizeOf[h[i].content]
         /\ \A i \in 0..Len(h) : SizesOf(h)[1..i] \in Nat
         /\ SizeOfAll(h) = SizesOf(h)[1..Len(h)]
<1> DEFINE g == SizesOf(h)
           n == Len(h)
<1>1. n \in Nat /\ DOMAIN h = 1..n
  OBVIOUS
<1>2. \A s \in SUBSET (1..n) :
        g[s] = IF s = {} THEN 0 ELSE g[s \ {Max(s)}] + SizeOf[h[Max(s)].content]
  <2>1. g = [s \in SUBSET (1..n) |->
               IF s = {} THEN 0 ELSE g[s \ {Max(s)}] + SizeOf[h[Max(s)].content]]
    BY <1>1, SizesExist DEF Sized
  <2> HIDE DEF g
  <2> QED
    BY <2>1
<1>3. SizeOfAll(h) = g[1..n]
  BY <1>1, SizeIsFold
<1> HIDE DEF g
<1>4. g[1..0] = 0
  <2>1. 1..0 = {} /\ 1..0 \in SUBSET (1..n)
    OBVIOUS
  <2> QED
    BY <1>2, <2>1
<1>5. ASSUME NEW i \in 1..n PROVE g[1..i] = g[1..(i - 1)] + SizeOf[h[i].content]
  <2>1. Max(1..i) = i /\ (1..i) \ {i} = 1..(i - 1) /\ 1..i \in SUBSET (1..n) /\ 1..i # {}
    BY <1>1, EndsAre
  <2> QED
    BY <1>2, <2>1
<1>6. \A i \in 0..n : g[1..i] \in Nat
  <2> DEFINE good == {i \in 0..n : g[1..i] \in Nat}
  <2>1. 0 \in good /\ good \in SUBSET (0..n)
    BY <1>1, <1>4
  <2>2. ASSUME NEW i \in 1..n, i - 1 \in good PROVE i \in good
    <3>1. h[i] \in Turn /\ g[1..(i - 1)] \in Nat
      BY <1>1, <2>2
    <3>2. g[1..i] \in Nat
      BY <1>5, <3>1, TurnSize
    <3> QED
      BY <1>1, <3>2
  <2>3. good = 0..n
    <3> HIDE DEF good
    <3> QED
      BY <1>1, <2>1, <2>2, NoFirstFailure
  <2> QED
    BY <2>3
<1> QED
  BY <1>3, <1>4, <1>5, <1>6 DEF g

LEMMA SizeOfNone == SizeOfAll(<< >>) = 0
<1>1. << >> \in Seq(Turn) /\ Len(<< >>) = 0
  OBVIOUS
<1> QED
  BY <1>1, SizesAre

(* A turn in front adds its own size. *)
LEMMA SizeWithFirst ==
  ASSUME NEW t \in Turn, NEW k \in Seq(Turn)
  PROVE  /\ SizeOfAll(<<t>> \o k) = SizeOf[t.content] + SizeOfAll(k)
         /\ SizeOfAll(k) \in Nat
<1> DEFINE h == <<t>> \o k
           n == Len(k)
           a == SizesOf(h)
           b == SizesOf(k)
           z == SizeOf[t.content]
<1>1. /\ h \in Seq(Turn) /\ n \in Nat /\ Len(h) = n + 1 /\ h[1] = t
      /\ \A i \in 1..n : h[i + 1] = k[i]
  OBVIOUS
<1>2. z \in Nat
  BY TurnSize
<1>3. /\ a[1..0] = 0 /\ SizeOfAll(h) = a[1..(n + 1)]
      /\ \A i \in 1..(n + 1) : a[1..i] = a[1..(i - 1)] + SizeOf[h[i].content]
  <2> HIDE DEF h, n
  <2> QED
    BY <1>1, SizesAre
<1>4. /\ b[1..0] = 0 /\ SizeOfAll(k) = b[1..n]
      /\ \A i \in 1..n : b[1..i] = b[1..(i - 1)] + SizeOf[k[i].content]
      /\ \A i \in 0..n : b[1..i] \in Nat
  BY SizesAre
<1> HIDE DEF a, b, h, n, z
<1> DEFINE good == {i \in 0..n : a[1..(i + 1)] = z + b[1..i]}
<1>5. 0 \in good /\ good \in SUBSET (0..n)
  <2>1. a[1..1] = a[1..(1 - 1)] + SizeOf[h[1].content]
    <3>1. 1 \in 1..(n + 1)
      BY <1>1
    <3> QED
      BY <1>3, <3>1, Zenon
  <2>2. a[1..1] = z
    BY <1>1, <1>2, <1>3, <2>1 DEF z
  <2> QED
    BY <1>1, <1>2, <1>4, <2>2
<1>6. ASSUME NEW i \in 1..n, i - 1 \in good PROVE i \in good
  <2>1. i + 1 \in 1..(n + 1) /\ i + 1 - 1 = i /\ i - 1 + 1 = i /\ i - 1 \in 0..n
    BY <1>1
  <2>2. a[1..(i + 1)] = a[1..i] + SizeOf[k[i].content]
    BY <1>1, <1>3, <2>1
  <2>3. a[1..i] = z + b[1..(i - 1)]
    BY <1>6, <2>1
  <2>4. k[i] \in Turn /\ SizeOf[k[i].content] \in Nat /\ b[1..(i - 1)] \in Nat
    <3>1. k[i] \in Turn
      <4>1. i \in 1..Len(k)
        BY DEF n
      <4> QED
        BY <4>1
    <3> QED
      BY <1>4, <2>1, <3>1, TurnSize
  <2>5. b[1..i] = b[1..(i - 1)] + SizeOf[k[i].content]
    BY <1>4
  <2>6. a[1..(i + 1)] = z + b[1..i]
    BY <1>2, <2>2, <2>3, <2>4, <2>5
  <2> QED
    BY <1>1, <2>6
<1>7. good = 0..n
  <2> HIDE DEF good
  <2> QED
    BY <1>1, <1>5, <1>6, NoFirstFailure
<1>8. a[1..(n + 1)] = z + b[1..n] /\ b[1..n] \in Nat
  <2>1. n \in 0..n
    BY <1>1
  <2>2. n \in good
    BY <1>7, <2>1
  <2> QED
    BY <1>4, <2>1, <2>2
<1> QED
  BY <1>3, <1>4, <1>8 DEF h, z

----------------------------------------------------------------------------
(* What normalizeHistory keeps *)

Kept(g, w) ==
  g = [s \in SUBSET DOMAIN w |->
         IF s = {} THEN << >>
         ELSE IF Fits(w[Min(s)], g[s \ {Min(s)}]) THEN <<w[Min(s)]>> \o g[s \ {Min(s)}]
              ELSE g[s \ {Min(s)}]]

KeptOf(w) == CHOOSE g : Kept(g, w)

LEMMA NormalIsFold ==
  ASSUME NEW h
  PROVE  Normalized(h) = KeptOf(Newest(h))[DOMAIN Newest(h)]
  BY DEF Normalized, FoldRight, MapThenFoldSet, Kept, KeptOf

LEMMA KeptExists ==
  ASSUME NEW w \in Seq(Turn)
  PROVE  Kept(KeptOf(w), w)
<1> DEFINE S == DOMAIN w
           pick == [s \in SUBSET S |-> Min(s)]
           step == [x \in S \X Seq(Turn) |-> IF Fits(w[x[1]], x[2]) THEN <<w[x[1]]>> \o x[2] ELSE x[2]]
<1>1. S = 1..Len(w) /\ Len(w) \in Nat /\ IsFiniteSet(S)
  <2>1. S = 1..Len(w) /\ Len(w) \in Nat
    OBVIOUS
  <2> QED
    BY <2>1, FS_Interval
<1>2. \A s \in SUBSET S : s # {} => pick[s] \in s
  BY <1>1, EndsIn
<1>3. step \in [S \X Seq(Turn) -> Seq(Turn)]
  <2>1. ASSUME NEW i \in S, NEW v \in Seq(Turn) PROVE <<w[i]>> \o v \in Seq(Turn)
    <3>1. w[i] \in Turn
      OBVIOUS
    <3> QED
      BY <3>1
  <2> QED
    BY <2>1
<1>4. PICK g \in [SUBSET S -> Seq(Turn)] : Folded(g, S, pick, << >>, step)
  <2>1. << >> \in Seq(Turn)
    OBVIOUS
  <2> HIDE DEF S, pick, step
  <2> QED
    BY <1>1, <1>2, <1>3, <2>1, FoldExists
<1>5. ASSUME NEW s \in SUBSET S
      PROVE  g[s] = IF s = {} THEN << >>
                    ELSE IF Fits(w[Min(s)], g[s \ {Min(s)}]) THEN <<w[Min(s)]>> \o g[s \ {Min(s)}]
                         ELSE g[s \ {Min(s)}]
  <2>1. g[s] = IF s = {} THEN << >> ELSE step[pick[s], g[s \ {pick[s]}]]
    <3> HIDE DEF S, pick, step
    <3> QED
      BY <1>4 DEF Folded
  <2>2. CASE s # {}
    <3>1. pick[s] = Min(s) /\ Min(s) \in S /\ s \ {Min(s)} \in SUBSET S
      BY <1>2, <2>2
    <3>2. g[s \ {Min(s)}] \in Seq(Turn)
      BY <3>1
    <3>3. step[Min(s), g[s \ {Min(s)}]] =
            IF Fits(w[Min(s)], g[s \ {Min(s)}]) THEN <<w[Min(s)]>> \o g[s \ {Min(s)}]
            ELSE g[s \ {Min(s)}]
      BY <3>1, <3>2
    <3> QED
      BY <2>1, <2>2, <3>1, <3>3
  <2> QED
    BY <2>1, <2>2
<1>6. Kept(g, w)
  BY <1>5 DEF Kept
<1> QED
  BY <1>6 DEF KeptOf

(* What is kept of the turns of w from i on. *)
InBounds(c, w, i) ==
  /\ c \in Seq(Turn) /\ ValidHistory(c)
  /\ Len(c) <= Len(w) - i + 1
  /\ SizeOfAll(c) <= CharBudget
  /\ i <= Len(w) => c # << >> /\ Last(c) = Last(w)

LEMMA OneMoreInBounds ==
  ASSUME NEW w \in Seq(Turn), ValidHistory(w), NEW i \in 1..Len(w), NEW c, InBounds(c, w, i + 1),
         NEW d, d = IF Fits(w[i], c) THEN <<w[i]>> \o c ELSE c
  PROVE  InBounds(d, w, i)
<1> DEFINE t == w[i]
<1>1. t \in Turn /\ SizeOf[t.content] \in 1..MaxTurn /\ Len(w) \in Nat
  BY DEF ValidHistory
<1>2. c \in Seq(Turn) /\ Len(c) \in Nat /\ ValidHistory(c) /\ Len(c) <= Len(w) - i
  BY <1>1 DEF InBounds
<1>3. SizeOfAll(<<t>> \o c) = SizeOf[t.content] + SizeOfAll(c) /\ SizeOfAll(c) \in Nat
  BY <1>1, <1>2, SizeWithFirst
<1>4. CASE Fits(t, c)
  <2>1. d = <<t>> \o c
    BY <1>4
  <2>2. d \in Seq(Turn) /\ Len(d) = Len(c) + 1 /\ d # << >> /\ d[1] = t
        /\ \A j \in 2..Len(d) : d[j] = c[j - 1]
    BY <1>1, <1>2, <2>1
  <2>3. ValidHistory(d)
    <3> SUFFICES ASSUME NEW j \in DOMAIN d PROVE SizeOf[d[j].content] \in 1..MaxTurn
      BY DEF ValidHistory
    <3>1. CASE j = 1
      BY <1>1, <2>2, <3>1
    <3>2. CASE j # 1
      <4>1. j \in 2..Len(d) /\ j - 1 \in DOMAIN c
        BY <1>2, <2>2, <3>2
      <4> QED
        BY <1>2, <2>2, <4>1 DEF ValidHistory
    <3> QED
      BY <3>1, <3>2
  <2>4. SizeOfAll(d) <= CharBudget
    BY <1>3, <1>4, <2>1 DEF Fits
  <2>5. Last(d) = Last(w)
    <3>1. CASE c = << >>
      <4>1. i = Len(w)
        <5>1. ~ (i + 1 <= Len(w))
          BY <3>1 DEF InBounds
        <5> QED
          BY <1>1, <5>1
      <4>2. Len(d) = 1
        BY <2>2, <3>1
      <4> QED
        BY <2>2, <4>1, <4>2 DEF Last
    <3>2. CASE c # << >>
      <4>1. Len(c) >= 1 /\ Len(d) \in 2..Len(d) /\ Len(d) - 1 = Len(c)
        BY <1>2, <2>2, <3>2
      <4>2. Last(d) = Last(c) /\ i + 1 <= Len(w)
        BY <1>1, <1>2, <2>2, <4>1 DEF Last
      <4> QED
        BY <4>2 DEF InBounds
    <3> QED
      BY <3>1, <3>2
  <2> QED
    BY <1>1, <1>2, <2>2, <2>3, <2>4, <2>5 DEF InBounds
<1>5. CASE ~ Fits(t, c)
  <2>1. d = c
    BY <1>5
  <2>2. i + 1 <= Len(w)
    <3> SUFFICES ASSUME i = Len(w) PROVE FALSE
      BY <1>1
    <3>1. Len(c) = 0
      BY <1>1, <1>2
    <3>2. c = << >>
      BY <1>2, <3>1
    <3>3. SizeOf[t.content] + SizeOfAll(c) <= CharBudget
      BY <1>1, <3>2, SizeOfNone, HistoryAssumption
    <3> QED
      BY <1>5, <3>3 DEF Fits
  <2> QED
    BY <1>1, <1>2, <2>1, <2>2 DEF InBounds
<1> QED
  BY <1>4, <1>5

LEMMA KeptInBounds ==
  ASSUME NEW w \in Seq(Turn), ValidHistory(w)
  PROVE  InBounds(KeptOf(w)[DOMAIN w], w, 1)
<1> DEFINE g == KeptOf(w)
           n == Len(w)
<1>1. n \in Nat /\ DOMAIN w = 1..n
  OBVIOUS
<1>2. \A s \in SUBSET (1..n) :
        g[s] = IF s = {} THEN << >>
               ELSE IF Fits(w[Min(s)], g[s \ {Min(s)}]) THEN <<w[Min(s)]>> \o g[s \ {Min(s)}]
                    ELSE g[s \ {Min(s)}]
  <2>1. g = [s \in SUBSET (1..n) |->
               IF s = {} THEN << >>
               ELSE IF Fits(w[Min(s)], g[s \ {Min(s)}]) THEN <<w[Min(s)]>> \o g[s \ {Min(s)}]
                    ELSE g[s \ {Min(s)}]]
    BY <1>1, KeptExists DEF Kept
  <2> HIDE DEF g
  <2> QED
    BY <2>1
<1> HIDE DEF g
<1> DEFINE good == {m \in 0..n : InBounds(g[(n - m + 1)..n], w, n - m + 1)}
<1>3. 0 \in good /\ good \in SUBSET (0..n)
  <2>1. (n - 0 + 1)..n = {} /\ n - 0 + 1 = n + 1
    BY <1>1
  <2>2. g[(n - 0 + 1)..n] = << >>
    BY <1>2, <2>1
  <2>3. InBounds(<< >>, w, n + 1)
    <3>1. << >> \in Seq(Turn) /\ Len(<< >>) = 0 /\ ~ (n + 1 <= n) /\ Len(w) - (n + 1) + 1 = 0
      BY <1>1
    <3> QED
      BY <3>1, SizeOfNone, HistoryAssumption DEF InBounds, ValidHistory
  <2> QED
    BY <1>1, <2>1, <2>2, <2>3
<1>4. ASSUME NEW m \in 1..n, m - 1 \in good PROVE m \in good
  <2> DEFINE i == n - m + 1
  <2>1. i \in 1..n /\ n - (m - 1) + 1 = i + 1
    BY <1>1
  <2>2. InBounds(g[(i + 1)..n], w, i + 1)
    BY <1>4, <2>1
  <2> HIDE DEF i
  <2>3. Min(i..n) = i /\ (i..n) \ {i} = (i + 1)..n /\ i..n \in SUBSET (1..n) /\ i..n # {}
    BY <1>1, <2>1, EndsAre
  <2>4. g[i..n] = IF Fits(w[i], g[(i + 1)..n]) THEN <<w[i]>> \o g[(i + 1)..n] ELSE g[(i + 1)..n]
    BY <1>2, <2>3
  <2>5. InBounds(g[i..n], w, i)
    BY <2>1, <2>2, <2>4, OneMoreInBounds
  <2> QED
    BY <1>1, <2>5 DEF i
<1>5. good = 0..n
  <2> HIDE DEF good
  <2> QED
    BY <1>1, <1>3, <1>4, NoFirstFailure
<1>6. InBounds(g[(n - n + 1)..n], w, n - n + 1) /\ n - n + 1 = 1
  BY <1>1, <1>5
<1> QED
  BY <1>1, <1>6 DEF g

LEMMA NewestTyped ==
  ASSUME NEW h \in Seq(Turn)
  PROVE  Newest(h) \in Seq(Turn)
<1>1. CASE Len(h) > TurnCap
  <2>1. TurnCap \in Nat /\ Len(h) - TurnCap + 1 \in 1..(Len(h) + 1)
    BY <1>1, HistoryAssumption
  <2> QED
    BY <1>1, <2>1 DEF Newest
<1> QED
  BY <1>1, HistoryAssumption DEF Newest

LEMMA NewestIs ==
  ASSUME NEW h \in Seq(Turn), ValidHistory(h)
  PROVE  /\ Newest(h) \in Seq(Turn) /\ ValidHistory(Newest(h)) /\ Len(Newest(h)) <= TurnCap
         /\ h # << >> => Newest(h) # << >> /\ Last(Newest(h)) = Last(h)
<1>1. TurnCap \in Nat /\ TurnCap > 0 /\ Len(h) \in Nat
  BY HistoryAssumption
<1>2. CASE Len(h) <= TurnCap
  BY <1>2 DEF Newest
<1>3. CASE Len(h) > TurnCap
  <2> DEFINE k == Len(h) - TurnCap
             w == SubSeq(h, k + 1, Len(h))
  <2>1. k \in Nat /\ k + TurnCap = Len(h) /\ Len(h) - TurnCap + 1 = k + 1
    BY <1>1, <1>3
  <2>2. Newest(h) = w
    BY <1>1, <1>3 DEF Newest
  <2> HIDE DEF k
  <2>3. w \in Seq(Turn) /\ Len(w) = TurnCap /\ \A j \in 1..TurnCap : w[j] = h[j + k] /\ j + k \in DOMAIN h
    BY <1>1, <2>1
  <2> HIDE DEF w
  <2>4. ValidHistory(w)
    BY <2>3 DEF ValidHistory
  <2>5. Last(w) = Last(h) /\ w # << >>
    BY <1>1, <2>1, <2>3 DEF Last
  <2> QED
    BY <1>1, <2>2, <2>3, <2>4, <2>5
<1> QED
  BY <1>1, <1>2, <1>3

LEMMA NormalizedInBounds ==
  ASSUME NEW h \in Seq(Turn), ValidHistory(h)
  PROVE  /\ Len(Normalized(h)) <= TurnCap
         /\ SizeOfAll(Normalized(h)) <= CharBudget
         /\ ValidHistory(Normalized(h))
         /\ h # << >> => Normalized(h) # << >> /\ Last(Normalized(h)) = Last(h)
<1> DEFINE w == Newest(h)
           c == Normalized(h)
<1>1. /\ w \in Seq(Turn) /\ ValidHistory(w) /\ Len(w) <= TurnCap
      /\ h # << >> => w # << >> /\ Last(w) = Last(h)
  BY NewestIs
<1>2. InBounds(c, w, 1)
  <2>1. c = KeptOf(w)[DOMAIN w]
    BY NormalIsFold
  <2> HIDE DEF c, w
  <2> QED
    BY <1>1, <2>1, KeptInBounds
<1> HIDE DEF c, w
<1>3. Len(w) \in Nat /\ Len(c) \in Nat /\ TurnCap \in Nat /\ (w # << >> => 1 <= Len(w))
  BY <1>1, <1>2, HistoryAssumption DEF InBounds
<1> QED
  BY <1>1, <1>2, <1>3 DEF InBounds, c, w

----------------------------------------------------------------------------
(* The history a turn was given *)

(* What the run of a turn was handed is what normalizeHistory makes of a    *)
(* valid history.                                                           *)
ContextInv ==
  Busy => /\ turn.history \in Seq(Turn) /\ ValidHistory(turn.history)
          /\ turn.context = Normalized(turn.history)

LEMMA HistoryTyped ==
  ASSUME NEW es \in Seq(Entry), NEW text
  PROVE  HistoryForTurn(Transcript(es), text) \in Seq(Turn)
<1> DEFINE h == Transcript(es)
<1>1. h \in Seq(Turn)
  <2>1. ASSUME NEW i \in DOMAIN es PROVE [role |-> es[i].role, content |-> es[i].content] \in Turn
    <3>1. es[i] \in Entry
      OBVIOUS
    <3> QED
      BY <3>1 DEF Entry, Turn
  <2>2. DOMAIN es = 1..Len(es) /\ Len(es) \in Nat
    OBVIOUS
  <2> QED
    BY <2>1, <2>2 DEF Transcript
<1> HIDE DEF h
<1>2. h # << >> => Front(h) \in Seq(Turn)
  BY <1>1 DEF Front
<1>3. WithoutTask(h, text) \in Seq(Turn)
  BY <1>1, <1>2 DEF WithoutTask
<1> QED
  BY <1>3, NewestTyped DEF HistoryForTurn, h

LEMMA ProceedContext ==
  ASSUME ContextInv, entries \in Seq(Entry), NEW text, Proceed(text, entries)
  PROVE  ContextInv'
<1> DEFINE h == HistoryForTurn(Transcript(entries), text)
<1>1. h \in Seq(Turn)
  BY HistoryTyped
<1>2. CASE turn' = [task |-> text, history |-> h, context |-> Normalized(h)] /\ ValidHistory(h)
  <2> HIDE DEF h
  <2> QED
    BY <1>1, <1>2 DEF ContextInv
<1>3. CASE UNCHANGED <<loop, turn>>
  BY <1>3 DEF ContextInv, Busy
<1> QED
  BY <1>2, <1>3 DEF Proceed, Wrap, Fail

LEMMA NextContext == IInv /\ ContextInv /\ [Next]_vars => ContextInv'
<1> SUFFICES ASSUME IInv, ContextInv, [Next]_vars PROVE ContextInv'
  OBVIOUS
<1>1. entries \in Seq(Entry)
  BY DEF IInv, TypeOK
<1>2. ASSUME NEW text, RunChatTurn(text, entries) PROVE ContextInv'
  BY <1>1, <1>2, ProceedContext DEF RunChatTurn, Fail, ContextInv, Busy
<1>3. CASE HandleKeySubmit
  BY <1>1, <1>3, ProceedContext DEF HandleKeySubmit, Fail, ContextInv, Busy
<1>4. CASE Run
  <2>1. Busy
    BY <1>4 DEF Run, LoopStep, ProviderConverges, ProviderAsksTool, ProviderBreaksProtocol,
                ProviderFails, ProviderAborted, ToolSettles, TimerFires, Busy
  <2> QED
    BY <1>4, <2>1 DEF Run, ContextInv
<1>5. CASE loop' = NoRun
  BY <1>5 DEF ContextInv, Busy, NoRun
<1>6. CASE UNCHANGED <<loop, turn>>
  BY <1>6 DEF ContextInv, Busy
<1>7. RunFailed \/ Attest \/ Restart => loop' = NoRun
  BY DEF RunFailed, Attest, Restart, Settle, Reply
<1> QED
  BY <1>2, <1>3, <1>4, <1>5, <1>6, <1>7 DEF Next, vars, HandleSend, HandleRetry, HandleKeyCancel, Fail

(* The context a model is handed is within every bound, each of its turns   *)
(* valid, and it ends in the newest turn of the transcript, however long    *)
(* the conversation: whatever the limits and the lengths of what users type *)
(* and models answer.                                                       *)
THEOREM ContextsFit == Spec => []ContextWithinBounds
<1>1. Init => ContextInv
  BY DEF Init, LoopInit, NoRun, ContextInv, Busy
<1>2. ContextInv => ContextWithinBounds
  BY NormalizedInBounds DEF ContextInv, ContextWithinBounds
<1> QED
  BY <1>1, <1>2, IInvHolds, NextContext, PTL DEF Spec

----------------------------------------------------------------------------
(***************************************************************************)
(* The longest a turn can still take: a call and a tool for each call that *)
(* is left, the timer if it has not fired, and the end.                    *)
(***************************************************************************)
LoopLeft(l, fired) ==
  CASE l.pc = "idle" -> 0
    [] l.pc = "done" -> 1
    [] l.pc \in {"call", "tool"} ->
         2 * (MaxCalls - l.calls) + (IF l.pc = "call" THEN 2 ELSE 3) + (IF fired THEN 0 ELSE 1)

(* A parked message waits for its key with no turn running.                 *)
ParkedInv == prompt # NULL => ~ Busy

LEMMA ParkedStays == TypeOK /\ ParkedInv /\ [Next]_vars => ParkedInv'
<1> SUFFICES ASSUME TypeOK, ParkedInv, [Next]_vars PROVE ParkedInv'
  OBVIOUS
<1>1. ASSUME NEW text, NEW seen, prompt = NULL, RunChatTurn(text, seen) PROVE ParkedInv'
  BY <1>1 DEF RunChatTurn, Fail, ParkedInv, Busy
<1>2. CASE \E text \in Text : HandleSend(text)
  BY <1>1, <1>2 DEF HandleSend
<1>3. CASE HandleRetry
  BY <1>1, <1>3 DEF HandleRetry
<1>4. CASE HandleKeySubmit \/ HandleKeyCancel
  BY <1>4 DEF HandleKeySubmit, HandleKeyCancel, Fail, ParkedInv, Busy
<1>5. CASE Run
  <2>1. Busy /\ UNCHANGED prompt
    BY <1>5 DEF Run, LoopStep, ProviderConverges, ProviderAsksTool, ProviderBreaksProtocol, ProviderFails,
                ProviderAborted, ToolSettles, TimerFires, Busy, screen
  <2> QED
    BY <2>1 DEF ParkedInv
<1>6. CASE RunFailed \/ Attest \/ Restart
  <2>1. loop' = NoRun
    BY <1>6 DEF RunFailed, Attest, Restart, Reply, Settle
  <2> QED
    BY <2>1 DEF ParkedInv, Busy, NoRun
<1>7. CASE UNCHANGED vars
  BY <1>7 DEF vars, screen, ParkedInv, Busy
<1> QED
  BY <1>2, <1>3, <1>4, <1>5, <1>6, <1>7 DEF Next

LEMMA LoopLeftIs ==
  ASSUME NEW l \in LoopState, NEW fired \in BOOLEAN
  PROVE  LoopLeft(l, fired) \in 0 .. 2 * MaxCalls + 4 /\ (LoopLeft(l, fired) = 0 <=> l.pc = "idle")
<1>1. l.calls \in 0 .. MaxCalls /\ MaxCalls \in Nat /\ l.pc \in {"idle", "call", "tool", "done"}
  BY LoopAssumption DEF LoopState
<1> QED
  BY <1>1 DEF LoopLeft

LEMMA LoopStepComesNearer ==
  ASSUME LoopTypeOK, LoopStep
  PROVE  LoopLeft(loop', aborted') < LoopLeft(loop, aborted)
<1>0. /\ loop \in LoopState /\ aborted \in BOOLEAN
      /\ loop.calls \in 0 .. MaxCalls /\ MaxCalls \in Nat
  BY LoopAssumption DEF LoopTypeOK, LoopState
<1>1. ASSUME loop.pc \in {"call", "tool"}, loop'.pc = "done"
      PROVE  LoopLeft(loop', aborted') < LoopLeft(loop, aborted)
  BY <1>0, <1>1 DEF LoopLeft
<1>2. ASSUME loop.pc = "call", NEW code, NEW l \in {loop, Answered}, loop' = End(l, code)
      PROVE  LoopLeft(loop', aborted') < LoopLeft(loop, aborted)
  BY <1>0, <1>1, <1>2 DEF End, Answered, LoopState
<1>3. CASE \E text \in Output : ProviderConverges(text)
  <2>1. loop.pc = "call" /\ loop'.pc = "done"
    BY <1>0, <1>3 DEF ProviderConverges, End, Answered, LoopState
  <2> QED
    BY <1>1, <2>1
<1>4. CASE \E t \in Tool : ProviderAsksTool(t)
  <2>1. loop.pc = "call" /\ loop'.pc = "tool" /\ loop'.calls = loop.calls + 1 /\ aborted' = aborted
    BY <1>0, <1>4 DEF ProviderAsksTool, Answered, LoopState
  <2> QED
    BY <1>0, <2>1 DEF LoopLeft
<1>5. CASE ProviderBreaksProtocol \/ ProviderFails \/ ProviderAborted
  BY <1>2, <1>5 DEF ProviderBreaksProtocol, ProviderFails, ProviderAborted
<1>6. CASE \E output \in {"result", "error"} : ToolSettles(output)
  <2>1. /\ loop.pc = "tool" /\ aborted' = aborted
        /\ \/ loop'.pc = "done"
           \/ loop'.pc = "call" /\ loop'.calls = loop.calls
    BY <1>0, <1>6 DEF ToolSettles, LoopHead, End, LoopState
  <2> QED
    BY <1>0, <1>1, <2>1 DEF LoopLeft
<1>7. CASE TimerFires
  BY <1>0, <1>7 DEF TimerFires, LoopLeft
<1> QED
  BY <1>3, <1>4, <1>5, <1>6, <1>7 DEF LoopStep

(* A turn under way takes no more steps than this, each bringing its end    *)
(* nearer, and nothing the user does meanwhile begins it anew: not a key    *)
(* press, not a parked message (run-loop.ts:104-238 and the busy flag).     *)
(* What EveryTurnEnds adds is that no turn stands still.                    *)
THEOREM TurnsAreBounded ==
  Spec => /\ [](LoopLeft(loop, aborted) \in 0 .. 2 * MaxCalls + 4)
          /\ [][Busy => LoopLeft(loop', aborted') < LoopLeft(loop, aborted)]_vars
<1>1. TypeOK /\ ParkedInv /\ [Next]_vars => [Busy => LoopLeft(loop', aborted') < LoopLeft(loop, aborted)]_vars
  <2> SUFFICES ASSUME TypeOK, ParkedInv, Next, Busy
               PROVE  LoopLeft(loop', aborted') < LoopLeft(loop, aborted)
    OBVIOUS
  <2>0. prompt = NULL
    BY DEF ParkedInv
  <2>1. CASE Run
    BY <2>1, LoopStepComesNearer DEF Run, TypeOK
  <2>2. CASE RunFailed \/ Attest \/ Restart
    <3>1. loop' = NoRun /\ aborted' = FALSE
      BY <2>2 DEF RunFailed, Attest, Restart, Reply, Settle
    <3>2. LoopLeft(loop', aborted') = 0
      BY <3>1 DEF LoopLeft, NoRun
    <3>3. LoopLeft(loop, aborted) \in Nat /\ LoopLeft(loop, aborted) # 0
      BY LoopLeftIs, LoopAssumption DEF TypeOK, LoopTypeOK, Busy
    <3> QED
      BY <3>2, <3>3
  <2> QED
    BY <2>0, <2>1, <2>2 DEF Next, HandleSend, HandleRetry, RunChatTurn, HandleKeySubmit, HandleKeyCancel
<1>2. Init => ParkedInv
  BY DEF Init, ParkedInv
<1>3. TypeOK => LoopLeft(loop, aborted) \in 0 .. 2 * MaxCalls + 4
  BY LoopLeftIs DEF TypeOK, LoopTypeOK
<1> QED
  BY <1>1, <1>2, <1>3, ParkedStays, ChatTypeCorrect, PTL DEF Spec

----------------------------------------------------------------------------
(***************************************************************************)
(* The same loop on the wire: ToolRun, for every gate and every reading of *)
(* an expression. It shares no constant and no variable with the screen.   *)
(***************************************************************************)

(* What a call or a message may hold, field by field.                       *)
FieldValues(field) == {b[field] : b \in {c \in Blocks : c.kind = "call"}} \cup {Absent}

CallOf == [kind : {"call"}, name : FieldValues("name"), id : FieldValues("id"), sig : FieldValues("sig")]
ItemOf == [kind : {"call", "result", "error"}, name : FieldValues("name"), id : FieldValues("id"),
           sig : FieldValues("sig")]

Agree(p, item, call) == \A field \in Identifying(p) : item[field] = call[field]

Pair(p, asked, answer, call) ==
  /\ asked.kind = "call" /\ answer.kind \in {"result", "error"}
  /\ Agree(p, asked, call) /\ Agree(p, answer, call)

WireTypeOK ==
  /\ provider \in Providers /\ Providers \subseteq {"openai", "gemini", "anthropic"}
  /\ messages \in Seq(ItemOf) /\ issued \in Seq(CallOf)
  /\ DOMAIN run = {"pc", "turns", "call", "args", "expression", "fetches"}

(* Where the run is, and how many pairs of messages it has then. A tool     *)
(* that runs was offered and got what the gate let through.                 *)
AtWork == run.pc \in {"tool", "fetch"}

CallInv ==
  /\ ~ AtWork => Len(messages) = 2 * Len(issued)
  /\ AtWork =>
       /\ Len(issued) >= 1 /\ Len(messages) = 2 * Len(issued) - 2
       /\ run.call \in CallOf /\ Agree(provider, run.call, issued[Len(issued)])
       /\ run.call.name \in DOMAIN Offered /\ run.args \in Arguments
       /\ Validate(run.args, ToolInUse.schema)

MessagesInv ==
  \A k \in 1 .. Len(issued) :
    2 * k <= Len(messages) => Pair(provider, messages[2 * k - 1], messages[2 * k], issued[k])

WireInv ==
  /\ Len(wire) \in Nat /\ Len(wire) % 2 = 0 /\ Len(wire) <= Len(messages)
  /\ \A k \in 1 .. Len(wire) \div 2 : Pair(provider, wire[2 * k - 1], wire[2 * k], issued[k])

RunInv == WireTypeOK /\ CallInv /\ MessagesInv /\ WireInv

FetchInv ==
  /\ DOMAIN fetch = {"pc", "at", "home", "headers", "redirects", "bytes", "status"}
  /\ fetch.redirects \in 0 .. MaxRedirects /\ sent.count \in 0 .. MaxRedirects + 1
  /\ fetch.pc \in {"gate", "request"} => sent.count = fetch.redirects
  /\ fetch.pc = "waiting" => sent.count = fetch.redirects + 1
  /\ sent.headers => sent.to = fetch.home

----------------------------------------------------------------------------
(* The gate *)

LEMMA PartsAreShallower ==
  ASSUME NEW p \in Values \X Schemas, NEW part \in Parts(p[1], p[2])
  PROVE  part \in Values \X Schemas /\ Depth(part[2]) \in Nat /\ Depth(p[2]) \in Nat /\ Depth(part[2]) < Depth(p[2])
  BY SchemaAssumption

(* A call of the gate looks no further than its parts.                      *)
LEMMA NodeIsLocal ==
  ASSUME NEW v, NEW s, NEW f, NEW g, \A part \in Parts(v, s) : f[part] = g[part]
  PROVE  ValidateNode(v, s, f) = ValidateNode(v, s, g)
<1>1. CASE s.type = "array" /\ v.is = "array"
  <2>1. \A i \in DOMAIN v.items : f[<<v.items[i], s.items>>] = g[<<v.items[i], s.items>>]
    BY <1>1 DEF Parts
  <2> QED
    BY <1>1, <2>1 DEF ValidateNode
<1>2. CASE s.type = "object" /\ v.is = "object"
  <2>1. \A k \in DOMAIN v.props \cap Named(s) :
          f[<<v.props[k], PropSchema(s, k)>>] = g[<<v.props[k], PropSchema(s, k)>>]
    BY <1>2 DEF Parts
  <2> QED
    BY <1>2, <2>1 DEF ValidateNode, ValidateProps
<1>3. CASE ~ (s.type = "array" /\ v.is = "array") /\ ~ (s.type = "object" /\ v.is = "object")
  BY <1>3 DEF ValidateNode
<1> QED
  BY <1>1, <1>2, <1>3

(* The recursion is well founded: the gate is what it is defined to be.     *)
LEMMA ValidIs ==
  ASSUME NEW p \in Values \X Schemas
  PROVE  Valid[p] = ValidateNode(p[1], p[2], Valid)
<1> DEFINE Below(n) == {q \in Values \X Schemas : Depth(q[2]) < n}
           Upto(f, n) == f = [q \in Below(n) |-> ValidateNode(q[1], q[2], f)]
           top == MaxDepth + 1
           good == {n \in 0 .. top : \E f : Upto(f, n)}
<1>1. top \in Nat
  BY SchemaAssumption
<1>2. 0 \in good
  <2>1. Below(0) = {}
    BY SchemaAssumption
  <2>2. Upto([q \in {} |-> TRUE], 0)
    BY <2>1
  <2> HIDE DEF Upto
  <2> QED
    BY <1>1, <2>2
<1>3. ASSUME NEW n \in 1 .. top, n - 1 \in good PROVE n \in good
  <2>1. PICK f : Upto(f, n - 1)
    BY <1>3
  <2> DEFINE h == [q \in Below(n) |-> ValidateNode(q[1], q[2], f)]
  <2>2. \A q \in Below(n - 1) : q \in Below(n) /\ f[q] = h[q]
    <3>1. \A q \in Below(n - 1) : f[q] = ValidateNode(q[1], q[2], f)
      BY <2>1
    <3>2. Below(n - 1) \subseteq Below(n)
      BY SchemaAssumption
    <3> QED
      BY <3>1, <3>2
  <2>3. ASSUME NEW q \in Below(n) PROVE ValidateNode(q[1], q[2], f) = ValidateNode(q[1], q[2], h)
    <3>1. \A part \in Parts(q[1], q[2]) : part \in Below(n - 1)
      BY PartsAreShallower
    <3> HIDE DEF h, Below
    <3>2. \A part \in Parts(q[1], q[2]) : f[part] = h[part]
      BY <2>2, <3>1
    <3> QED
      BY <3>2, NodeIsLocal
  <2>4. Upto(h, n)
    <3> DEFINE k == [q \in Below(n) |-> ValidateNode(q[1], q[2], h)]
    <3>1. \A q \in Below(n) : ValidateNode(q[1], q[2], f) = ValidateNode(q[1], q[2], h)
      BY <2>3
    <3> HIDE DEF Below
    <3>2. h = [q \in Below(n) |-> ValidateNode(q[1], q[2], h)]
      <4> SUFFICES h = k
        OBVIOUS
      <4>1. \A q \in Below(n) : h[q] = k[q]
        <5> SUFFICES ASSUME NEW q \in Below(n) PROVE h[q] = k[q]
          OBVIOUS
        <5>1. k[q] = ValidateNode(q[1], q[2], h)
          <6> HIDE DEF h
          <6> QED
            OBVIOUS
        <5>2. h[q] = ValidateNode(q[1], q[2], f)
          OBVIOUS
        <5> QED
          BY <3>1, <5>1, <5>2, Zenon
      <4>2. DOMAIN h = Below(n) /\ DOMAIN k = Below(n)
        OBVIOUS
      <4>3. h = [q \in Below(n) |-> h[q]] /\ k = [q \in Below(n) |-> k[q]]
        OBVIOUS
      <4> HIDE DEF h, k
      <4> QED
        BY <4>1, <4>3
    <3> QED
      BY <3>2
  <2> HIDE DEF Upto
  <2> QED
    BY <2>4
<1>4. \E f : Upto(f, top)
  <2> HIDE DEF Upto, top
  <2>1. good = 0 .. top
    BY <1>1, <1>2, <1>3, NoFirstFailure
  <2>2. top \in good
    BY <1>1, <2>1
  <2> QED
    BY <2>2
<1>5. Below(top) = Values \X Schemas
  BY SchemaAssumption
<1>6. \E f : f = [q \in Values \X Schemas |-> ValidateNode(q[1], q[2], f)]
  <2> HIDE DEF Below, top
  <2> QED
    BY <1>4, <1>5
<1>7. Valid = [q \in Values \X Schemas |-> ValidateNode(q[1], q[2], Valid)]
  BY <1>6, Zenon DEF Valid
<1> QED
  BY <1>7

(* And so is what a value reaches.                                          *)
ReachNode(p, f) == {p} \cup UNION {f[part] : part \in Parts(p[1], p[2])}

LEMMA ReachedIs ==
  ASSUME NEW p \in Values \X Schemas
  PROVE  Reached[p] = ReachNode(p, Reached)
<1> DEFINE Below(n) == {q \in Values \X Schemas : Depth(q[2]) < n}
           Upto(f, n) == f = [q \in Below(n) |-> ReachNode(q, f)]
           top == MaxDepth + 1
           good == {n \in 0 .. top : \E f : Upto(f, n)}
<1>1. top \in Nat
  BY SchemaAssumption
<1>2. 0 \in good
  <2>1. Below(0) = {}
    BY SchemaAssumption
  <2>2. Upto([q \in {} |-> TRUE], 0)
    BY <2>1
  <2> HIDE DEF Upto
  <2> QED
    BY <1>1, <2>2
<1>3. ASSUME NEW n \in 1 .. top, n - 1 \in good PROVE n \in good
  <2>1. PICK f : Upto(f, n - 1)
    BY <1>3
  <2> DEFINE h == [q \in Below(n) |-> ReachNode(q, f)]
  <2>2. \A q \in Below(n - 1) : q \in Below(n) /\ f[q] = h[q]
    <3>1. \A q \in Below(n - 1) : f[q] = ReachNode(q, f)
      BY <2>1
    <3>2. Below(n - 1) \subseteq Below(n)
      BY SchemaAssumption
    <3> QED
      BY <3>1, <3>2
  <2>3. ASSUME NEW q \in Below(n) PROVE ReachNode(q, f) = ReachNode(q, h)
    <3>1. \A part \in Parts(q[1], q[2]) : part \in Below(n - 1)
      BY PartsAreShallower
    <3> HIDE DEF h, Below
    <3>2. \A part \in Parts(q[1], q[2]) : f[part] = h[part]
      BY <2>2, <3>1
    <3> QED
      BY <3>2 DEF ReachNode
  <2>4. Upto(h, n)
    <3> DEFINE k == [q \in Below(n) |-> ReachNode(q, h)]
    <3>1. \A q \in Below(n) : ReachNode(q, f) = ReachNode(q, h)
      BY <2>3
    <3> HIDE DEF Below
    <3>2. h = [q \in Below(n) |-> ReachNode(q, h)]
      <4> SUFFICES h = k
        OBVIOUS
      <4>1. \A q \in Below(n) : h[q] = k[q]
        <5> SUFFICES ASSUME NEW q \in Below(n) PROVE h[q] = k[q]
          OBVIOUS
        <5>1. k[q] = ReachNode(q, h)
          <6> HIDE DEF h
          <6> QED
            OBVIOUS
        <5>2. h[q] = ReachNode(q, f)
          OBVIOUS
        <5> QED
          BY <3>1, <5>1, <5>2, Zenon
      <4>2. DOMAIN h = Below(n) /\ DOMAIN k = Below(n)
        OBVIOUS
      <4>3. h = [q \in Below(n) |-> h[q]] /\ k = [q \in Below(n) |-> k[q]]
        OBVIOUS
      <4> HIDE DEF h, k
      <4> QED
        BY <4>1, <4>3
    <3> QED
      BY <3>2
  <2> HIDE DEF Upto
  <2> QED
    BY <2>4
<1>4. \E f : Upto(f, top)
  <2> HIDE DEF Upto, top
  <2>1. good = 0 .. top
    BY <1>1, <1>2, <1>3, NoFirstFailure
  <2>2. top \in good
    BY <1>1, <2>1
  <2> QED
    BY <2>2
<1>5. Below(top) = Values \X Schemas
  BY SchemaAssumption
<1>6. \E f : f = [q \in Values \X Schemas |-> ReachNode(q, f)]
  <2> HIDE DEF Below, top
  <2> QED
    BY <1>4, <1>5
<1>7. Reached = [q \in Values \X Schemas |-> ReachNode(q, Reached)]
  BY <1>6, Zenon DEF Reached, ReachNode
<1> QED
  BY <1>7

(* One node: it is right when it is as its schema says and its parts are.   *)
LEMMA NodeConforms ==
  ASSUME NEW v \in Values, NEW s \in Schemas, NEW f
  PROVE  ValidateNode(v, s, f) <=> Conforms(v, s) /\ \A part \in Parts(v, s) : f[part]
<1>1. CASE s.type = "array"
  <2>1. CASE v.is = "array"
    <3>1. (\A part \in Parts(v, s) : f[part]) <=> \A i \in DOMAIN v.items : f[<<v.items[i], s.items>>]
      BY <1>1, <2>1 DEF Parts
    <3> QED
      BY <1>1, <2>1, <3>1 DEF ValidateNode, Conforms
  <2>2. CASE v.is # "array"
    BY <1>1, <2>2 DEF ValidateNode, Conforms
  <2> QED
    BY <2>1, <2>2
<1>2. CASE s.type = "object"
  <2>1. CASE v.is = "object"
    <3>1. (\A part \in Parts(v, s) : f[part])
            <=> \A k \in DOMAIN v.props \cap Named(s) : f[<<v.props[k], PropSchema(s, k)>>]
      BY <1>2, <2>1 DEF Parts
    <3>2. ValidateNode(v, s, f) <=> ValidateProps(v.props, s, f)
      BY <1>2, <2>1 DEF ValidateNode
    <3>3. Conforms(v, s) <=> /\ s.required \subseteq DOMAIN v.props \cup Inherited
                             /\ s.closed => DOMAIN v.props \subseteq Named(s)
      BY <1>2, <2>1 DEF Conforms
    <3> QED
      BY <3>1, <3>2, <3>3, Zenon DEF ValidateProps
  <2>2. CASE v.is # "object"
    BY <1>2, <2>2 DEF ValidateNode, Conforms
  <2> QED
    BY <2>1, <2>2
<1>3. CASE s.type \notin {"array", "object"}
  <2>1. Parts(v, s) = {}
    BY <1>3 DEF Parts
  <2>2. CASE s.type = "string"
    <3>1. (v.is = "string" /\ s.min <= v.len /\ v.len <= s.max) <=> v \in {Str(n) : n \in s.min .. s.max}
      <4>1. ASSUME v.is = "string" PROVE v.len \in Nat /\ v = Str(v.len) /\ s.min \in Nat /\ s.max \in Nat
        BY <2>2, <4>1, SchemaAssumption
      <4>2. ASSUME NEW n \in s.min .. s.max, v = Str(n)
            PROVE  v.is = "string" /\ v.len = n
        BY <4>2 DEF Str
      <4>3. s.min \in Nat /\ s.max \in Nat
        BY <2>2, SchemaAssumption
      <4> QED
        BY <4>1, <4>2, <4>3
    <3> QED
      BY <2>1, <2>2, <3>1 DEF ValidateNode, Conforms
  <2>3. CASE s.type # "string"
    BY <1>3, <2>1, <2>3 DEF ValidateNode, Conforms
  <2> QED
    BY <2>2, <2>3
<1> QED
  BY <1>1, <1>2, <1>3

(* For values and schemas of any size, the gate lets through what conforms  *)
(* to its schema at every depth, and nothing else (validate.ts:24-105):     *)
(* the names a closed schema has are those it declares and those every      *)
(* object inherits, the latter for objects of any kind (:61), and an        *)
(* inherited name is never missing (:52).                                   *)
THEOREM GateIsExact ==
  ASSUME NEW v \in Values, NEW s \in Schemas
  PROVE  Validate(v, s) <=> AsDeclared(v, s)
<1> DEFINE Right(p) == \A part \in Reached[p] : Conforms(part[1], part[2])
           Below(n) == {q \in Values \X Schemas : Depth(q[2]) < n}
           top == MaxDepth + 1
           good == {n \in 0 .. top : \A p \in Below(n) : Valid[p] <=> Right(p)}
<1>1. ASSUME NEW p \in Values \X Schemas
      PROVE  Right(p) <=> Conforms(p[1], p[2]) /\ \A part \in Parts(p[1], p[2]) : Right(part)
  <2>1. Reached[p] = {p} \cup UNION {Reached[part] : part \in Parts(p[1], p[2])}
    BY ReachedIs DEF ReachNode
  <2> QED
    BY <2>1
<1>2. ASSUME NEW p \in Values \X Schemas
      PROVE  Valid[p] <=> Conforms(p[1], p[2]) /\ \A part \in Parts(p[1], p[2]) : Valid[part]
  BY ValidIs, NodeConforms
<1>3. 0 \in good
  BY SchemaAssumption
<1>4. ASSUME NEW n \in 1 .. top, n - 1 \in good PROVE n \in good
  <2> SUFFICES ASSUME NEW p \in Below(n) PROVE Valid[p] <=> Right(p)
    BY SchemaAssumption
  <2>1. ASSUME NEW part \in Parts(p[1], p[2]) PROVE Valid[part] <=> Right(part)
    <3>1. part \in Below(n - 1)
      BY PartsAreShallower
    <3> HIDE DEF Right, Below
    <3> QED
      BY <1>4, <3>1
  <2> HIDE DEF Right
  <2> QED
    BY <1>1, <1>2, <2>1
<1>5. top \in good
  <2>1. top \in Nat
    BY SchemaAssumption
  <2> HIDE DEF top, Right, Below
  <2>2. good = 0 .. top
    BY <1>3, <1>4, <2>1, NoFirstFailure
  <2> QED
    BY <2>1, <2>2
<1>6. <<v, s>> \in Below(top)
  BY SchemaAssumption
<1>7. Valid[<<v, s>>] <=> Right(<<v, s>>)
  <2> HIDE DEF Right, Below, top
  <2> QED
    BY <1>5, <1>6
<1> QED
  BY <1>7 DEF Validate, AsDeclared

----------------------------------------------------------------------------
(* One fetch *)

LEMMA StartsAfresh ==
  ASSUME NEW o, NEW headers, StartFetch(o, headers)
  PROVE  FetchInv'
<1>1. /\ DOMAIN fetch' = {"pc", "at", "home", "headers", "redirects", "bytes", "status"}
      /\ fetch'.pc = "gate" /\ fetch'.redirects = 0
  BY DEF StartFetch, NoFetch
<1>2. sent'.count = 0 /\ sent'.headers = FALSE
  BY DEF StartFetch, NoRequest
<1> QED
  BY <1>1, <1>2, FetchAssumption DEF FetchInv

LEMMA RestsOK ==
  ASSUME fetch' = NoFetch, sent' = NoRequest
  PROVE  FetchInv'
<1>1. /\ DOMAIN fetch' = {"pc", "at", "home", "headers", "redirects", "bytes", "status"}
      /\ fetch'.pc = "none" /\ fetch'.redirects = 0
  BY DEF NoFetch
<1>2. sent'.count = 0 /\ sent'.headers = FALSE
  BY DEF NoRequest
<1> QED
  BY <1>1, <1>2, FetchAssumption DEF FetchInv

LEMMA HopsCount ==
  ASSUME FetchInv, \/ \E found : Gate(found)
                   \/ Request \/ Server \/ Breaks
  PROVE  FetchInv'
<1>1. ASSUME UNCHANGED sent, DOMAIN fetch' = DOMAIN fetch, fetch'.home = fetch.home,
             fetch'.redirects \in 0 .. MaxRedirects,
             fetch'.pc # "waiting", fetch'.pc \in {"gate", "request"} => sent.count = fetch'.redirects
      PROVE  FetchInv'
  BY <1>1, FetchAssumption DEF FetchInv
<1>2. CASE Request
  <2>1. /\ DOMAIN fetch' = DOMAIN fetch /\ fetch'.home = fetch.home /\ fetch'.redirects = fetch.redirects
        /\ fetch'.pc = "waiting" /\ fetch.pc = "request"
    BY <1>2 DEF Request, FetchInv
  <2>2. sent'.count = sent.count + 1 /\ sent'.to = fetch.at /\ sent'.headers = Carries
    BY <1>2 DEF Request
  <2>3. sent.count = fetch.redirects
    BY <2>1 DEF FetchInv
  <2>4. sent'.headers => sent'.to = fetch'.home
    BY <2>1, <2>2, Zenon DEF Carries
  <2> QED
    BY <2>1, <2>2, <2>3, <2>4, FetchAssumption DEF FetchInv
<1>3. CASE \E found : Gate(found)
  <2>1. /\ UNCHANGED sent /\ fetch.pc = "gate"
        /\ fetch' = [fetch EXCEPT !.pc = "request"] \/ fetch' = [fetch EXCEPT !.pc = "failed"]
    BY <1>3 DEF Gate, Fails
  <2>2. /\ DOMAIN fetch' = DOMAIN fetch /\ fetch'.home = fetch.home /\ fetch'.redirects = fetch.redirects
    BY <2>1 DEF FetchInv
  <2> QED
    BY <1>1, <2>1, <2>2 DEF FetchInv
<1>4. CASE \E o \in Origins : Redirect(o)
  <2>1. PICK o \in Origins : Redirect(o)
    BY <1>4
  <2>2. CASE fetch' = [fetch EXCEPT !.pc = "failed"]
    <3>1. /\ DOMAIN fetch' = DOMAIN fetch /\ fetch'.home = fetch.home /\ fetch'.redirects = fetch.redirects
          /\ fetch'.pc = "failed" /\ UNCHANGED sent
      BY <2>1, <2>2 DEF FetchInv, Redirect, Fails
    <3> QED
      BY <1>1, <3>1 DEF FetchInv
  <2>3. CASE fetch.redirects < MaxRedirects
    <3>1. /\ UNCHANGED sent /\ fetch' = [fetch EXCEPT !.pc = "gate", !.at = o, !.redirects = @ + 1]
          /\ fetch.pc = "waiting"
      BY <2>1, <2>3 DEF Redirect
    <3>2. /\ DOMAIN fetch' = DOMAIN fetch /\ fetch'.home = fetch.home /\ fetch'.redirects = fetch.redirects + 1
      BY <3>1 DEF FetchInv
    <3> QED
      BY <1>1, <2>3, <3>1, <3>2, FetchAssumption DEF FetchInv
  <2> QED
    BY <2>1, <2>2, <2>3 DEF Redirect, Fails
<1>5. CASE RedirectNowhere \/ (\E s \in Statuses : Headers(s)) \/ Chunk \/ BodyEnds \/ Breaks
  <2>1. /\ UNCHANGED sent
        /\ DOMAIN fetch' = DOMAIN fetch /\ fetch'.home = fetch.home /\ fetch'.redirects = fetch.redirects
        /\ fetch'.pc \in {"done", "reading", "failed"}
    BY <1>5 DEF RedirectNowhere, Headers, Chunk, BodyEnds, Breaks, Fails, FetchInv
  <2> QED
    BY <1>1, <2>1 DEF FetchInv
<1> QED
  BY <1>2, <1>3, <1>4, <1>5 DEF Server

----------------------------------------------------------------------------
(* What the adapters keep *)

LEMMA CallsAre ==
  ASSUME NEW b \in Blocks, b.kind = "call"
  PROVE  b \in CallOf
<1>1. b = [kind |-> "call", name |-> b.name, id |-> b.id, sig |-> b.sig]
  BY RunAssumption
<1>2. b.name \in FieldValues("name") /\ b.id \in FieldValues("id") /\ b.sig \in FieldValues("sig")
  BY DEF FieldValues
<1> QED
  BY <1>1, <1>2 DEF CallOf

LEMMA ChosenCallsAre ==
  ASSUME WireTypeOK, NEW answer \in Answers
  PROVE  /\ Chosen(answer).kind \in {"text", "call", "broken", "junk"}
         /\ Chosen(answer).kind = "call" => Chosen(answer) \in CallOf
<1>1. DOMAIN answer \subseteq 1 .. 2 /\ \A i \in DOMAIN answer : answer[i] \in Blocks
  BY DEF Answers
<1>2. ASSUME NEW at \in SUBSET DOMAIN answer
      PROVE  FirstOf(answer, at) \in Blocks \cup {Junk}
  <2>1. at # {} => \E i \in at : \A j \in at : i <= j
    <3>1. CASE 1 \in at
      BY <1>1, <3>1
    <3>2. CASE 1 \notin at
      BY <1>1, <3>2
    <3> QED
      BY <3>1, <3>2
  <2> QED
    BY <1>1, <2>1 DEF FirstOf
<1>3. \A kinds : Of(answer, kinds) \in SUBSET DOMAIN answer
  BY DEF Of
<1>4. Chosen(answer) \in Blocks \cup {Junk}
  BY <1>2, <1>3 DEF WireTypeOK, Chosen, ParseOpenAiResponse, ParseGeminiResponse, ParseAnthropicResponse
<1>5. Junk.kind = "junk"
  BY DEF Junk
<1> QED
  BY <1>4, <1>5, CallsAre, RunAssumption

LEMMA KeptAgrees ==
  ASSUME WireTypeOK, NEW call \in CallOf
  PROVE  KeptCall(call) \in CallOf /\ KeptCall(call).name = call.name /\ Agree(provider, KeptCall(call), call)
<1>1. Absent \in FieldValues("id") /\ Absent \in FieldValues("sig")
  BY DEF FieldValues
<1> QED
  BY <1>1 DEF WireTypeOK, KeptCall, CallOf, Agree, Identifying

LEMMA WireItemAgrees ==
  ASSUME WireTypeOK, NEW item \in ItemOf
  PROVE  /\ WireItem(item).kind = item.kind
         /\ \A call : Agree(provider, item, call) => Agree(provider, WireItem(item), call)
  BY DEF WireTypeOK, WireItem, ToChatMessage, ToGeminiContents, ToTextMessages, ItemOf, Agree, Identifying

----------------------------------------------------------------------------
(* The steps of the run *)

LEMMA LeavesWork ==
  ASSUME DOMAIN run = {"pc", "turns", "call", "args", "expression", "fetches"}, NEW pc, Leave(pc)
  PROVE  run'.pc = pc /\ DOMAIN run' = DOMAIN run
  BY DEF Leave, Idle

(* A step that adds no message and no call, and starts or ends no tool.     *)
LEMMA RunRests ==
  ASSUME RunInv, UNCHANGED <<provider, messages, wire, issued>>, DOMAIN run' = DOMAIN run,
         \/ ~ AtWork /\ ~ AtWork'
         \/ AtWork /\ AtWork' /\ run'.call = run.call /\ run'.args = run.args
  PROVE  RunInv'
<1>1. WireTypeOK'
  BY DEF RunInv, WireTypeOK
<1>2. CallInv'
  BY DEF RunInv, CallInv, Agree, Offered, ToolInUse
<1>3. MessagesInv' /\ WireInv'
  BY DEF RunInv, MessagesInv, WireInv, Pair, Agree
<1> QED
  BY <1>1, <1>2, <1>3 DEF RunInv

LEMMA CompleteOK ==
  ASSUME RunInv, Complete
  PROVE  RunInv'
<1>1. CASE Unsendable
  <2>1. Leave("provider-failure") /\ UNCHANGED <<provider, messages, wire, issued>> /\ run.pc = "loop"
    BY <1>1 DEF Complete
  <2> QED
    BY <2>1, LeavesWork, RunRests DEF RunInv, WireTypeOK, AtWork
<1>2. CASE ~ Unsendable
  <2>1. /\ wire' = [i \in DOMAIN messages |-> WireItem(messages[i])] /\ run' = [run EXCEPT !.pc = "sent"]
        /\ UNCHANGED <<provider, messages, issued>> /\ run.pc = "loop"
    BY <1>2 DEF Complete
  <2>2. DOMAIN run' = DOMAIN run /\ ~ AtWork /\ ~ AtWork'
    BY <2>1 DEF RunInv, WireTypeOK, AtWork
  <2>3. /\ Len(messages) \in Nat /\ Len(issued) \in Nat /\ Len(messages) = 2 * Len(issued)
        /\ DOMAIN messages = 1 .. Len(messages) /\ \A i \in 1 .. Len(messages) : messages[i] \in ItemOf
    BY <2>2, LenProperties DEF RunInv, WireTypeOK, CallInv
  <2>4. Len(wire') = Len(messages)
    BY <2>1, <2>3
  <2>5. ASSUME NEW k \in 1 .. Len(messages) \div 2
        PROVE  Pair(provider, wire'[2 * k - 1], wire'[2 * k], issued[k])
    <3>1. k \in 1 .. Len(issued) /\ 2 * k <= Len(messages)
      BY <2>3
    <3>2. 2 * k - 1 \in DOMAIN messages /\ 2 * k \in DOMAIN messages
      BY <2>3, <3>1
    <3>3. Pair(provider, messages[2 * k - 1], messages[2 * k], issued[k])
      BY <3>1 DEF RunInv, MessagesInv
    <3>4. wire'[2 * k - 1] = WireItem(messages[2 * k - 1]) /\ wire'[2 * k] = WireItem(messages[2 * k])
      BY <2>1, <3>2
    <3>5. messages[2 * k - 1] \in ItemOf /\ messages[2 * k] \in ItemOf
      BY <2>3, <3>2
    <3> QED
      BY <3>3, <3>4, <3>5, WireItemAgrees DEF RunInv, Pair
  <2>6. WireInv'
    <3>1. Len(messages) % 2 = 0 /\ UNCHANGED <<provider, messages, issued>>
      BY <2>1, <2>3
    <3> QED
      BY <2>3, <2>4, <2>5, <3>1 DEF WireInv
  <2>7. WireTypeOK'
    BY <2>1, <2>2 DEF RunInv, WireTypeOK
  <2>8. CallInv'
    BY <2>1, <2>2 DEF RunInv, CallInv
  <2>9. MessagesInv'
    BY <2>1 DEF RunInv, MessagesInv, Pair, Agree
  <2> QED
    BY <2>6, <2>7, <2>8, <2>9 DEF RunInv
<1> QED
  BY <1>1, <1>2

(* The call taken up is the newest, and no request speaks of it yet.        *)
LEMMA TakeOK ==
  ASSUME RunInv, NEW call \in CallOf, NEW args \in Arguments, run.pc = "sent", Admitted(call, args), Take(call, args),
         UNCHANGED <<provider, messages, wire>>
  PROVE  RunInv'
<1>1. PICK e : run' = [run EXCEPT !.pc = "tool", !.turns = @ + 1, !.call = KeptCall(call), !.args = args,
                                  !.expression = e]
  BY DEF Take
<1>2. /\ DOMAIN run' = DOMAIN run /\ run'.pc = "tool" /\ run'.call = KeptCall(call) /\ run'.args = args
  BY <1>1 DEF RunInv, WireTypeOK
<1>3. /\ Len(issued) \in Nat /\ Len(messages) = 2 * Len(issued) /\ Len(wire) <= Len(messages) /\ Len(wire) \in Nat
  BY LenProperties DEF RunInv, WireTypeOK, CallInv, WireInv, AtWork
<1>4. /\ issued' \in Seq(CallOf) /\ Len(issued') = Len(issued) + 1 /\ issued'[Len(issued')] = call
      /\ \A k \in 1 .. Len(issued) : issued'[k] = issued[k]
  BY AppendProperties DEF Take, RunInv, WireTypeOK
<1>5. KeptCall(call) \in CallOf /\ KeptCall(call).name = call.name /\ Agree(provider, KeptCall(call), call)
  BY KeptAgrees DEF RunInv
<1>6. WireTypeOK'
  BY <1>2, <1>4 DEF RunInv, WireTypeOK
<1>7. CallInv'
  BY <1>2, <1>3, <1>4, <1>5 DEF CallInv, AtWork, Agree, Admitted, Offered, ToolInUse
<1>8. MessagesInv'
  <2> SUFFICES ASSUME NEW k \in 1 .. Len(issued'), 2 * k <= Len(messages)
               PROVE  Pair(provider, messages[2 * k - 1], messages[2 * k], issued'[k])
    BY DEF MessagesInv
  <2>1. k \in 1 .. Len(issued) /\ issued'[k] = issued[k]
    BY <1>3, <1>4
  <2> QED
    BY <2>1 DEF RunInv, MessagesInv, Pair, Agree
<1>9. WireInv'
  <2> SUFFICES ASSUME NEW k \in 1 .. Len(wire) \div 2
               PROVE  Pair(provider, wire[2 * k - 1], wire[2 * k], issued'[k])
    BY DEF RunInv, WireInv
  <2>1. k \in 1 .. Len(issued)
    BY <1>3
  <2> QED
    BY <1>4, <2>1 DEF RunInv, WireInv, Pair, Agree
<1> QED
  BY <1>6, <1>7, <1>8, <1>9 DEF RunInv

(* The pair that goes back is the newest call's.                            *)
LEMMA FeedBackOK ==
  ASSUME RunInv, AtWork, NEW outcome \in {"result", "error"}, FeedBack(outcome),
         UNCHANGED <<provider, wire, issued>>
  PROVE  RunInv'
<1> DEFINE a == [kind |-> "call", name |-> run.call.name, id |-> run.call.id, sig |-> run.call.sig]
           b == [kind |-> outcome, name |-> run.call.name, id |-> run.call.id, sig |-> run.call.sig]
           pair == <<a, b>>
           n == Len(messages)
<1>1. messages' = messages \o pair /\ Leave("loop")
  BY DEF FeedBack
<1>2. /\ run.call \in CallOf /\ Agree(provider, run.call, issued[Len(issued)]) /\ Len(issued) \in Nat
      /\ Len(issued) >= 1 /\ n = 2 * Len(issued) - 2 /\ n \in Nat
  BY LenProperties DEF RunInv, WireTypeOK, CallInv
<1>3. /\ a \in ItemOf /\ b \in ItemOf /\ Pair(provider, a, b, issued[Len(issued)])
  BY <1>2 DEF CallOf, ItemOf, Pair, Agree, RunInv, WireTypeOK, Identifying
<1> HIDE DEF a, b
<1>4. pair \in Seq(ItemOf) /\ Len(pair) = 2 /\ pair[1] = a /\ pair[2] = b
  BY <1>3
<1> HIDE DEF pair
<1>5. /\ messages' \in Seq(ItemOf) /\ Len(messages') = n + 2
      /\ \A i \in 1 .. n : messages'[i] = messages[i]
      /\ messages'[n + 1] = a /\ messages'[n + 2] = b
  <2>1. /\ messages' \in Seq(ItemOf) /\ Len(messages') = n + 2
        /\ \A i \in 1 .. n + 2 : messages'[i] = IF i <= n THEN messages[i] ELSE pair[i - n]
    <3>1. messages \in Seq(ItemOf)
      BY DEF RunInv, WireTypeOK
    <3>2. /\ messages \o pair \in Seq(ItemOf) /\ Len(messages \o pair) = n + Len(pair)
          /\ \A i \in 1 .. n + Len(pair) : (messages \o pair)[i] = IF i <= n THEN messages[i] ELSE pair[i - n]
      BY <1>4, <3>1, ConcatProperties
    <3> QED
      BY <1>1, <1>4, <3>2
  <2>2. messages'[n + 1] = pair[1] /\ messages'[n + 2] = pair[2]
    <3>1. n + 1 \in 1 .. n + 2 /\ n + 2 \in 1 .. n + 2 /\ (n + 1) - n = 1 /\ (n + 2) - n = 2
      BY <1>2
    <3> QED
      BY <1>2, <2>1, <3>1
  <2>3. \A i \in 1 .. n : messages'[i] = messages[i]
    BY <1>2, <2>1
  <2> QED
    BY <1>4, <2>1, <2>2, <2>3
<1>6. run'.pc = "loop" /\ DOMAIN run' = DOMAIN run
  BY <1>1, LeavesWork DEF RunInv, WireTypeOK
<1>7. WireTypeOK'
  BY <1>5, <1>6 DEF RunInv, WireTypeOK
<1>8. CallInv'
  BY <1>2, <1>5, <1>6 DEF CallInv, AtWork
<1>9. MessagesInv'
  <2> SUFFICES ASSUME NEW k \in 1 .. Len(issued)
               PROVE  Pair(provider, messages'[2 * k - 1], messages'[2 * k], issued[k])
    BY <1>5 DEF MessagesInv, Pair, Agree
  <2>1. CASE k = Len(issued)
    <3>1. 2 * k - 1 = n + 1 /\ 2 * k = n + 2
      BY <1>2, <2>1
    <3> QED
      BY <1>3, <1>5, <2>1, <3>1
  <2>2. CASE k # Len(issued)
    <3>1. 2 * k <= n /\ 2 * k - 1 \in 1 .. n /\ 2 * k \in 1 .. n
      BY <1>2, <2>2
    <3>2. messages'[2 * k - 1] = messages[2 * k - 1] /\ messages'[2 * k] = messages[2 * k]
      BY <1>5, <3>1
    <3> QED
      BY <3>1, <3>2 DEF RunInv, MessagesInv
  <2> QED
    BY <2>1, <2>2
<1>10. WireInv'
  BY <1>2, <1>5 DEF RunInv, WireInv, Pair, Agree
<1> QED
  BY <1>7, <1>8, <1>9, <1>10 DEF RunInv

LEMMA RunStepsOK ==
  ASSUME RunInv, FetchInv, [WireNext]_wireVars
  PROVE  RunInv' /\ FetchInv'
<1>0. DOMAIN run = {"pc", "turns", "call", "args", "expression", "fetches"}
  BY DEF RunInv, WireTypeOK
<1>1. UNCHANGED fetchVars => FetchInv'
  BY DEF fetchVars, FetchInv
<1>2. UNCHANGED runVars => RunInv'
  <2> SUFFICES ASSUME UNCHANGED runVars PROVE RunInv'
    OBVIOUS
  <2>1. UNCHANGED <<provider, messages, wire, issued, run>>
    BY DEF runVars
  <2> QED
    BY <2>1, RunRests DEF AtWork
<1>3. CASE Complete
  BY <1>1, <1>3, CompleteOK DEF Complete
<1>4. CASE TurnLimit \/ CompleteFails
  <2>1. /\ Leave("turn-limit") \/ Leave("provider-failure")
        /\ UNCHANGED <<provider, messages, wire, issued, fetchVars>> /\ run.pc \in {"loop", "sent"}
    BY <1>4 DEF TurnLimit, CompleteFails
  <2>2. DOMAIN run' = DOMAIN run /\ ~ AtWork /\ ~ AtWork'
    BY <1>0, <2>1, LeavesWork DEF AtWork
  <2> QED
    BY <1>1, <2>1, <2>2, RunRests
<1>5. ASSUME NEW answer \in Answers, Answer(Chosen(answer))
      PROVE  RunInv' /\ FetchInv'
  <2> DEFINE block == Chosen(answer)
  <2>1. run.pc = "sent" /\ UNCHANGED <<provider, messages, wire, fetchVars>>
    BY <1>5 DEF Answer
  <2>2. CASE UNCHANGED issued /\ \E pc \in {"provider-failure", "converged", "refused"} : Leave(pc)
    <3>1. DOMAIN run' = DOMAIN run /\ ~ AtWork /\ ~ AtWork'
      BY <1>0, <2>1, <2>2, LeavesWork DEF AtWork
    <3> QED
      BY <1>1, <2>1, <2>2, <3>1, RunRests
  <2>3. CASE block.kind = "call" /\ \E args \in Arguments : Admitted(block, args) /\ Take(block, args)
    <3>1. block \in CallOf
      BY <2>3, ChosenCallsAre DEF RunInv
    <3> HIDE DEF block
    <3> QED
      BY <1>1, <2>1, <2>3, <3>1, TakeOK
  <2>4. block.kind \in {"text", "call", "broken", "junk"}
    BY ChosenCallsAre DEF RunInv
  <2> QED
    BY <1>5, <2>2, <2>3, <2>4 DEF Answer
<1>6. CASE Calculate \/ ReadStorage
  <2>1. /\ \E outcome \in {"result", "error"} : FeedBack(outcome)
        /\ UNCHANGED <<provider, wire, issued, fetchVars>> /\ AtWork
    BY <1>6 DEF Calculate, ReadStorage, AtWork
  <2> QED
    BY <1>1, <2>1, FeedBackOK
<1>7. ASSUME NEW o, BeginFetch(o), AtWork, UNCHANGED <<provider, wire, issued, messages>>
      PROVE  RunInv' /\ FetchInv'
  <2>1. run' = [run EXCEPT !.pc = "fetch", !.fetches = @ + 1] /\ StartFetch(o, ToolInUse.headers)
    BY <1>7 DEF BeginFetch
  <2>2. DOMAIN run' = DOMAIN run /\ run'.pc = "fetch" /\ run'.call = run.call /\ run'.args = run.args
    BY <1>0, <2>1
  <2> QED
    BY <1>7, <2>1, <2>2, StartsAfresh, RunRests DEF AtWork
<1>8. CASE RunTool
  <2>1. UNCHANGED <<provider, wire, issued>> /\ AtWork
    BY <1>8 DEF RunTool, AtWork
  <2>2. CASE BeginFetch(ToolInUse.first) /\ UNCHANGED messages
    BY <1>7, <2>1, <2>2
  <2>3. CASE FeedBack("error") /\ UNCHANGED fetchVars
    BY <1>1, <2>1, <2>3, FeedBackOK
  <2> QED
    BY <1>8, <2>2, <2>3 DEF RunTool
<1>9. ASSUME NEW usable \in BOOLEAN, FetchEnds(usable)
      PROVE  RunInv' /\ FetchInv'
  <2>1. UNCHANGED <<provider, wire, issued>> /\ AtWork
    BY <1>9 DEF FetchEnds, AtWork
  <2>2. CASE BeginFetch(ToolInUse.second) /\ UNCHANGED messages
    BY <1>7, <2>1, <2>2
  <2>3. CASE (\E outcome \in Outcomes(usable) : FeedBack(outcome)) /\ fetch' = NoFetch /\ sent' = NoRequest
    <3>1. Outcomes(usable) \subseteq {"result", "error"}
      BY DEF Outcomes
    <3> QED
      BY <2>1, <2>3, <3>1, FeedBackOK, RestsOK
  <2> QED
    BY <1>9, <2>2, <2>3 DEF FetchEnds
<1>10. CASE Fetch(Look) \/ Fetch(Request) \/ Fetch(Server) \/ Fetch(Breaks)
  <2>1. UNCHANGED runVars /\ (Look \/ Request \/ Server \/ Breaks)
    BY <1>10 DEF Fetch
  <2> QED
    BY <1>2, <2>1, HopsCount DEF Look
<1>11. CASE UNCHANGED wireVars
  BY <1>1, <1>2, <1>11 DEF wireVars
<1> QED
  BY <1>3, <1>4, <1>5, <1>6, <1>8, <1>9, <1>10, <1>11 DEF WireNext

LEMMA RunBegins == WireInit => RunInv /\ FetchInv
<1> SUFFICES ASSUME WireInit PROVE RunInv /\ FetchInv
  OBVIOUS
<1>1. /\ DOMAIN run = {"pc", "turns", "call", "args", "expression", "fetches"} /\ run.pc = "loop"
  BY DEF WireInit, Idle
<1>2. messages \in Seq(ItemOf) /\ issued \in Seq(CallOf) /\ Len(messages) = 0 /\ Len(issued) = 0 /\ Len(wire) = 0
  BY DEF WireInit
<1>3. WireTypeOK /\ CallInv /\ MessagesInv
  BY <1>1, <1>2, RunAssumption DEF WireInit, WireTypeOK, CallInv, AtWork, MessagesInv
<1>4. WireInv
  BY <1>2 DEF WireInv
<1>5. FetchInv
  BY FetchAssumption DEF WireInit, NoFetch, NoRequest, FetchInv
<1> QED
  BY <1>3, <1>4, <1>5 DEF RunInv

LEMMA RunInvariant == WireSpec => [](RunInv /\ FetchInv)
<1>1. (RunInv /\ FetchInv) /\ [WireNext]_wireVars => (RunInv /\ FetchInv)'
  BY RunStepsOK
<1> QED
  BY <1>1, RunBegins, PTL DEF WireSpec

(* Whatever a model writes, with any names, ids and signatures, a request   *)
(* pairs each call with its result, in the order the provider asked, under  *)
(* the fields this provider pairs by.                                       *)
THEOREM ResultsGoBackToTheirCalls == WireSpec => []ResultsArePaired
<1>1. RunInv => ResultsArePaired
  BY DEF RunInv, WireInv, Pair, Agree, ResultsArePaired
<1> QED
  BY <1>1, RunInvariant, PTL

(* Through any redirects of any servers, for any bound on them, headers     *)
(* stay with the origin they were for and requests within the bound.        *)
THEOREM HeadersStayHome == WireSpec => []FetchKeepsItsScope
<1>1. FetchInv => FetchKeepsItsScope
  BY FetchAssumption DEF FetchInv, FetchKeepsItsScope
<1> QED
  BY <1>1, RunInvariant, PTL

(* Whatever a model writes, for tools with any closed schemas, what runs    *)
(* was offered and got what its schema declares, at every depth; what the   *)
(* gate lets through besides has a name that every object inherits and      *)
(* holds a plain object (run-loop.ts:152-158, validate.ts:52, :61).         *)
THEOREM ToolsAreGated == WireSpec => []ToolsGetWhatTheyDeclare
<1>1. RunInv => ToolsGetWhatTheyDeclare
  <2> DEFINE schema == ToolInUse.schema
             root == <<run.args, schema>>
  <2> SUFFICES ASSUME RunInv, AtWork
               PROVE  /\ run.call.name \in DOMAIN Offered
                      /\ AsDeclared(run.args, schema) /\ run.args.is = "object"
                      /\ schema.required \ Inherited \subseteq DOMAIN run.args.props
                      /\ \A k \in DOMAIN run.args.props \ DOMAIN schema.props :
                           k \in Inherited /\ run.args.props[k].is = "object"
    BY DEF ToolsGetWhatTheyDeclare, AtWork
  <2>1. /\ run.call.name \in DOMAIN Offered /\ run.args \in Values /\ Validate(run.args, schema)
        /\ schema \in Schemas /\ schema.type = "object" /\ schema.closed
    BY RunAssumption DEF RunInv, CallInv, WireTypeOK, Offered, ToolInUse
  <2> HIDE DEF schema
  <2>2. AsDeclared(run.args, schema)
    BY <2>1, GateIsExact
  <2>3. Reached[root] = {root} \cup UNION {Reached[part] : part \in Parts(run.args, schema)}
    BY <2>1, ReachedIs DEF ReachNode
  <2>4. Conforms(run.args, schema)
    BY <2>2, <2>3 DEF AsDeclared
  <2>5. /\ run.args.is = "object" /\ schema.required \subseteq DOMAIN run.args.props \cup Inherited
        /\ DOMAIN run.args.props \subseteq Named(schema)
    BY <2>1, <2>4 DEF Conforms
  <2>6. ASSUME NEW k \in DOMAIN run.args.props \ DOMAIN schema.props
        PROVE  k \in Inherited /\ run.args.props[k].is = "object"
    <3> DEFINE part == <<run.args.props[k], NoSchema>>
    <3>1. k \in Inherited /\ PropSchema(schema, k) = NoSchema
      BY <2>5, <2>6 DEF Named, PropSchema
    <3>2. part \in Parts(run.args, schema)
      BY <2>1, <2>5, <3>1 DEF Parts, Named
    <3>3. part \in Values \X Schemas
      BY <2>1, <3>2, SchemaAssumption
    <3> HIDE DEF part
    <3>4. part \in Reached[part]
      BY <3>3, ReachedIs DEF ReachNode
    <3>5. part \in Reached[root]
      BY <2>3, <3>2, <3>4
    <3>6. Conforms(part[1], part[2])
      BY <2>2, <3>5 DEF AsDeclared
    <3> QED
      BY <3>1, <3>6 DEF part, Conforms, NoSchema
  <2> QED
    BY <2>1, <2>2, <2>5, <2>6
<1> QED
  BY <1>1, RunInvariant, PTL

----------------------------------------------------------------------------
(***************************************************************************)
(* The longest a run can still take. A turn is its call and at most two    *)
(* fetches, a fetch at most MaxRedirects + 1 hops, and a hop a gate, a     *)
(* request, an answer and at most MaxBytes + 2 steps of its body.          *)
(***************************************************************************)
PerHop == MaxBytes + 5
PerFetch == (MaxRedirects + 1) * PerHop
PerTurn == 2 * PerFetch + 3

HopLeft(f) ==
  CASE f.pc = "gate" -> MaxBytes + 4
    [] f.pc = "request" -> MaxBytes + 3
    [] f.pc = "waiting" -> MaxBytes + 2
    [] f.pc = "reading" -> MaxBytes - f.bytes + 1

FetchLeft(f) ==
  IF f.pc \in {"gate", "request", "waiting", "reading"}
  THEN (MaxRedirects - f.redirects) * PerHop + HopLeft(f)
  ELSE 0

TurnLeft(r, f) ==
  CASE r.pc = "sent" -> 1
    [] r.pc = "loop" -> 2
    [] OTHER -> (2 - r.fetches) * PerFetch + FetchLeft(f) + 3

StepsLeft(r, f) ==
  IF r.pc \in {"loop", "sent", "tool", "fetch"}
  THEN (MaxRunTurns - r.turns) * PerTurn + TurnLeft(r, f)
  ELSE 0

CountInv ==
  /\ run.turns \in 0 .. MaxRunTurns /\ fetch.bytes \in 0 .. MaxBytes
  /\ run.pc = "sent" => run.turns < MaxRunTurns
  /\ run.pc \in {"tool", "fetch"} => run.turns >= 1
  /\ IF run.pc = "fetch" THEN run.fetches \in {1, 2} ELSE run.fetches = 0 /\ fetch.pc = "none"

LEMMA Times ==
  ASSUME NEW a \in Nat, NEW b \in 0 .. a, NEW k \in Nat
  PROVE  a * k \in Nat /\ b * k \in Nat /\ b * k <= a * k /\ (a + 1) * k = a * k + k
<1>1. a * k \in Nat /\ b * k \in Nat /\ (a - b) * k \in Nat
  OBVIOUS
<1>2. a * k = b * k + (a - b) * k
  OBVIOUS
<1>3. (a + 1) * k = a * k + k
  OBVIOUS
<1> QED
  BY <1>1, <1>2, <1>3

LEMMA Weights == PerHop \in Nat /\ PerFetch \in Nat /\ PerTurn \in Nat /\ PerFetch = MaxRedirects * PerHop + PerHop
<1>1. PerHop \in Nat /\ MaxRedirects \in Nat
  BY FetchAssumption DEF PerHop
<1>2. MaxRedirects * PerHop \in Nat /\ (MaxRedirects + 1) * PerHop = MaxRedirects * PerHop + PerHop
  BY <1>1, Times
<1> QED
  BY <1>1, <1>2 DEF PerFetch, PerTurn

LEMMA FetchLeftIs ==
  ASSUME NEW f, f.redirects \in 0 .. MaxRedirects, f.bytes \in 0 .. MaxBytes
  PROVE  FetchLeft(f) \in Nat /\ FetchLeft(f) < PerFetch
<1>1. CASE f.pc \in {"gate", "request", "waiting", "reading"}
  <2>1. HopLeft(f) \in Nat /\ HopLeft(f) < PerHop
    BY <1>1, FetchAssumption DEF HopLeft, PerHop
  <2>2. /\ (MaxRedirects - f.redirects) * PerHop \in Nat
        /\ (MaxRedirects - f.redirects) * PerHop <= MaxRedirects * PerHop
    BY Weights, Times, FetchAssumption
  <2>3. FetchLeft(f) = (MaxRedirects - f.redirects) * PerHop + HopLeft(f)
    BY <1>1 DEF FetchLeft
  <2>4. MaxRedirects * PerHop \in Nat
    BY Weights, Times, FetchAssumption
  <2> QED
    BY <2>1, <2>2, <2>3, <2>4, Weights
<1>2. CASE f.pc \notin {"gate", "request", "waiting", "reading"}
  <2>1. PerFetch >= 5
    <3>1. MaxRedirects * PerHop \in Nat /\ PerHop >= 5
      BY Weights, Times, FetchAssumption DEF PerHop
    <3> QED
      BY <3>1, Weights
  <2> QED
    BY <1>2, <2>1, Weights DEF FetchLeft
<1> QED
  BY <1>1, <1>2

(* A step of a fetch, whatever the server does.                             *)
LEMMA FetchComesNearer ==
  ASSUME FetchInv, fetch.bytes \in 0 .. MaxBytes,
         \/ \E found : Gate(found)
         \/ Request \/ Server \/ Breaks
  PROVE  FetchLeft(fetch') < FetchLeft(fetch) /\ fetch'.bytes \in 0 .. MaxBytes
<1>0. /\ DOMAIN fetch = {"pc", "at", "home", "headers", "redirects", "bytes", "status"}
      /\ fetch.redirects \in 0 .. MaxRedirects /\ MaxBytes \in Nat /\ MaxRedirects \in Nat
  BY FetchAssumption DEF FetchInv
<1> DEFINE before == (MaxRedirects - fetch.redirects) * PerHop
           active == fetch.pc \in {"gate", "request", "waiting", "reading"}
<1>1. before \in Nat
  BY <1>0, Weights, Times
<1>2. ASSUME active PROVE FetchLeft(fetch) = before + HopLeft(fetch) /\ HopLeft(fetch) >= 1 /\ HopLeft(fetch) \in Nat
  BY <1>0, <1>2 DEF FetchLeft, HopLeft
<1>3. ASSUME active, fetch'.redirects = fetch.redirects, fetch'.bytes \in 0 .. MaxBytes,
             \/ fetch'.pc \notin {"gate", "request", "waiting", "reading"}
             \/ /\ fetch'.pc \in {"gate", "request", "waiting", "reading"}
                /\ HopLeft(fetch') < HopLeft(fetch)
      PROVE  FetchLeft(fetch') < FetchLeft(fetch) /\ fetch'.bytes \in 0 .. MaxBytes
  <2>1. CASE fetch'.pc \notin {"gate", "request", "waiting", "reading"}
    <3>1. FetchLeft(fetch') = 0
      BY <2>1 DEF FetchLeft
    <3> QED
      BY <1>1, <1>2, <1>3, <3>1
  <2>2. CASE fetch'.pc \in {"gate", "request", "waiting", "reading"} /\ HopLeft(fetch') < HopLeft(fetch)
    <3>1. FetchLeft(fetch') = before + HopLeft(fetch')
      BY <1>3, <2>2 DEF FetchLeft
    <3>2. HopLeft(fetch') \in Int
      BY <1>0, <1>3, <2>2 DEF HopLeft
    <3> HIDE DEF before
    <3> QED
      BY <1>1, <1>2, <1>3, <2>2, <3>1, <3>2
  <2> QED
    BY <1>3, <2>1, <2>2
<1>4. CASE \E found : Gate(found)
  BY <1>0, <1>3, <1>4 DEF Gate, Fails, HopLeft
<1>5. CASE Request
  BY <1>0, <1>3, <1>5 DEF Request, HopLeft
<1>6. CASE \E o \in Origins : Redirect(o)
  <2>1. PICK o \in Origins : Redirect(o)
    BY <1>6
  <2>2. CASE fetch.redirects < MaxRedirects
    <3>1. /\ fetch'.pc = "gate" /\ fetch'.redirects = fetch.redirects + 1 /\ fetch'.bytes = fetch.bytes
          /\ fetch.pc = "waiting"
      BY <1>0, <2>1, <2>2 DEF Redirect
    <3> DEFINE a == MaxRedirects - (fetch.redirects + 1)
    <3>2. a \in Nat /\ MaxRedirects - fetch.redirects = a + 1
      BY <1>0, <2>2
    <3> HIDE DEF a
    <3>3. a * PerHop \in Nat /\ before = a * PerHop + PerHop
      BY <3>2, Weights, Times
    <3>4. FetchLeft(fetch') = a * PerHop + MaxBytes + 4
      BY <1>0, <3>1, <3>3 DEF FetchLeft, HopLeft, a
    <3>5. FetchLeft(fetch) = before + MaxBytes + 2
      BY <1>0, <1>1, <3>1 DEF FetchLeft, HopLeft
    <3> HIDE DEF before
    <3> QED
      BY <1>0, <1>1, <3>1, <3>3, <3>4, <3>5, Weights DEF PerHop
  <2>3. CASE ~ (fetch.redirects < MaxRedirects)
    BY <1>0, <1>3, <2>1, <2>3 DEF Redirect, Fails
  <2> QED
    BY <2>2, <2>3
<1>7. CASE RedirectNowhere \/ BodyEnds \/ Breaks
  BY <1>0, <1>3, <1>7 DEF RedirectNowhere, BodyEnds, Breaks, Fails
<1>8. CASE \E s \in Statuses : Headers(s)
  BY <1>0, <1>3, <1>8 DEF Headers, HopLeft
<1>9. CASE Chunk
  BY <1>0, <1>3, <1>9 DEF Chunk, Fails, HopLeft
<1> QED
  BY <1>4, <1>5, <1>6, <1>7, <1>8, <1>9 DEF Server

(* What a run can still take before its turns are up.                       *)
LEMMA TurnsLeft ==
  ASSUME NEW t \in 0 .. MaxRunTurns
  PROVE  /\ (MaxRunTurns - t) * PerTurn \in Nat
         /\ t < MaxRunTurns => (MaxRunTurns - t) * PerTurn = (MaxRunTurns - (t + 1)) * PerTurn + PerTurn
<1>1. MaxRunTurns \in Nat /\ PerTurn \in Nat
  BY RunAssumption, Weights
<1>2. (MaxRunTurns - t) * PerTurn \in Nat
  BY <1>1, Times
<1>3. ASSUME t < MaxRunTurns
      PROVE  (MaxRunTurns - t) * PerTurn = (MaxRunTurns - (t + 1)) * PerTurn + PerTurn
  <2> DEFINE a == MaxRunTurns - (t + 1)
  <2>1. a \in Nat /\ MaxRunTurns - t = a + 1
    BY <1>1, <1>3
  <2> HIDE DEF a
  <2>2. (a + 1) * PerTurn = a * PerTurn + PerTurn
    BY <1>1, <2>1, Times
  <2> QED
    BY <2>1, <2>2 DEF a
<1> QED
  BY <1>2, <1>3

LEMMA RunStepsCount ==
  ASSUME RunInv, FetchInv, CountInv, WireNext
  PROVE  CountInv' /\ StepsLeft(run', fetch') < StepsLeft(run, fetch)
<1> DEFINE left == (MaxRunTurns - run.turns) * PerTurn
<1>0. /\ DOMAIN run = {"pc", "turns", "call", "args", "expression", "fetches"}
      /\ DOMAIN fetch = {"pc", "at", "home", "headers", "redirects", "bytes", "status"}
      /\ fetch.redirects \in 0 .. MaxRedirects /\ fetch.bytes \in 0 .. MaxBytes
      /\ run.turns \in 0 .. MaxRunTurns /\ MaxRunTurns \in Nat /\ MaxBytes \in Nat /\ MaxRedirects \in Nat
  BY RunAssumption, FetchAssumption DEF RunInv, WireTypeOK, FetchInv, CountInv
<1>1. left \in Nat /\ PerFetch \in Nat /\ FetchLeft(fetch) \in Nat
  BY <1>0, TurnsLeft, Weights, FetchLeftIs
<1>2. /\ run.pc = "loop" => StepsLeft(run, fetch) = left + 2
      /\ run.pc = "sent" => StepsLeft(run, fetch) = left + 1
      /\ run.pc = "tool" => StepsLeft(run, fetch) = left + 2 * PerFetch + 3
      /\ run.pc = "fetch" => /\ run.fetches \in {1, 2}
                             /\ run.fetches = 1 => StepsLeft(run, fetch) = left + PerFetch + FetchLeft(fetch) + 3
                             /\ run.fetches = 2 => StepsLeft(run, fetch) = left + FetchLeft(fetch) + 3
  <2>1. run.pc \in {"loop", "sent"} => StepsLeft(run, fetch) = left + TurnLeft(run, fetch)
    BY DEF StepsLeft
  <2>2. ASSUME run.pc \in {"tool", "fetch"}
        PROVE  StepsLeft(run, fetch) = left + ((2 - run.fetches) * PerFetch + FetchLeft(fetch) + 3)
    BY <2>2 DEF StepsLeft, TurnLeft
  <2>3. run.pc = "tool" => run.fetches = 0 /\ FetchLeft(fetch) = 0
    BY DEF CountInv, FetchLeft
  <2>4. run.pc = "fetch" => run.fetches \in {1, 2}
    BY DEF CountInv
  <2> HIDE DEF left
  <2>5. run.pc \in {"loop", "sent"} => TurnLeft(run, fetch) = IF run.pc = "loop" THEN 2 ELSE 1
    BY DEF TurnLeft
  <2> QED
    BY <1>1, <2>1, <2>2, <2>3, <2>4, <2>5
(* A step that leaves a turn without a fetch open, for the head of the loop *)
(* or for good.                                                             *)
<1>3. ASSUME NEW pc \in {"loop", "converged", "refused", "provider-failure", "turn-limit"}, Leave(pc),
             fetch'.pc = "none", fetch'.bytes \in 0 .. MaxBytes,
             run.pc \in {"loop", "sent", "tool", "fetch"}, pc = "loop" => run.pc \in {"tool", "fetch"}
      PROVE  CountInv' /\ StepsLeft(run', fetch') < StepsLeft(run, fetch)
  <2>1. run'.pc = pc /\ run'.turns = run.turns /\ run'.fetches = 0
    BY <1>3 DEF Leave, Idle
  <2>2. CountInv'
    BY <1>0, <1>3, <2>1 DEF CountInv
  <2>3. pc = "loop" => StepsLeft(run', fetch') = left + 2
    BY <2>1 DEF StepsLeft, TurnLeft
  <2>4. pc # "loop" => StepsLeft(run', fetch') = 0
    BY <1>3, <2>1 DEF StepsLeft
  <2> HIDE DEF left
  <2> QED
    BY <1>1, <1>2, <1>3, <2>2, <2>3, <2>4
<1>4. CASE Complete
  <2>1. CASE Unsendable
    BY <1>0, <1>3, <1>4, <2>1 DEF Complete, CountInv, fetchVars
  <2>2. CASE ~ Unsendable
    <3>1. /\ run' = [run EXCEPT !.pc = "sent"] /\ fetch' = fetch /\ run.pc = "loop" /\ run.turns < MaxRunTurns
      BY <1>4, <2>2 DEF Complete, fetchVars
    <3>2. run'.pc = "sent" /\ run'.turns = run.turns /\ run'.fetches = run.fetches
      BY <1>0, <3>1
    <3>3. CountInv'
      BY <3>1, <3>2 DEF CountInv
    <3>4. StepsLeft(run', fetch') = left + 1
      BY <3>2 DEF StepsLeft, TurnLeft
    <3> HIDE DEF left
    <3> QED
      BY <1>1, <1>2, <3>1, <3>3, <3>4
  <2> QED
    BY <2>1, <2>2
<1>5. CASE TurnLimit \/ CompleteFails
  BY <1>0, <1>3, <1>5 DEF TurnLimit, CompleteFails, CountInv, fetchVars
<1>6. ASSUME NEW block, block.kind \in {"text", "call", "broken", "junk"}, Answer(block)
      PROVE  CountInv' /\ StepsLeft(run', fetch') < StepsLeft(run, fetch)
  <2>1. run.pc = "sent" /\ fetch' = fetch /\ run.turns < MaxRunTurns /\ fetch.pc = "none" /\ run.fetches = 0
    BY <1>6 DEF Answer, CountInv, fetchVars
  <2>2. CASE \E pc \in {"provider-failure", "converged", "refused"} : Leave(pc)
    BY <1>0, <1>3, <2>1, <2>2
  <2>3. CASE \E args \in Arguments : Take(block, args)
    <3>1. /\ run'.pc = "tool" /\ run'.turns = run.turns + 1 /\ run'.fetches = 0
      BY <1>0, <2>1, <2>3 DEF Take
    <3>2. CountInv'
      BY <1>0, <2>1, <3>1 DEF CountInv
    <3>3. StepsLeft(run', fetch') = (MaxRunTurns - (run.turns + 1)) * PerTurn + ((2 - 0) * PerFetch + 0 + 3)
      BY <2>1, <3>1 DEF StepsLeft, TurnLeft, FetchLeft
    <3>4. left = (MaxRunTurns - (run.turns + 1)) * PerTurn + PerTurn
      BY <1>0, <2>1, TurnsLeft
    <3>5. (MaxRunTurns - (run.turns + 1)) * PerTurn \in Int
      BY <1>0, Weights
    <3> DEFINE rest == (MaxRunTurns - (run.turns + 1)) * PerTurn
    <3>6. rest \in Int /\ StepsLeft(run', fetch') = rest + (2 * PerFetch + 3) /\ left = rest + PerTurn
      BY <1>1, <3>3, <3>4, <3>5
    <3> HIDE DEF rest, left
    <3> QED
      BY <1>1, <1>2, <2>1, <3>2, <3>6 DEF PerTurn
  <2> QED
    BY <1>6, <2>2, <2>3 DEF Answer
<1>7. CASE Calculate \/ ReadStorage
  BY <1>0, <1>3, <1>7 DEF Calculate, ReadStorage, FeedBack, CountInv, fetchVars
<1>8. ASSUME NEW o, BeginFetch(o), \/ run.pc = "tool"
                                   \/ run.pc = "fetch" /\ run.fetches = 1
      PROVE  CountInv' /\ StepsLeft(run', fetch') < StepsLeft(run, fetch)
  <2>1. /\ run' = [run EXCEPT !.pc = "fetch", !.fetches = @ + 1]
        /\ fetch' = [NoFetch EXCEPT !.pc = "gate", !.at = o, !.home = o, !.headers = ToolInUse.headers]
    BY <1>8 DEF BeginFetch, StartFetch
  <2>2. fetch'.pc = "gate" /\ fetch'.bytes = 0 /\ fetch'.redirects = 0
    BY <2>1 DEF NoFetch
  <2>3. run.fetches = IF run.pc = "tool" THEN 0 ELSE 1
    BY <1>8 DEF CountInv
  <2>4. run'.pc = "fetch" /\ run'.turns = run.turns /\ run'.fetches = run.fetches + 1
    BY <1>0, <2>1
  <2>5. CountInv'
    BY <1>0, <2>2, <2>3, <2>4 DEF CountInv
  <2>6. FetchLeft(fetch') \in Nat /\ FetchLeft(fetch') < PerFetch
    BY <1>0, <2>2, FetchLeftIs
  <2>7. StepsLeft(run', fetch') = left + ((2 - run'.fetches) * PerFetch + FetchLeft(fetch') + 3)
    BY <2>4 DEF StepsLeft, TurnLeft
  <2> HIDE DEF left
  <2> QED
    BY <1>1, <1>2, <1>8, <2>3, <2>4, <2>5, <2>6, <2>7
<1>9. CASE RunTool
  <2>1. CASE BeginFetch(ToolInUse.first)
    BY <1>8, <1>9, <2>1 DEF RunTool
  <2>2. CASE FeedBack("error") /\ UNCHANGED fetchVars
    BY <1>0, <1>3, <1>9, <2>2 DEF RunTool, FeedBack, CountInv, fetchVars
  <2> QED
    BY <1>9, <2>1, <2>2 DEF RunTool
<1>10. ASSUME NEW usable \in BOOLEAN, FetchEnds(usable)
       PROVE  CountInv' /\ StepsLeft(run', fetch') < StepsLeft(run, fetch)
  <2>1. CASE Again(usable) /\ BeginFetch(ToolInUse.second)
    BY <1>8, <1>10, <2>1 DEF FetchEnds, Again
  <2>2. CASE Leave("loop") /\ fetch' = NoFetch
    BY <1>0, <1>3, <1>10, <2>2 DEF FetchEnds, NoFetch
  <2> QED
    BY <1>10, <2>1, <2>2 DEF FetchEnds, FeedBack
<1>11. CASE Fetch(Look) \/ Fetch(Request) \/ Fetch(Server) \/ Fetch(Breaks)
  <2>1. run.pc = "fetch" /\ run' = run /\ (Look \/ Request \/ Server \/ Breaks)
    BY <1>11 DEF Fetch, runVars
  <2>2. FetchLeft(fetch') < FetchLeft(fetch) /\ fetch'.bytes \in 0 .. MaxBytes
    BY <1>0, <2>1, FetchComesNearer DEF Look
  <2>3. CountInv'
    BY <2>1, <2>2 DEF CountInv
  <2>4. FetchLeft(fetch') \in Nat
    BY <1>0, <2>1, <2>2, HopsCount, FetchLeftIs DEF Look, FetchInv
  <2>5. StepsLeft(run', fetch') = left + ((2 - run.fetches) * PerFetch + FetchLeft(fetch') + 3)
    BY <2>1 DEF StepsLeft, TurnLeft
  <2> HIDE DEF left
  <2> QED
    BY <1>1, <1>2, <2>1, <2>2, <2>3, <2>4, <2>5
<1>12. \A answer \in Answers : Chosen(answer).kind \in {"text", "call", "broken", "junk"}
  BY ChosenCallsAre DEF RunInv
<1> QED
  BY <1>4, <1>5, <1>6, <1>7, <1>9, <1>10, <1>11, <1>12 DEF WireNext

(* No run goes on: from its first message to its end it takes no more steps *)
(* than this, each bringing the end nearer, whatever models write and       *)
(* servers answer, and however often they redirect (run-loop.ts:212-215,    *)
(* guards.ts:242-338). What EveryRunEnds adds is that no run stands still.  *)
THEOREM RunsAreBounded ==
  WireSpec => /\ [](StepsLeft(run, fetch) \in 0 .. MaxRunTurns * PerTurn + 2)
              /\ [][StepsLeft(run', fetch') < StepsLeft(run, fetch)]_wireVars
<1> DEFINE All == RunInv /\ FetchInv /\ CountInv
<1>1. WireInit => CountInv
  <2> SUFFICES ASSUME WireInit PROVE CountInv
    OBVIOUS
  <2>1. run.pc = "loop" /\ run.turns = 0 /\ run.fetches = 0 /\ fetch.pc = "none" /\ fetch.bytes = 0
    BY DEF WireInit, Idle, NoFetch
  <2> QED
    BY <2>1, RunAssumption, FetchAssumption DEF CountInv
<1>2. All /\ [WireNext]_wireVars => All'
  <2>1. UNCHANGED wireVars /\ CountInv => CountInv'
    BY DEF wireVars, runVars, fetchVars, CountInv
  <2> QED
    BY <2>1, RunStepsOK, RunStepsCount
<1>3. All /\ [WireNext]_wireVars => [StepsLeft(run', fetch') < StepsLeft(run, fetch)]_wireVars
  BY RunStepsCount
<1>4. All => StepsLeft(run, fetch) \in 0 .. MaxRunTurns * PerTurn + 2
  <2> SUFFICES ASSUME All PROVE StepsLeft(run, fetch) \in 0 .. MaxRunTurns * PerTurn + 2
    OBVIOUS
  <2>0. /\ run.turns \in 0 .. MaxRunTurns /\ MaxRunTurns \in Nat /\ PerTurn \in Nat
        /\ fetch.redirects \in 0 .. MaxRedirects /\ fetch.bytes \in 0 .. MaxBytes
    BY RunAssumption, Weights DEF CountInv, FetchInv
  <2> DEFINE left == (MaxRunTurns - run.turns) * PerTurn
             most == MaxRunTurns * PerTurn
  <2>1. left \in Nat /\ most \in Nat /\ left <= most
    BY <2>0, Times
  <2>2. CASE run.pc \in {"loop", "sent"}
    <3>1. StepsLeft(run, fetch) = left + IF run.pc = "loop" THEN 2 ELSE 1
      BY <2>2 DEF StepsLeft, TurnLeft
    <3> HIDE DEF left, most
    <3> QED
      BY <2>1, <3>1 DEF most
  <2>3. CASE run.pc \in {"tool", "fetch"}
    <3>1. StepsLeft(run, fetch) = left + ((2 - run.fetches) * PerFetch + FetchLeft(fetch) + 3)
      BY <2>3 DEF StepsLeft, TurnLeft
    <3>2. FetchLeft(fetch) \in Nat /\ FetchLeft(fetch) < PerFetch /\ PerFetch \in Nat
      BY <2>0, FetchLeftIs, Weights
    <3>3. (2 - run.fetches) * PerFetch + FetchLeft(fetch) + 3 <= PerTurn /\ (2 - run.fetches) * PerFetch \in Nat
      <4>1. run.pc = "tool" => run.fetches = 0 /\ FetchLeft(fetch) = 0
        BY DEF CountInv, FetchLeft
      <4>2. run.pc = "fetch" => run.fetches \in {1, 2}
        BY DEF CountInv
      <4> QED
        BY <2>3, <3>2, <4>1, <4>2 DEF PerTurn
    <3>4. left + PerTurn <= most
      <4>1. run.turns >= 1
        BY <2>3 DEF CountInv
      <4>2. (MaxRunTurns - (run.turns - 1)) * PerTurn = (MaxRunTurns - ((run.turns - 1) + 1)) * PerTurn + PerTurn
        BY <2>0, <4>1, TurnsLeft
      <4>3. (MaxRunTurns - (run.turns - 1)) * PerTurn <= most
        BY <2>0, <4>1, Times
      <4>4. (run.turns - 1) + 1 = run.turns
        BY <2>0
      <4> QED
        BY <4>2, <4>3, <4>4
    <3> HIDE DEF left, most
    <3> QED
      BY <2>0, <2>1, <3>1, <3>2, <3>3, <3>4 DEF most
  <2>4. CASE run.pc \notin {"loop", "sent", "tool", "fetch"}
    BY <2>1, <2>4 DEF StepsLeft
  <2> QED
    BY <2>2, <2>3, <2>4
<1> QED
  BY <1>1, <1>2, <1>3, <1>4, RunBegins, PTL DEF WireSpec

----------------------------------------------------------------------------
(* The calculator: its recursions end *)

(* A recursion whose calls have a rank, and whose body looks only at calls  *)
(* of lower rank as long as their values are fair, has a solution, and its  *)
(* values are fair.                                                         *)
Grounded(S, V, top, rank, body, fair) ==
  /\ V # {} /\ top \in Nat /\ rank \in [S -> 0 .. top] /\ body \in [S \X [S -> V] -> V]
  /\ \A c \in S, f \in [S -> V], g \in [S -> V] :
       (\A d \in S : rank[d] < rank[c] => f[d] = g[d] /\ <<d, f[d]>> \in fair)
       => body[<<c, f>>] = body[<<c, g>>] /\ <<c, body[<<c, f>>]>> \in fair

LEMMA RecursionExists ==
  ASSUME NEW S, NEW V, NEW top, NEW rank, NEW body, NEW fair, Grounded(S, V, top, rank, body, fair)
  PROVE  \E f \in [S -> V] : \A c \in S : f[c] = body[<<c, f>>] /\ <<c, f[c]>> \in fair
<1> USE DEF Grounded
<1> DEFINE Upto(f, n) ==
             f \in [S -> V] /\ \A c \in S : rank[c] < n => f[c] = body[<<c, f>>] /\ <<c, f[c]>> \in fair
           good == {n \in 0 .. top + 1 : \E f : Upto(f, n)}
<1>1. 0 \in good
  <2>1. PICK v \in V : TRUE
    OBVIOUS
  <2>2. Upto([c \in S |-> v], 0)
    OBVIOUS
  <2> HIDE DEF Upto
  <2> QED
    BY <2>2
<1>2. ASSUME NEW n \in 1 .. top + 1, n - 1 \in good PROVE n \in good
  <2>1. PICK f : Upto(f, n - 1)
    BY <1>2
  <2> DEFINE h == [c \in S |-> IF rank[c] < n THEN body[<<c, f>>] ELSE f[c]]
  <2>2. h \in [S -> V]
    BY <2>1
  <2>3. ASSUME NEW c \in S, rank[c] < n - 1 PROVE f[c] = h[c] /\ <<c, f[c]>> \in fair
    BY <2>1, <2>3
  <2>4. ASSUME NEW c \in S, rank[c] < n PROVE h[c] = body[<<c, h>>] /\ <<c, h[c]>> \in fair
    <3>1. h[c] = body[<<c, f>>]
      BY <2>4
    <3> HIDE DEF h
    <3>2. \A d \in S : rank[d] < rank[c] => f[d] = h[d] /\ <<d, f[d]>> \in fair
      BY <2>3, <2>4
    <3>3. body[<<c, f>>] = body[<<c, h>>] /\ <<c, body[<<c, f>>]>> \in fair
      BY <2>1, <2>2, <3>2
    <3> QED
      BY <3>1, <3>3
  <2> HIDE DEF h
  <2>5. Upto(h, n)
    BY <2>2, <2>4
  <2> HIDE DEF Upto
  <2> QED
    BY <2>5
<1>3. PICK f : Upto(f, top + 1)
  <2> DEFINE n == top + 1
  <2>1. n \in Nat /\ n \in 0 .. n
    OBVIOUS
  <2>2. good \in SUBSET (0 .. n)
    OBVIOUS
  <2>3. 0 \in good /\ \A k \in 1 .. n : k - 1 \in good => k \in good
    BY <1>1, <1>2
  <2>4. n \in good => \E f : Upto(f, n)
    OBVIOUS
  <2> HIDE DEF n, good
  <2>5. good = 0 .. n
    BY <2>1, <2>2, <2>3, NoFirstFailure
  <2>6. \E f : Upto(f, n)
    BY <2>1, <2>4, <2>5
  <2> USE DEF n
  <2> HIDE DEF Upto
  <2> QED
    BY <2>6
<1>4. f \in [S -> V] /\ \A c \in S : rank[c] < top + 1 => f[c] = body[<<c, f>>] /\ <<c, f[c]>> \in fair
  BY <1>3
<1>5. \A c \in S : rank[c] < top + 1
  OBVIOUS
<1> QED
  BY <1>4, <1>5

(* What a calculation is made of. *)
Symbol == {Number, "neg", "^"} \cup SumOps \cup ProductOps

Outcome == [out : Seq(Symbol), rest : Index]

(* The tokens that are left, and how many calls down the grammar a          *)
(* production goes before it takes one.                                     *)
Left(toks, i) == IF i > Len(toks) THEN 0 ELSE Len(toks) + 1 - i

Level == [p \in Production |->
            CASE p = "expression" -> 4 [] p = "term" -> 3 [] p = "factor" -> 2 [] p = "power" -> 1 [] OTHER -> 0]

Rank(p, toks, i) == 5 * Left(toks, i) + Level[p]

Cycles == {"products", "sums"}

(* What a production returns: it has taken a token, unless it is the rest   *)
(* of a loop.                                                               *)
Ahead(outcomes, p, toks, i) ==
  /\ outcomes \subseteq Outcome
  /\ \A x \in outcomes : i <= x.rest /\ (p \in Cycles \/ (i < x.rest /\ i <= Len(toks)))

LEMMA TokenIsIn ==
  ASSUME NEW toks \in Input, NEW i \in Nat, TokenAt(toks, i) # "end"
  PROVE  i \in 1 .. Len(toks) /\ toks[i] = TokenAt(toks, i) /\ toks[i] \in Token /\ i + 1 \in Index
  BY InputAssumption DEF Input, TokenAt, Index

LEMMA NoTokenIsEnd == "end" \notin Token
  BY DEF Token, Number, SumOps, ProductOps

LEMMA LevelIs ==
  /\ Level["expression"] = 4 /\ Level["term"] = 3 /\ Level["factor"] = 2 /\ Level["power"] = 1
  /\ Level["primary"] = 0 /\ Level["products"] = 0 /\ Level["sums"] = 0
  /\ \A p \in Production : Level[p] \in 0 .. 4
  BY DEF Level, Production

LEMMA LeftFalls ==
  ASSUME NEW toks \in Input, NEW i \in Index, NEW k \in Index, i < k, i <= Len(toks)
  PROVE  Left(toks, k) < Left(toks, i) /\ Left(toks, k) \in Nat /\ Left(toks, i) \in Nat
  BY InputAssumption DEF Left, Input, Index

LEMMA RanksLater ==
  ASSUME NEW toks \in Input, NEW i \in Index, NEW k \in Index, i < k, i <= Len(toks),
         NEW p \in Production, NEW q \in Production
  PROVE  Rank(q, toks, k) < Rank(p, toks, i)
<1>1. Left(toks, k) < Left(toks, i) /\ Left(toks, k) \in Nat /\ Left(toks, i) \in Nat
  BY LeftFalls
<1>2. Level[p] \in 0 .. 4 /\ Level[q] \in 0 .. 4
  BY LevelIs
<1>3. ASSUME NEW a \in Nat, NEW b \in Nat, a < b, NEW x \in 0 .. 4, NEW y \in 0 .. 4
      PROVE  5 * a + x < 5 * b + y
  BY <1>3
<1> HIDE DEF Left, Level
<1> QED
  BY <1>1, <1>2, <1>3 DEF Rank

LEMMA RanksHere ==
  ASSUME NEW toks \in Input, NEW i \in Index,
         NEW p \in Production, NEW q \in Production, Level[q] < Level[p]
  PROVE  Rank(q, toks, i) < Rank(p, toks, i)
<1>1. Left(toks, i) \in Nat
  BY InputAssumption DEF Left, Input, Index
<1>2. Level[p] \in 0 .. 4 /\ Level[q] \in 0 .. 4
  BY LevelIs
<1> HIDE DEF Left, Level
<1> QED
  BY <1>1, <1>2 DEF Rank

LEMMA AheadIs ==
  ASSUME NEW S, NEW p, NEW toks, NEW i \in Index, i <= Len(toks), \A x \in S : x \in Outcome /\ i < x.rest
  PROVE  Ahead(S, p, toks, i)
<1>1. ASSUME NEW x \in S PROVE x \in Outcome /\ i < x.rest /\ i <= x.rest
  BY DEF Outcome, Index
<1> QED
  BY <1>1 DEF Ahead

(* f and g agree on calls below a rank, and their outcomes there are ahead. *)
AgreeBelow(f, g, toks, n) ==
  \A q \in Production, k \in Index :
    Rank(q, toks, k) < n => f[<<q, toks, k>>] = g[<<q, toks, k>>] /\ Ahead(f[<<q, toks, k>>], q, toks, k)

LEMMA LoopedIsLocal ==
  ASSUME NEW f, NEW g, NEW toks \in Input, NEW i \in Index, NEW p \in Production, i <= Len(toks),
         AgreeBelow(f, g, toks, Rank(p, toks, i)), NEW cycle \in Cycles,
         NEW operands \in SUBSET Outcome, \A x \in operands : i < x.rest
  PROVE  /\ Looped(f, toks, cycle, operands) = Looped(g, toks, cycle, operands)
         /\ Ahead(Looped(f, toks, cycle, operands), p, toks, i)
<1>1. ASSUME NEW x \in operands
      PROVE  /\ f[<<cycle, toks, x.rest>>] = g[<<cycle, toks, x.rest>>]
             /\ Ahead(f[<<cycle, toks, x.rest>>], cycle, toks, x.rest)
  <2>1. x.rest \in Index /\ i < x.rest /\ cycle \in Production
    BY DEF Outcome, Cycles, Production
  <2>2. Rank(cycle, toks, x.rest) < Rank(p, toks, i)
    BY <2>1, RanksLater
  <2> QED
    BY <2>1, <2>2 DEF AgreeBelow
<1>2. Looped(f, toks, cycle, operands) = Looped(g, toks, cycle, operands)
  <2> DEFINE On(h, x) == {Parsed(x.out \o more.out, more.rest) : more \in h[<<cycle, toks, x.rest>>]}
  <2>1. \A x \in operands : On(f, x) = On(g, x)
    BY <1>1
  <2>2. /\ Looped(f, toks, cycle, operands) = UNION {On(f, x) : x \in operands}
        /\ Looped(g, toks, cycle, operands) = UNION {On(g, x) : x \in operands}
    BY DEF Looped
  <2> HIDE DEF On
  <2>3. {On(f, x) : x \in operands} = {On(g, x) : x \in operands}
    BY <2>1
  <2> QED
    BY <2>2, <2>3
<1>3. ASSUME NEW y \in Looped(f, toks, cycle, operands)
      PROVE  y \in Outcome /\ i < y.rest
  <2>0. PICK x \in operands : y \in {Parsed(x.out \o more.out, more.rest) : more \in f[<<cycle, toks, x.rest>>]}
    BY DEF Looped
  <2>1. PICK more \in f[<<cycle, toks, x.rest>>] : y = Parsed(x.out \o more.out, more.rest)
    BY <2>0
  <2>2. more \in Outcome /\ x.rest <= more.rest
    BY <1>1 DEF Ahead
  <2>3. x.out \o more.out \in Seq(Symbol)
    BY <2>2, ConcatProperties DEF Outcome
  <2> QED
    BY <2>1, <2>2, <2>3 DEF Outcome, Parsed, Index
<1> QED
  BY <1>2, <1>3 DEF Ahead, Outcome, Index

LEMMA LoopIsLocal ==
  ASSUME NEW f, NEW g, NEW toks \in Input, NEW i \in Index, NEW p \in Cycles,
         AgreeBelow(f, g, toks, Rank(p, toks, i)), NEW operand \in Production \ Cycles,
         NEW ops \in SUBSET (Symbol \cap Token)
  PROVE  /\ LoopFrom(f, toks, i, ops, operand, p) = LoopFrom(g, toks, i, ops, operand, p)
         /\ Ahead(LoopFrom(f, toks, i, ops, operand, p), p, toks, i)
<1>1. p \in Production /\ i \in Nat
  BY DEF Cycles, Production, Index
<1>2. CASE TokenAt(toks, i) \notin ops
  <2>1. Parsed(<<>>, i) \in Outcome /\ Parsed(<<>>, i).rest = i
    BY DEF Outcome, Parsed
  <2> QED
    BY <1>1, <1>2, <2>1 DEF LoopFrom, Ahead
<1>3. CASE TokenAt(toks, i) \in ops
  <2>1. i \in 1 .. Len(toks) /\ i + 1 \in Index
    BY <1>1, <1>3, TokenIsIn, NoTokenIsEnd
  <2> DEFINE Taken(h) == {Parsed(Append(x.out, TokenAt(toks, i)), x.rest) : x \in h[<<operand, toks, i + 1>>]}
  <2>2. Rank(operand, toks, i + 1) < Rank(p, toks, i)
    BY <1>1, <2>1, RanksLater
  <2>3. /\ f[<<operand, toks, i + 1>>] = g[<<operand, toks, i + 1>>]
        /\ Ahead(f[<<operand, toks, i + 1>>], operand, toks, i + 1)
    BY <2>1, <2>2 DEF AgreeBelow
  <2>4. ASSUME NEW y \in Taken(f)
        PROVE  y \in Outcome /\ i < y.rest
    <3>1. PICK x \in f[<<operand, toks, i + 1>>] : y = Parsed(Append(x.out, TokenAt(toks, i)), x.rest)
      OBVIOUS
    <3>2. x \in Outcome /\ i + 1 <= x.rest
      BY <2>3 DEF Ahead
    <3>3. Append(x.out, TokenAt(toks, i)) \in Seq(Symbol)
      BY <1>3, <3>2, AppendProperties DEF Outcome
    <3> QED
      BY <2>1, <3>1, <3>2, <3>3 DEF Outcome, Parsed, Index
  <2>5. Taken(f) = Taken(g)
    BY <2>3
  <2>6. /\ LoopFrom(f, toks, i, ops, operand, p) = Looped(f, toks, p, Taken(f))
        /\ LoopFrom(g, toks, i, ops, operand, p) = Looped(g, toks, p, Taken(g))
    BY <1>3 DEF LoopFrom
  <2> HIDE DEF Taken
  <2>7. Taken(f) \in SUBSET Outcome
    BY <2>4
  <2> QED
    BY <1>1, <2>1, <2>4, <2>5, <2>6, <2>7, LoopedIsLocal
<1> QED
  BY <1>2, <1>3

LEMMA UnaryType ==
  ASSUME NEW op, NEW out \in Seq(Symbol)
  PROVE  Unary(op, out) \in Seq(Symbol)
  BY AppendProperties DEF Unary, Symbol

(* A production looks only at calls of lower rank, and gets ahead. *)
LEMMA ProductionIsLocal ==
  ASSUME NEW f, NEW g, NEW toks \in Input, NEW i \in Index, NEW p \in Production,
         AgreeBelow(f, g, toks, Rank(p, toks, i))
  PROVE  /\ ParseNode(f, p, toks, i) = ParseNode(g, p, toks, i)
         /\ Ahead(ParseNode(f, p, toks, i), p, toks, i)
<1>0. i \in Nat
  BY DEF Index
<1>1. CASE p = "primary"
  <2>0. ParseNode(f, p, toks, i) = ParsePrimary(f, toks, i) /\ ParseNode(g, p, toks, i) = ParsePrimary(g, toks, i)
    BY <1>1 DEF ParseNode
  <2>1. CASE TokenAt(toks, i) = Number
    <3>1. i \in 1 .. Len(toks) /\ i + 1 \in Index
      BY <1>0, <2>1, TokenIsIn DEF Number
    <3>2. Parsed(<<Number>>, i + 1) \in Outcome /\ Parsed(<<Number>>, i + 1).rest = i + 1
      BY <3>1 DEF Parsed, Outcome, Symbol
    <3>3. /\ ParsePrimary(f, toks, i) = {Parsed(<<Number>>, i + 1)}
          /\ ParsePrimary(g, toks, i) = {Parsed(<<Number>>, i + 1)}
      BY <2>1 DEF ParsePrimary, Number
    <3>4. \A x \in ParsePrimary(f, toks, i) : x \in Outcome /\ i < x.rest
      BY <1>0, <3>2, <3>3
    <3> QED
      BY <2>0, <3>1, <3>3, <3>4, AheadIs
  <2>2. CASE TokenAt(toks, i) = "("
    <3>1. i \in 1 .. Len(toks) /\ i + 1 \in Index
      BY <1>0, <2>2, TokenIsIn
    <3>2. Rank("expression", toks, i + 1) < Rank(p, toks, i) /\ "expression" \in Production
      BY <1>0, <3>1, RanksLater DEF Production
    <3>3. /\ f[<<"expression", toks, i + 1>>] = g[<<"expression", toks, i + 1>>]
          /\ Ahead(f[<<"expression", toks, i + 1>>], "expression", toks, i + 1)
      BY <3>1, <3>2 DEF AgreeBelow
    <3> DEFINE Inside(h) == {x \in h[<<"expression", toks, i + 1>>] : TokenAt(toks, x.rest) = ")"}
    <3>4. /\ ParsePrimary(f, toks, i) = {Parsed(e.out, e.rest + 1) : e \in Inside(f)}
          /\ ParsePrimary(g, toks, i) = {Parsed(e.out, e.rest + 1) : e \in Inside(g)}
      BY <2>2 DEF ParsePrimary, Number
    <3>5. Inside(f) = Inside(g)
      BY <3>3
    <3>6. ASSUME NEW e \in Inside(f)
          PROVE  Parsed(e.out, e.rest + 1) \in Outcome /\ Parsed(e.out, e.rest + 1).rest > i
      <4>1. e \in Outcome /\ i + 1 <= e.rest /\ TokenAt(toks, e.rest) = ")"
        BY <3>3 DEF Ahead
      <4>2. e.rest \in Nat /\ e.out \in Seq(Symbol)
        BY <4>1 DEF Outcome, Index
      <4>3. e.rest + 1 \in Index
        BY <4>1, <4>2, TokenIsIn
      <4> QED
        BY <1>0, <4>1, <4>2, <4>3 DEF Outcome, Parsed
    <3> HIDE DEF Inside
    <3>7. \A x \in ParsePrimary(f, toks, i) : x \in Outcome /\ i < x.rest
      BY <3>4, <3>6
    <3> QED
      BY <2>0, <3>1, <3>4, <3>5, <3>7, AheadIs
  <2>3. CASE TokenAt(toks, i) # Number /\ TokenAt(toks, i) # "("
    BY <2>0, <2>3 DEF ParsePrimary, Ahead
  <2> QED
    BY <2>1, <2>2, <2>3
<1>2. CASE p = "power"
  <2>0. ParseNode(f, p, toks, i) = ParsePower(f, toks, i) /\ ParseNode(g, p, toks, i) = ParsePower(g, toks, i)
    BY <1>2 DEF ParseNode
  <2>1. Rank("primary", toks, i) < Rank(p, toks, i) /\ "primary" \in Production
    <3>1. "primary" \in Production
      BY DEF Production
    <3> QED
      BY <1>2, <3>1, LevelIs, RanksHere
  <2>2. /\ f[<<"primary", toks, i>>] = g[<<"primary", toks, i>>]
        /\ Ahead(f[<<"primary", toks, i>>], "primary", toks, i)
    BY <2>1 DEF AgreeBelow
  <2> DEFINE Taking(h, base) ==
        IF TokenAt(toks, base.rest) = "^" THEN Powered(base, h[<<"factor", toks, base.rest + 1>>]) ELSE {base}
  <2>3. ASSUME NEW base \in f[<<"primary", toks, i>>]
        PROVE  /\ Taking(f, base) = Taking(g, base) /\ i <= Len(toks)
               /\ \A x \in Taking(f, base) : x \in Outcome /\ i < x.rest
    <3>1. base \in Outcome /\ i < base.rest /\ i <= Len(toks)
      BY <2>2 DEF Ahead, Cycles
    <3>2. base.rest \in Nat /\ base.out \in Seq(Symbol)
      BY <3>1 DEF Outcome, Index
    <3>3. CASE TokenAt(toks, base.rest) = "^"
      <4>1. base.rest + 1 \in Index
        BY <3>2, <3>3, TokenIsIn
      <4>2. Rank("factor", toks, base.rest + 1) < Rank(p, toks, i) /\ "factor" \in Production
        <5>1. "factor" \in Production /\ i < base.rest + 1
          BY <1>0, <3>1, <3>2 DEF Production
        <5> QED
          BY <3>1, <4>1, <5>1, RanksLater
      <4>3. /\ f[<<"factor", toks, base.rest + 1>>] = g[<<"factor", toks, base.rest + 1>>]
            /\ Ahead(f[<<"factor", toks, base.rest + 1>>], "factor", toks, base.rest + 1)
        BY <4>1, <4>2 DEF AgreeBelow
      <4>4. ASSUME NEW x \in Powered(base, f[<<"factor", toks, base.rest + 1>>])
            PROVE  x \in Outcome /\ i < x.rest
        <5>1. PICK e \in f[<<"factor", toks, base.rest + 1>>] : x = Parsed(base.out \o Append(e.out, "^"), e.rest)
          BY DEF Powered
        <5>2. e \in Outcome /\ base.rest + 1 <= e.rest
          BY <4>3 DEF Ahead
        <5>3. Append(e.out, "^") \in Seq(Symbol)
          BY <5>2, AppendProperties DEF Outcome, Symbol
        <5>4. base.out \o Append(e.out, "^") \in Seq(Symbol)
          BY <3>2, <5>3, ConcatProperties
        <5> QED
          BY <1>0, <3>1, <3>2, <5>1, <5>2, <5>4 DEF Outcome, Parsed, Index
      <4> QED
        BY <3>1, <3>3, <4>3, <4>4
    <3>4. CASE TokenAt(toks, base.rest) # "^"
      BY <3>1, <3>4
    <3> QED
      BY <3>3, <3>4
  <2>4. /\ ParsePower(f, toks, i) = UNION {Taking(f, base) : base \in f[<<"primary", toks, i>>]}
        /\ ParsePower(g, toks, i) = UNION {Taking(g, base) : base \in g[<<"primary", toks, i>>]}
    BY DEF ParsePower
  <2> HIDE DEF Taking
  <2>5. {Taking(f, base) : base \in f[<<"primary", toks, i>>]} = {Taking(g, base) : base \in g[<<"primary", toks, i>>]}
    BY <2>2, <2>3
  <2>6. \A x \in ParsePower(f, toks, i) : x \in Outcome /\ i < x.rest /\ i <= Len(toks)
    BY <2>3, <2>4
  <2>7. ParsePower(f, toks, i) = ParsePower(g, toks, i)
    BY <2>4, <2>5, Zenon
  <2>8. CASE ParsePower(f, toks, i) = {}
    BY <2>0, <2>7, <2>8 DEF Ahead
  <2>9. CASE ParsePower(f, toks, i) # {}
    BY <2>0, <2>6, <2>7, <2>9, AheadIs
  <2> QED
    BY <2>8, <2>9
<1>3. CASE p = "factor"
  <2>0. ParseNode(f, p, toks, i) = ParseFactor(f, toks, i) /\ ParseNode(g, p, toks, i) = ParseFactor(g, toks, i)
    BY <1>3 DEF ParseNode
  <2>1. CASE TokenAt(toks, i) \in SumOps
    <3>1. i \in 1 .. Len(toks) /\ i + 1 \in Index
      BY <1>0, <2>1, TokenIsIn DEF SumOps
    <3>2. Rank("factor", toks, i + 1) < Rank(p, toks, i) /\ "factor" \in Production
      BY <1>0, <3>1, RanksLater DEF Production
    <3>3. /\ f[<<"factor", toks, i + 1>>] = g[<<"factor", toks, i + 1>>]
          /\ Ahead(f[<<"factor", toks, i + 1>>], "factor", toks, i + 1)
      BY <3>1, <3>2 DEF AgreeBelow
    <3> DEFINE Taking(h) == {Parsed(Unary(TokenAt(toks, i), x.out), x.rest) : x \in h[<<"factor", toks, i + 1>>]}
    <3>4. ParseFactor(f, toks, i) = Taking(f) /\ ParseFactor(g, toks, i) = Taking(g) /\ Taking(f) = Taking(g)
      BY <2>1, <3>3 DEF ParseFactor
    <3>5. ASSUME NEW y \in Taking(f)
          PROVE  y \in Outcome /\ i < y.rest
      <4>1. PICK x \in f[<<"factor", toks, i + 1>>] : y = Parsed(Unary(TokenAt(toks, i), x.out), x.rest)
        OBVIOUS
      <4>2. x \in Outcome /\ i + 1 <= x.rest
        BY <3>3 DEF Ahead
      <4>3. Unary(TokenAt(toks, i), x.out) \in Seq(Symbol) /\ x.rest \in Index
        BY <4>2, UnaryType DEF Outcome
      <4> QED
        BY <1>0, <4>1, <4>2, <4>3 DEF Outcome, Parsed, Index
    <3> HIDE DEF Taking
    <3> QED
      BY <1>0, <2>0, <3>1, <3>4, <3>5 DEF Ahead, Outcome, Index
  <2>2. CASE TokenAt(toks, i) \notin SumOps
    <3>1. "power" \in Production
      BY DEF Production
    <3>2. Rank("power", toks, i) < Rank(p, toks, i)
      BY <1>3, <3>1, LevelIs, RanksHere
    <3> QED
      BY <1>3, <2>0, <2>2, <3>1, <3>2 DEF AgreeBelow, ParseFactor, Ahead, Cycles
  <2> QED
    BY <2>1, <2>2
<1>4. CASE p \in Cycles
  <2>1. /\ ProductOps \in SUBSET (Symbol \cap Token) /\ SumOps \in SUBSET (Symbol \cap Token)
        /\ {"factor", "term"} \subseteq Production \ Cycles
    BY DEF Symbol, Token, Production, Cycles
  <2>2. CASE p = "products"
    BY <1>4, <2>1, <2>2, LoopIsLocal DEF ParseNode, ParseProducts
  <2>3. CASE p = "sums"
    BY <1>4, <2>1, <2>3, LoopIsLocal DEF ParseNode, ParseSums
  <2> QED
    BY <1>4, <2>2, <2>3 DEF Cycles
<1>5. ASSUME NEW operand \in Production, NEW cycle \in Cycles, Level[operand] < Level[p], operand \notin Cycles
      PROVE  /\ Looped(f, toks, cycle, f[<<operand, toks, i>>]) = Looped(g, toks, cycle, g[<<operand, toks, i>>])
             /\ Ahead(Looped(f, toks, cycle, f[<<operand, toks, i>>]), p, toks, i)
  <2>1. Rank(operand, toks, i) < Rank(p, toks, i)
    BY <1>5, RanksHere
  <2>2. f[<<operand, toks, i>>] = g[<<operand, toks, i>>] /\ Ahead(f[<<operand, toks, i>>], operand, toks, i)
    BY <2>1 DEF AgreeBelow
  <2>3. CASE f[<<operand, toks, i>>] = {}
    BY <2>2, <2>3 DEF Looped, Ahead
  <2>4. CASE f[<<operand, toks, i>>] # {}
    <3>1. i <= Len(toks) /\ \A x \in f[<<operand, toks, i>>] : i < x.rest
      BY <1>5, <2>2, <2>4 DEF Ahead
    <3>2. f[<<operand, toks, i>>] \in SUBSET Outcome
      BY <2>2 DEF Ahead
    <3> QED
      BY <2>2, <3>1, <3>2, LoopedIsLocal
  <2> QED
    BY <2>3, <2>4
<1>6. CASE p \in {"term", "expression"}
  <2>1. {"factor", "term"} \subseteq Production \ Cycles /\ Cycles = {"products", "sums"}
    BY DEF Production, Cycles
  <2>2. CASE p = "term"
    <3>1. Level["factor"] < Level[p]
      BY <2>2, LevelIs
    <3> QED
      BY <2>1, <2>2, <3>1, <1>5 DEF ParseNode, ParseTerm
  <2>3. CASE p = "expression"
    <3>1. Level["term"] < Level[p]
      BY <2>3, LevelIs
    <3> QED
      BY <2>1, <2>3, <3>1, <1>5 DEF ParseNode, ParseExpression
  <2> QED
    BY <1>6, <2>2, <2>3
<1> QED
  BY <1>1, <1>2, <1>3, <1>4, <1>6 DEF Production, Cycles

(* The recursion is well founded: the parser is what it is defined to be,   *)
(* and every production that returns has got ahead.                         *)
LEMMA ParseIsSome ==
  Parse = [c \in Production \X Input \X Index |-> ParseNode(Parse, c[1], c[2], c[3])]
<1> DEFINE S == Production \X Input \X Index
           V == SUBSET Outcome
           top == 5 * (MaxInput + 1) + 4
           rank == [c \in S |-> Rank(c[1], c[2], c[3])]
           fair == {x \in S \X V : Ahead(x[2], x[1][1], x[1][2], x[1][3])}
           Node(f, c) == ParseNode(f, c[1], c[2], c[3])
           body == [x \in S \X [S -> V] |-> IF Node(x[2], x[1]) \in V THEN Node(x[2], x[1]) ELSE {}]
<1>1. V # {} /\ top \in Nat
  BY InputAssumption
<1>2. rank \in [S -> 0 .. top]
  <2> SUFFICES ASSUME NEW p \in Production, NEW toks \in Input, NEW i \in Index
               PROVE  Rank(p, toks, i) \in 0 .. top
    OBVIOUS
  <2>1. Left(toks, i) \in 0 .. MaxInput + 1
    BY InputAssumption DEF Left, Input, Index
  <2>2. Level[p] \in 0 .. 4
    BY LevelIs
  <2>3. ASSUME NEW a \in 0 .. MaxInput + 1, NEW x \in 0 .. 4 PROVE 5 * a + x \in 0 .. top
    BY InputAssumption
  <2> HIDE DEF Left, Level, top
  <2> QED
    BY <2>1, <2>2, <2>3 DEF Rank
<1>3. body \in [S \X [S -> V] -> V]
  <2> HIDE DEF S, V, Node
  <2> SUFFICES {} \in V
    OBVIOUS
  <2> QED
    BY DEF V
<1>4. ASSUME NEW c \in S, NEW f \in [S -> V], NEW g \in [S -> V],
             \A d \in S : rank[d] < rank[c] => f[d] = g[d] /\ <<d, f[d]>> \in fair
      PROVE  /\ body[<<c, f>>] = Node(f, c) /\ body[<<c, g>>] = Node(f, c)
             /\ <<c, Node(f, c)>> \in fair
  <2>1. PICK p \in Production, toks \in Input, i \in Index : c = <<p, toks, i>>
    OBVIOUS
  <2>2. AgreeBelow(f, g, toks, Rank(p, toks, i))
    <3> SUFFICES ASSUME NEW q \in Production, NEW k \in Index, Rank(q, toks, k) < Rank(p, toks, i)
                 PROVE  f[<<q, toks, k>>] = g[<<q, toks, k>>] /\ Ahead(f[<<q, toks, k>>], q, toks, k)
      BY DEF AgreeBelow
    <3>1. rank[<<q, toks, k>>] < rank[c] /\ <<q, toks, k>> \in S
      BY <2>1
    <3>2. f[<<q, toks, k>>] = g[<<q, toks, k>>] /\ <<<<q, toks, k>>, f[<<q, toks, k>>]>> \in fair
      BY <1>4, <3>1
    <3> QED
      BY <3>2
  <2>3. ParseNode(f, p, toks, i) = ParseNode(g, p, toks, i) /\ Ahead(ParseNode(f, p, toks, i), p, toks, i)
    BY <2>2, ProductionIsLocal
  <2>4. ParseNode(f, p, toks, i) \in V
    BY <2>3 DEF Ahead
  <2>5. Node(f, c) = ParseNode(f, p, toks, i) /\ Node(g, c) = Node(f, c)
    BY <2>1, <2>3
  <2>6. <<c, Node(f, c)>> \in fair
    BY <2>1, <2>3, <2>4, <2>5
  <2> HIDE DEF S, V, Node, fair
  <2> QED
    BY <2>4, <2>5, <2>6
<1>5. Grounded(S, V, top, rank, body, fair)
  <2> HIDE DEF S, V, Node, fair, body, rank, top
  <2>1. ASSUME NEW c \in S, NEW f \in [S -> V], NEW g \in [S -> V],
               \A d \in S : rank[d] < rank[c] => f[d] = g[d] /\ <<d, f[d]>> \in fair
        PROVE  body[<<c, f>>] = body[<<c, g>>] /\ <<c, body[<<c, f>>]>> \in fair
    BY <1>4, <2>1
  <2> QED
    BY <1>1, <1>2, <1>3, <2>1 DEF Grounded
<1>6. \E f : f = [c \in S |-> Node(f, c)]
  <2> HIDE DEF S, V, Node, fair, body, rank, top
  <2>1. PICK f \in [S -> V] : \A c \in S : f[c] = body[<<c, f>>] /\ <<c, f[c]>> \in fair
    BY <1>5, RecursionExists
  <2>2. ASSUME NEW c \in S PROVE f[c] = Node(f, c)
    BY <1>4, <2>1
  <2>3. f = [c \in S |-> f[c]]
    BY <2>1
  <2>4. [c \in S |-> f[c]] = [c \in S |-> Node(f, c)]
    BY <2>2
  <2> QED
    BY <2>3, <2>4
<1> QED
  BY <1>6, Zenon DEF Parse

(* A solution of the recursion is ahead everywhere, whichever it is. *)
LEMMA ParseIs ==
  ASSUME NEW p \in Production, NEW toks \in Input, NEW i \in Index
  PROVE  /\ Parse[<<p, toks, i>>] = ParseNode(Parse, p, toks, i)
         /\ Ahead(Parse[<<p, toks, i>>], p, toks, i)
<1>1. \A q \in Production, k \in Index : Parse[<<q, toks, k>>] = ParseNode(Parse, q, toks, k)
  BY ParseIsSome, Zenon
<1> DEFINE top == Rank(p, toks, i) + 1
           Below(n) == \A q \in Production, k \in Index :
                         Rank(q, toks, k) < n => Ahead(Parse[<<q, toks, k>>], q, toks, k)
           good == {n \in 0 .. top : Below(n)}
<1>2. \A q \in Production, k \in Index : Rank(q, toks, k) \in Nat
  BY InputAssumption, LevelIs DEF Rank, Left, Input, Index
<1>3. 0 \in good /\ top \in Nat
  BY <1>2
<1>4. ASSUME NEW n \in 1 .. top, n - 1 \in good PROVE n \in good
  <2> SUFFICES ASSUME NEW q \in Production, NEW k \in Index, Rank(q, toks, k) < n
               PROVE  Ahead(Parse[<<q, toks, k>>], q, toks, k)
    OBVIOUS
  <2>1. AgreeBelow(Parse, Parse, toks, Rank(q, toks, k))
    <3> SUFFICES ASSUME NEW r \in Production, NEW j \in Index, Rank(r, toks, j) < Rank(q, toks, k)
                 PROVE  Ahead(Parse[<<r, toks, j>>], r, toks, j)
      BY DEF AgreeBelow
    <3>1. Rank(r, toks, j) < n - 1
      BY <1>2
    <3> QED
      BY <1>4, <3>1
  <2> QED
    BY <1>1, <2>1, ProductionIsLocal
<1>5. Below(top)
  <2> HIDE DEF Below, top
  <2>1. good = 0 .. top
    BY <1>3, <1>4, NoFirstFailure
  <2> QED
    BY <1>3, <2>1
<1> QED
  BY <1>1, <1>2, <1>5

----------------------------------------------------------------------------
(* The second reading *)

Size(i, j) == IF i < j THEN j - i ELSE 0

LEMMA LastIs ==
  ASSUME NEW S \in SUBSET Index, S # {}
  PROVE  LastIn(S) \in S /\ \A l \in S : l <= LastIn(S)
<1> DEFINE T == {MaxInput + 1 - k : k \in S}
<1>1. T \in SUBSET Nat /\ T # {}
  <2>1. ASSUME NEW k \in S PROVE MaxInput + 1 - k \in Nat
    BY InputAssumption DEF Index
  <2> QED
    BY <2>1
<1>2. PICK x \in T : \A y \in T : x <= y
  <2> HIDE DEF T
  <2> QED
    BY <1>1, SmallestOf
<1>3. PICK k \in S : x = MaxInput + 1 - k
  OBVIOUS
<1>4. \A l \in S : l <= k
  <2> SUFFICES ASSUME NEW l \in S PROVE l <= k
    OBVIOUS
  <2>1. MaxInput + 1 - l \in T
    OBVIOUS
  <2>2. x <= MaxInput + 1 - l
    BY <1>2, <2>1
  <2> QED
    BY <1>3, <2>2, InputAssumption DEF Index
<1> DEFINE Q(m) == m \in S /\ \A l \in S : l <= m
<1>5. \E m : Q(m)
  BY <1>4
<1>6. LastIn(S) = CHOOSE m : Q(m)
  BY Zenon DEF LastIn
<1>7. Q(CHOOSE m : Q(m))
  <2> HIDE DEF Q
  <2> QED
    BY <1>5, Zenon
<1> QED
  BY <1>6, <1>7

LEMMA FirstIs ==
  ASSUME NEW S \in SUBSET Index, S # {}
  PROVE  FirstIn(S) \in S /\ \A l \in S : FirstIn(S) <= l
<1>1. S \in SUBSET Nat
  BY DEF Index
<1> DEFINE Q(k) == k \in S /\ \A l \in S : k <= l
<1>2. \E k : Q(k)
  BY <1>1, SmallestOf
<1>3. FirstIn(S) = CHOOSE k : Q(k)
  BY Zenon DEF FirstIn
<1>4. Q(CHOOSE k : Q(k))
  <2> HIDE DEF Q
  <2> QED
    BY <1>2, Zenon
<1> QED
  BY <1>3, <1>4

LEMMA InfixesAre ==
  ASSUME NEW toks, NEW i \in Index, NEW j \in Index, NEW ops
  PROVE  Infixes(toks, i, j, ops) \in SUBSET (Index \cap (i + 1 .. j - 1))
  BY DEF Infixes, Index

Joins(y, left, right, op) == \E l \in left, r \in right : y = l \o Append(r, op)

LEMMA SplitHas ==
  ASSUME NEW k, NEW read, NEW toks, NEW i, NEW j, NEW y
  PROVE  y \in SplitAt(k, read, toks, i, j) <=> Joins(y, read[<<toks, i, k>>], read[<<toks, k + 1, j>>], toks[k])
<1> DEFINE Set(l) == {l \o Append(r, toks[k]) : r \in read[<<toks, k + 1, j>>]}
<1>1. y \in SplitAt(k, read, toks, i, j) <=> \E l \in read[<<toks, i, k>>] : y \in Set(l)
  <2>1. SplitAt(k, read, toks, i, j) = UNION {Set(l) : l \in read[<<toks, i, k>>]}
    BY DEF SplitAt
  <2> HIDE DEF Set
  <2> QED
    BY <2>1
<1>2. ASSUME NEW l
      PROVE  y \in Set(l) <=> \E r \in read[<<toks, k + 1, j>>] : y = l \o Append(r, toks[k])
  OBVIOUS
<1> HIDE DEF Set
<1> QED
  BY <1>1, <1>2 DEF Joins

(* f and g agree on spans that are shorter than n. *)
Concur(f, g, toks, n) ==
  \A h \in Index, k \in Index :
    Size(h, k) < n => f[<<toks, h, k>>] = g[<<toks, h, k>>] /\ f[<<toks, h, k>>] \subseteq Seq(Symbol)

LEMMA SplitIsLocal ==
  ASSUME NEW f, NEW g, NEW toks \in Input, NEW i \in Index, NEW j \in Index, Concur(f, g, toks, Size(i, j)),
         NEW k \in i + 1 .. j - 1, toks[k] \in Symbol
  PROVE  /\ SplitAt(k, f, toks, i, j) = SplitAt(k, g, toks, i, j)
         /\ SplitAt(k, f, toks, i, j) \subseteq Seq(Symbol)
<1>1. i \in Nat /\ j \in Nat /\ k \in Index /\ k + 1 \in Index
  BY InputAssumption DEF Index
<1>2. Size(i, k) < Size(i, j) /\ Size(k + 1, j) < Size(i, j)
  BY <1>1 DEF Size
<1>3. /\ f[<<toks, i, k>>] = g[<<toks, i, k>>] /\ f[<<toks, i, k>>] \subseteq Seq(Symbol)
      /\ f[<<toks, k + 1, j>>] = g[<<toks, k + 1, j>>] /\ f[<<toks, k + 1, j>>] \subseteq Seq(Symbol)
  BY <1>1, <1>2 DEF Concur
<1>4. ASSUME NEW l \in f[<<toks, i, k>>], NEW r \in f[<<toks, k + 1, j>>]
      PROVE  l \o Append(r, toks[k]) \in Seq(Symbol)
  <2>1. Append(r, toks[k]) \in Seq(Symbol)
    BY <1>3, AppendProperties
  <2> QED
    BY <1>3, <2>1, ConcatProperties
<1> DEFINE Both(A, B) == UNION {{l \o Append(r, toks[k]) : r \in B} : l \in A}
<1>5. \A h : SplitAt(k, h, toks, i, j) = Both(h[<<toks, i, k>>], h[<<toks, k + 1, j>>])
  BY DEF SplitAt
<1>6. ASSUME NEW y \in SplitAt(k, f, toks, i, j) PROVE y \in Seq(Symbol)
  <2>1. PICK l \in f[<<toks, i, k>>], r \in f[<<toks, k + 1, j>>] : y = l \o Append(r, toks[k])
    <3>1. Joins(y, f[<<toks, i, k>>], f[<<toks, k + 1, j>>], toks[k])
      BY SplitHas
    <3> QED
      BY <3>1 DEF Joins
  <2> QED
    BY <1>4, <2>1
<1> HIDE DEF Both
<1> QED
  BY <1>3, <1>5, <1>6

LEMMA OperatorsAre ==
  SumOps \subseteq Symbol /\ ProductOps \subseteq Symbol /\ {"^"} \subseteq Symbol
  BY DEF Symbol

(* A span is read from shorter ones. *)
LEMMA ReadingIsLocal ==
  ASSUME NEW f, NEW g, NEW toks \in Input, NEW i \in Index, NEW j \in Index, Concur(f, g, toks, Size(i, j))
  PROVE  /\ ReadNode(f, toks, i, j) = ReadNode(g, toks, i, j)
         /\ ReadNode(f, toks, i, j) \subseteq Seq(Symbol)
<1> DEFINE sums == Infixes(toks, i, j, SumOps)
           products == Infixes(toks, i, j, ProductOps)
           powers == Infixes(toks, i, j, {"^"})
<1>0. i \in Nat /\ j \in Nat
  BY DEF Index
<1>1. ASSUME NEW ops, ops \subseteq Symbol, NEW k \in Infixes(toks, i, j, ops)
      PROVE  /\ SplitAt(k, f, toks, i, j) = SplitAt(k, g, toks, i, j)
             /\ SplitAt(k, f, toks, i, j) \subseteq Seq(Symbol)
  <2>1. k \in i + 1 .. j - 1 /\ toks[k] \in Symbol
    BY <1>1 DEF Infixes
  <2> QED
    BY <2>1, SplitIsLocal
<1>2. ASSUME NEW ops, Infixes(toks, i, j, ops) # {}
      PROVE  /\ LastIn(Infixes(toks, i, j, ops)) \in Infixes(toks, i, j, ops)
             /\ FirstIn(Infixes(toks, i, j, ops)) \in Infixes(toks, i, j, ops)
  <2>1. Infixes(toks, i, j, ops) \in SUBSET Index
    BY InfixesAre
  <2> QED
    BY <1>2, <2>1, LastIs, FirstIs
<1>3. CASE sums # {}
  <2>1. ReadNode(f, toks, i, j) = SplitAt(LastIn(sums), f, toks, i, j)
    BY <1>3 DEF ReadNode
  <2>2. ReadNode(g, toks, i, j) = SplitAt(LastIn(sums), g, toks, i, j)
    BY <1>3 DEF ReadNode
  <2> QED
    BY <1>1, <1>2, <1>3, <2>1, <2>2, OperatorsAre
<1>4. CASE sums = {} /\ products # {}
  <2>1. ReadNode(f, toks, i, j) = SplitAt(LastIn(products), f, toks, i, j)
    BY <1>4 DEF ReadNode
  <2>2. ReadNode(g, toks, i, j) = SplitAt(LastIn(products), g, toks, i, j)
    BY <1>4 DEF ReadNode
  <2> QED
    BY <1>1, <1>2, <1>4, <2>1, <2>2, OperatorsAre
<1>5. CASE sums = {} /\ products = {} /\ i < j /\ toks[i] \in SumOps
  <2>1. i + 1 \in Index /\ Size(i + 1, j) < Size(i, j)
    BY <1>0, <1>5, InputAssumption DEF Index, Size
  <2>2. f[<<toks, i + 1, j>>] = g[<<toks, i + 1, j>>] /\ f[<<toks, i + 1, j>>] \subseteq Seq(Symbol)
    BY <2>1 DEF Concur
  <2>3. ReadNode(f, toks, i, j) = {Unary(toks[i], r) : r \in f[<<toks, i + 1, j>>]}
    BY <1>5 DEF ReadNode
  <2>4. ReadNode(g, toks, i, j) = {Unary(toks[i], r) : r \in g[<<toks, i + 1, j>>]}
    BY <1>5 DEF ReadNode
  <2>5. \A r \in f[<<toks, i + 1, j>>] : Unary(toks[i], r) \in Seq(Symbol)
    BY <2>2, UnaryType
  <2> QED
    BY <2>2, <2>3, <2>4, <2>5
<1>6. CASE sums = {} /\ products = {} /\ ~ (i < j /\ toks[i] \in SumOps) /\ powers # {}
  <2>1. ReadNode(f, toks, i, j) = SplitAt(FirstIn(powers), f, toks, i, j)
    BY <1>6 DEF ReadNode
  <2>2. ReadNode(g, toks, i, j) = SplitAt(FirstIn(powers), g, toks, i, j)
    BY <1>6 DEF ReadNode
  <2> QED
    BY <1>1, <1>2, <1>6, <2>1, <2>2, OperatorsAre
<1>7. CASE sums = {} /\ products = {} /\ ~ (i < j /\ toks[i] \in SumOps) /\ powers = {}
  <2>1. ASSUME NEW h
        PROVE  ReadNode(h, toks, i, j) =
                 IF i + 1 = j /\ toks[i] = Number THEN {<<Number>>}
                 ELSE IF i + 2 < j /\ toks[i] = "(" /\ toks[j - 1] = ")" THEN h[<<toks, i + 1, j - 1>>]
                 ELSE {}
    BY <1>7 DEF ReadNode
  <2>2. <<Number>> \in Seq(Symbol)
    BY DEF Symbol
  <2>3. i + 2 < j => i + 1 \in Index /\ j - 1 \in Index /\ Size(i + 1, j - 1) < Size(i, j)
    BY <1>0, InputAssumption DEF Index, Size
  <2>4. i + 2 < j => f[<<toks, i + 1, j - 1>>] = g[<<toks, i + 1, j - 1>>]
                     /\ f[<<toks, i + 1, j - 1>>] \subseteq Seq(Symbol)
    BY <2>3 DEF Concur
  <2> QED
    BY <2>1, <2>2, <2>4
<1> QED
  BY <1>3, <1>4, <1>5, <1>6, <1>7

LEMMA ReadIsSome ==
  Read = [s \in Input \X Index \X Index |-> ReadNode(Read, s[1], s[2], s[3])]
<1> DEFINE S == Input \X Index \X Index
           V == SUBSET Seq(Symbol)
           top == MaxInput + 1
           rank == [s \in S |-> Size(s[2], s[3])]
           fair == S \X V
           Node(f, s) == ReadNode(f, s[1], s[2], s[3])
           body == [x \in S \X [S -> V] |-> IF Node(x[2], x[1]) \in V THEN Node(x[2], x[1]) ELSE {}]
<1>1. V # {} /\ top \in Nat
  BY InputAssumption
<1>2. rank \in [S -> 0 .. top]
  BY InputAssumption DEF Size, Index
<1>3. body \in [S \X [S -> V] -> V]
  <2> HIDE DEF S, V, Node
  <2> SUFFICES {} \in V
    OBVIOUS
  <2> QED
    BY DEF V
<1>4. ASSUME NEW c \in S, NEW f \in [S -> V], NEW g \in [S -> V],
             \A d \in S : rank[d] < rank[c] => f[d] = g[d] /\ <<d, f[d]>> \in fair
      PROVE  /\ body[<<c, f>>] = Node(f, c) /\ body[<<c, g>>] = Node(f, c)
             /\ <<c, Node(f, c)>> \in fair
  <2>1. PICK toks \in Input, i \in Index, j \in Index : c = <<toks, i, j>>
    OBVIOUS
  <2>2. Concur(f, g, toks, Size(i, j))
    <3> SUFFICES ASSUME NEW h \in Index, NEW k \in Index, Size(h, k) < Size(i, j)
                 PROVE  f[<<toks, h, k>>] = g[<<toks, h, k>>] /\ f[<<toks, h, k>>] \subseteq Seq(Symbol)
      BY DEF Concur
    <3>1. rank[<<toks, h, k>>] < rank[c] /\ <<toks, h, k>> \in S
      BY <2>1
    <3> QED
      BY <1>4, <3>1
  <2>3. /\ ReadNode(f, toks, i, j) = ReadNode(g, toks, i, j)
        /\ ReadNode(f, toks, i, j) \subseteq Seq(Symbol)
    BY <2>2, ReadingIsLocal
  <2>4. Node(f, c) = ReadNode(f, toks, i, j) /\ Node(g, c) = Node(f, c) /\ Node(f, c) \in V
    BY <2>1, <2>3
  <2> HIDE DEF S, V, Node
  <2> QED
    BY <2>4
<1>5. Grounded(S, V, top, rank, body, fair)
  <2> HIDE DEF S, V, Node, fair, body, rank, top
  <2>1. ASSUME NEW c \in S, NEW f \in [S -> V], NEW g \in [S -> V],
               \A d \in S : rank[d] < rank[c] => f[d] = g[d] /\ <<d, f[d]>> \in fair
        PROVE  body[<<c, f>>] = body[<<c, g>>] /\ <<c, body[<<c, f>>]>> \in fair
    BY <1>4, <2>1
  <2> QED
    BY <1>1, <1>2, <1>3, <2>1 DEF Grounded
<1>6. \E f : f = [c \in S |-> Node(f, c)]
  <2> HIDE DEF S, V, Node, fair, body, rank, top
  <2>1. PICK f \in [S -> V] : \A c \in S : f[c] = body[<<c, f>>] /\ <<c, f[c]>> \in fair
    BY <1>5, RecursionExists
  <2>2. ASSUME NEW c \in S PROVE f[c] = Node(f, c)
    BY <1>4, <2>1
  <2>3. f = [c \in S |-> f[c]]
    BY <2>1
  <2>4. [c \in S |-> f[c]] = [c \in S |-> Node(f, c)]
    BY <2>2
  <2> QED
    BY <2>3, <2>4
<1> QED
  BY <1>6, Zenon DEF Read

LEMMA ReadIs ==
  ASSUME NEW toks \in Input, NEW i \in Index, NEW j \in Index
  PROVE  /\ Read[<<toks, i, j>>] = ReadNode(Read, toks, i, j)
         /\ Read[<<toks, i, j>>] \subseteq Seq(Symbol)
<1>1. \A h \in Index, k \in Index : Read[<<toks, h, k>>] = ReadNode(Read, toks, h, k)
  BY ReadIsSome, Zenon
<1> DEFINE top == Size(i, j) + 1
           Below(n) == \A h \in Index, k \in Index : Size(h, k) < n => Read[<<toks, h, k>>] \subseteq Seq(Symbol)
           good == {n \in 0 .. top : Below(n)}
<1>2. \A h \in Index, k \in Index : Size(h, k) \in Nat
  BY DEF Size, Index
<1>3. 0 \in good /\ top \in Nat
  BY <1>2
<1>4. ASSUME NEW n \in 1 .. top, n - 1 \in good PROVE n \in good
  <2> SUFFICES ASSUME NEW h \in Index, NEW k \in Index, Size(h, k) < n
               PROVE  Read[<<toks, h, k>>] \subseteq Seq(Symbol)
    OBVIOUS
  <2>1. Concur(Read, Read, toks, Size(h, k))
    <3> SUFFICES ASSUME NEW a \in Index, NEW b \in Index, Size(a, b) < Size(h, k)
                 PROVE  Read[<<toks, a, b>>] \subseteq Seq(Symbol)
      BY DEF Concur
    <3>1. Size(a, b) < n - 1
      BY <1>2
    <3> QED
      BY <1>4, <3>1
  <2> QED
    BY <1>1, <2>1, ReadingIsLocal
<1>5. Below(top)
  <2> HIDE DEF Below, top
  <2>1. good = 0 .. top
    BY <1>3, <1>4, NoFirstFailure
  <2> QED
    BY <1>3, <2>1
<1> QED
  BY <1>1, <1>2, <1>5

----------------------------------------------------------------------------
(* The spans an operand can take *)

(* What can follow an operand. *)
Operator == SumOps \cup ProductOps \cup {"^"}

(* What an operand can end with. *)
Ends == {Number, ")"}

LEMMA TokensDiffer ==
  /\ Operator \subseteq Token /\ Operator \cap Ends = {} /\ "end" \notin Token /\ "(" \notin Operator
  /\ "(" # ")" /\ Number # "(" /\ Number # ")"
  BY DEF Operator, Ends, Token, Number, SumOps, ProductOps

LEMMA TokensAre ==
  ASSUME NEW toks \in Input
  PROVE  /\ Len(toks) \in Nat /\ Len(toks) <= MaxInput /\ Len(toks) + 1 \in Index
         /\ \A k \in 1 .. Len(toks) : toks[k] \in Token /\ TokenAt(toks, k) = toks[k] /\ k \in Index /\ k + 1 \in Index
         /\ \A k \in Index : k > Len(toks) => TokenAt(toks, k) = "end"
  BY InputAssumption DEF Input, TokenAt, Index

LEMMA DeepStep ==
  ASSUME NEW toks \in Input, NEW k \in 1 .. Len(toks)
  PROVE  /\ Deep(toks, k - 1) \in Int /\ Deep(toks, k) \in Int
         /\ toks[k] = "(" => Deep(toks, k) = Deep(toks, k - 1) + 1
         /\ toks[k] = ")" => Deep(toks, k) = Deep(toks, k - 1) - 1
         /\ toks[k] \notin {"(", ")"} => Deep(toks, k) = Deep(toks, k - 1)
<1> DEFINE At(n, t) == {x \in 1 .. n : toks[x] = t}
<1>0. k \in Nat /\ k >= 1 /\ Len(toks) \in Nat
  BY TokensAre
<1>1. ASSUME NEW t
      PROVE  /\ IsFiniteSet(At(k - 1, t)) /\ IsFiniteSet(At(k, t))
             /\ Cardinality(At(k - 1, t)) \in Nat /\ Cardinality(At(k, t)) \in Nat
             /\ toks[k] = t => Cardinality(At(k, t)) = Cardinality(At(k - 1, t)) + 1
             /\ toks[k] # t => Cardinality(At(k, t)) = Cardinality(At(k - 1, t))
  <2>0. 1 \in Int /\ k - 1 \in Int
    BY <1>0
  <2>1. IsFiniteSet(1 .. k - 1) /\ At(k - 1, t) \subseteq 1 .. k - 1
    BY <2>0, FS_Interval
  <2>2. IsFiniteSet(At(k - 1, t))
    BY <2>1, FS_Subset
  <2>3. toks[k] = t => At(k, t) = At(k - 1, t) \cup {k}
    BY <1>0
  <2>4. toks[k] # t => At(k, t) = At(k - 1, t)
    BY <1>0
  <2>5. k \notin At(k - 1, t)
    BY <1>0
  <2> HIDE DEF At
  <2>6. IsFiniteSet(At(k - 1, t) \cup {k}) /\ Cardinality(At(k - 1, t) \cup {k}) = Cardinality(At(k - 1, t)) + 1
    BY <2>2, <2>5, FS_AddElement
  <2>7. Cardinality(At(k - 1, t)) \in Nat
    BY <2>2, FS_CardinalityType
  <2>8. CASE toks[k] = t
    <3>1. At(k, t) = At(k - 1, t) \cup {k}
      BY <2>3, <2>8
    <3>2. IsFiniteSet(At(k, t)) /\ Cardinality(At(k, t)) = Cardinality(At(k - 1, t)) + 1
      BY <2>6, <3>1
    <3>3. Cardinality(At(k, t)) \in Nat
      BY <2>7, <3>2
    <3> QED
      BY <2>2, <2>7, <2>8, <3>2, <3>3
  <2>9. CASE toks[k] # t
    BY <2>2, <2>4, <2>7, <2>9
  <2> QED
    BY <2>8, <2>9
<1>2. /\ Deep(toks, k) = Cardinality(At(k, "(")) - Cardinality(At(k, ")"))
      /\ Deep(toks, k - 1) = Cardinality(At(k - 1, "(")) - Cardinality(At(k - 1, ")"))
  BY DEF Deep
<1>3. "(" # ")"
  OBVIOUS
<1> HIDE DEF At
<1> QED
  BY <1>1, <1>2, <1>3

(* A span that an operand can take: the parentheses it opens it closes. *)
Whole(toks, i, j) ==
  /\ i < j /\ j <= Len(toks) + 1 /\ toks[j - 1] \in Ends
  /\ Deep(toks, j - 1) = Deep(toks, i - 1)
  /\ \A k \in i .. j - 1 : Deep(toks, k) >= Deep(toks, i - 1)

(* Two spans with an operator between them. *)
LEMMA Joined ==
  ASSUME NEW toks \in Input, NEW i \in Index, NEW k \in Index, NEW j \in Index,
         Whole(toks, i, k), Whole(toks, k + 1, j), toks[k] \in Operator
  PROVE  /\ Whole(toks, i, j) /\ k \in i + 1 .. j - 1 /\ Deep(toks, k) = Deep(toks, i - 1)
         /\ \A ops : Infixes(toks, i, j, ops) =
              Infixes(toks, i, k, ops) \cup (IF toks[k] \in ops THEN {k} ELSE {}) \cup Infixes(toks, k + 1, j, ops)
<1>0. i \in Nat /\ k \in Nat /\ j \in Nat /\ i >= 1 /\ i < k /\ k + 1 < j /\ j <= Len(toks) + 1 /\ Len(toks) \in Nat
  BY TokensAre DEF Index, Whole
<1>1. Deep(toks, k) = Deep(toks, k - 1) /\ Deep(toks, k) \in Int
  <2>1. k \in 1 .. Len(toks) /\ toks[k] \notin {"(", ")"}
    BY <1>0, TokensDiffer DEF Ends
  <2> QED
    BY <2>1, DeepStep
<1>2. Deep(toks, k) = Deep(toks, i - 1)
  BY <1>1 DEF Whole
<1>3. Whole(toks, i, j)
  <2>1. Deep(toks, j - 1) = Deep(toks, i - 1) /\ toks[j - 1] \in Ends
    BY <1>0, <1>2 DEF Whole
  <2>2. ASSUME NEW h \in i .. j - 1 PROVE Deep(toks, h) >= Deep(toks, i - 1)
    <3>1. CASE h \in i .. k - 1
      BY <3>1 DEF Whole
    <3>2. CASE h = k
      BY <3>2, <1>1, <1>2
    <3>3. CASE h \in k + 1 .. j - 1
      <4>1. Deep(toks, h) >= Deep(toks, (k + 1) - 1)
        BY <3>3, Zenon DEF Whole
      <4>2. (k + 1) - 1 = k
        BY <1>0
      <4> QED
        BY <4>1, <4>2, <1>2
    <3> QED
      BY <1>0, <3>1, <3>2, <3>3
  <2> QED
    BY <1>0, <2>1, <2>2 DEF Whole
<1>4. ASSUME NEW ops
      PROVE  Infixes(toks, i, j, ops) =
              Infixes(toks, i, k, ops) \cup (IF toks[k] \in ops THEN {k} ELSE {}) \cup Infixes(toks, k + 1, j, ops)
  <2>1. toks[k - 1] \in Ends /\ toks[k] \notin Ends
    BY TokensDiffer DEF Whole
  <2>2. (k + 1) - 1 = k
    BY <1>0
  <2> DEFINE In(x) == toks[x] \in ops /\ toks[x - 1] \in Ends /\ Deep(toks, x) = Deep(toks, i - 1)
  <2>3. Infixes(toks, k + 1, j, ops) = {x \in k + 2 .. j - 1 : In(x)}
    BY <1>0, <1>2, <2>2 DEF Infixes, Ends
  <2>4. /\ Infixes(toks, i, j, ops) = {x \in i + 1 .. j - 1 : In(x)}
        /\ Infixes(toks, i, k, ops) = {x \in i + 1 .. k - 1 : In(x)}
    BY DEF Infixes, Ends
  <2>5. In(k) <=> toks[k] \in ops
    BY <1>2, <2>1
  <2>6. ~ In(k + 1)
    <3>1. toks[(k + 1) - 1] \notin Ends
      BY <2>1, <2>2
    <3> QED
      BY <3>1, Zenon
  <2> HIDE DEF In
  <2>8. {x \in i + 1 .. j - 1 : In(x)} =
          {x \in i + 1 .. k - 1 : In(x)} \cup (IF In(k) THEN {k} ELSE {}) \cup {x \in k + 2 .. j - 1 : In(x)}
    BY <1>0, <2>6
  <2> QED
    BY <2>3, <2>4, <2>5, <2>8
<1> QED
  BY <1>0, <1>2, <1>3, <1>4

(* A sign in front of a span. *)
LEMMA Signed ==
  ASSUME NEW toks \in Input, NEW i \in Index, NEW j \in Index, Whole(toks, i + 1, j), toks[i] \in SumOps
  PROVE  Whole(toks, i, j) /\ \A ops : Infixes(toks, i, j, ops) = Infixes(toks, i + 1, j, ops)
<1>0. i \in Nat /\ j \in Nat /\ i >= 1 /\ i + 1 < j /\ j <= Len(toks) + 1 /\ Len(toks) \in Nat /\ (i + 1) - 1 = i
  BY TokensAre DEF Index, Whole
<1>1. Deep(toks, i) = Deep(toks, i - 1) /\ Deep(toks, i) \in Int /\ toks[i] \notin Ends
  <2>1. i \in 1 .. Len(toks) /\ toks[i] \notin {"(", ")"} /\ toks[i] \notin Ends
    BY <1>0, TokensDiffer DEF Ends, Operator
  <2> QED
    BY <2>1, DeepStep
<1>2. Whole(toks, i, j)
  <2>1. /\ Deep(toks, j - 1) = Deep(toks, i - 1) /\ toks[j - 1] \in Ends
        /\ \A h \in i + 1 .. j - 1 : Deep(toks, h) >= Deep(toks, i - 1)
    BY <1>0, <1>1 DEF Whole
  <2>2. ASSUME NEW h \in i .. j - 1 PROVE Deep(toks, h) >= Deep(toks, i - 1)
    <3>1. h = i \/ h \in i + 1 .. j - 1
      BY <1>0
    <3> QED
      BY <1>1, <2>1, <3>1
  <2> QED
    BY <1>0, <2>1, <2>2 DEF Whole
<1>3. ASSUME NEW ops PROVE Infixes(toks, i, j, ops) = Infixes(toks, i + 1, j, ops)
  <2> DEFINE In(x) == toks[x] \in ops /\ toks[x - 1] \in Ends /\ Deep(toks, x) = Deep(toks, i - 1)
  <2>1. /\ Infixes(toks, i, j, ops) = {x \in i + 1 .. j - 1 : In(x)}
        /\ Infixes(toks, i + 1, j, ops) = {x \in i + 2 .. j - 1 : In(x)}
    BY <1>0, <1>1 DEF Infixes, Ends
  <2>2. ~ In(i + 1)
    BY <1>0, <1>1
  <2> HIDE DEF In
  <2>3. {x \in i + 1 .. j - 1 : In(x)} = {x \in i + 2 .. j - 1 : In(x)}
    BY <1>0, <2>2
  <2> QED
    BY <2>1, <2>3
<1> QED
  BY <1>2, <1>3

(* Parentheses around a span. *)
LEMMA Enclosed ==
  ASSUME NEW toks \in Input, NEW i \in Index, NEW j \in Index, Whole(toks, i + 1, j), j <= Len(toks),
         toks[i] = "(", toks[j] = ")"
  PROVE  Whole(toks, i, j + 1) /\ \A ops : ops \subseteq Operator => Infixes(toks, i, j + 1, ops) = {}
<1>0. /\ i \in Nat /\ j \in Nat /\ i >= 1 /\ i + 1 < j /\ Len(toks) \in Nat
      /\ (i + 1) - 1 = i /\ (j + 1) - 1 = j
  BY TokensAre DEF Index, Whole
<1>1. Deep(toks, i) = Deep(toks, i - 1) + 1 /\ Deep(toks, i - 1) \in Int /\ Deep(toks, i) \in Int
  <2>1. i \in 1 .. Len(toks)
    BY <1>0
  <2> QED
    BY <2>1, DeepStep
<1>2. Deep(toks, j) = Deep(toks, j - 1) - 1 /\ Deep(toks, j - 1) = Deep(toks, i)
  <2>1. j \in 1 .. Len(toks)
    BY <1>0
  <2>2. Deep(toks, j) = Deep(toks, j - 1) - 1
    BY <2>1, DeepStep
  <2> QED
    BY <1>0, <2>2 DEF Whole
<1>3. \A h \in i .. j - 1 : Deep(toks, h) >= Deep(toks, i)
  <2>1. \A h \in i + 1 .. j - 1 : Deep(toks, h) >= Deep(toks, i)
    BY <1>0 DEF Whole
  <2>2. ASSUME NEW h \in i .. j - 1 PROVE Deep(toks, h) >= Deep(toks, i)
    <3>1. h = i \/ h \in i + 1 .. j - 1
      BY <1>0
    <3> QED
      BY <1>1, <2>1, <3>1
  <2> QED
    BY <2>2
<1>4. Deep(toks, j) = Deep(toks, i - 1)
  BY <1>1, <1>2
<1>5. \A h \in i .. j - 1 : h \in 1 .. Len(toks) /\ Deep(toks, h) \in Int
  <2> SUFFICES ASSUME NEW h \in i .. j - 1 PROVE h \in 1 .. Len(toks) /\ Deep(toks, h) \in Int
    OBVIOUS
  <2>1. h \in 1 .. Len(toks)
    BY <1>0
  <2> QED
    BY <2>1, DeepStep
<1>6. Whole(toks, i, j + 1)
  <2>1. ASSUME NEW h \in i .. j PROVE Deep(toks, h) >= Deep(toks, i - 1)
    <3>1. h = j \/ h \in i .. j - 1
      BY <1>0
    <3> QED
      BY <1>1, <1>3, <1>4, <1>5, <3>1
  <2>2. toks[j] \in Ends
    BY DEF Ends
  <2> QED
    BY <1>0, <1>4, <2>1, <2>2 DEF Whole
<1>7. ASSUME NEW ops, ops \subseteq Operator, NEW x \in Infixes(toks, i, j + 1, ops) PROVE FALSE
  <2>1. x \in i + 1 .. j /\ toks[x] \in ops /\ Deep(toks, x) = Deep(toks, i - 1)
    BY <1>0 DEF Infixes
  <2>2. x # j
    BY <1>7, <2>1, TokensDiffer DEF Ends
  <2>3. x \in i .. j - 1
    BY <1>0, <2>1, <2>2
  <2> QED
    BY <1>1, <1>3, <1>5, <2>1, <2>3
<1> QED
  BY <1>6, <1>7

----------------------------------------------------------------------------
(* How readings join *)

LEMMA LastAt ==
  ASSUME NEW S, NEW k \in S, S \in SUBSET Nat, \A l \in S : l <= k
  PROVE  LastIn(S) = k
<1> DEFINE Q(m) == m \in S /\ \A l \in S : l <= m
           c == CHOOSE m : Q(m)
<1>1. LastIn(S) = c
  BY Zenon DEF LastIn
<1>2. Q(k)
  OBVIOUS
<1>3. Q(c)
  <2> HIDE DEF Q
  <2> QED
    BY <1>2, Zenon
<1> HIDE DEF c
<1>4. c \in Nat /\ k \in Nat /\ k <= c /\ c <= k
  BY <1>3
<1> QED
  BY <1>1, <1>4

LEMMA FirstAt ==
  ASSUME NEW S, NEW k \in S, S \in SUBSET Nat, \A l \in S : k <= l
  PROVE  FirstIn(S) = k
<1> DEFINE Q(m) == m \in S /\ \A l \in S : m <= l
           c == CHOOSE m : Q(m)
<1>1. FirstIn(S) = c
  BY Zenon DEF FirstIn
<1>2. Q(k)
  OBVIOUS
<1>3. Q(c)
  <2> HIDE DEF Q
  <2> QED
    BY <1>2, Zenon
<1> HIDE DEF c
<1>4. c \in Nat /\ k \in Nat /\ k <= c /\ c <= k
  BY <1>3
<1> QED
  BY <1>1, <1>4

LEMMA InfixesIn ==
  ASSUME NEW toks, NEW i \in Index, NEW j \in Index, NEW ops, NEW x \in Infixes(toks, i, j, ops)
  PROVE  x \in Nat /\ i < x /\ x < j
  BY InputAssumption DEF Infixes, Index

LEMMA AfterOperator ==
  ASSUME NEW toks \in Input, NEW k \in Index, NEW j \in Index, Whole(toks, k + 1, j)
  PROVE  k + 1 \in Index /\ k \in 1 .. Len(toks)
  BY TokensAre, InputAssumption DEF Whole, Index

(* How the readings of two spans become the reading of one. *)
LEMMA SumJoins ==
  ASSUME NEW toks \in Input, NEW i \in Index, NEW k \in Index, NEW j \in Index,
         Whole(toks, i, k), Whole(toks, k + 1, j), toks[k] \in SumOps, Infixes(toks, k + 1, j, SumOps) = {},
         NEW l \in Read[<<toks, i, k>>], NEW r \in Read[<<toks, k + 1, j>>]
  PROVE  Whole(toks, i, j) /\ l \o Append(r, toks[k]) \in Read[<<toks, i, j>>]
<1>1. toks[k] \in Operator
  BY DEF Operator
<1>2. /\ Whole(toks, i, j)
      /\ Infixes(toks, i, j, SumOps) = Infixes(toks, i, k, SumOps) \cup {k}
  BY <1>1, Joined
<1>3. LastIn(Infixes(toks, i, j, SumOps)) = k
  <2>1. \A x \in Infixes(toks, i, k, SumOps) : x \in Nat /\ x < k
    BY InfixesIn
  <2>2. k \in Nat
    BY DEF Index
  <2> DEFINE S == Infixes(toks, i, j, SumOps)
  <2>3. k \in S /\ S \in SUBSET Nat /\ \A x \in S : x <= k
    BY <1>2, <2>1, <2>2
  <2> HIDE DEF S
  <2>4. LastIn(S) = k
    BY <2>3, LastAt
  <2> QED
    BY <2>4 DEF S
<1>4. Read[<<toks, i, j>>] = SplitAt(k, Read, toks, i, j)
  <2>1. Infixes(toks, i, j, SumOps) # {}
    BY <1>2
  <2> QED
    BY <2>1, <1>3, ReadIs DEF ReadNode
<1>5. Joins(l \o Append(r, toks[k]), Read[<<toks, i, k>>], Read[<<toks, k + 1, j>>], toks[k])
  BY DEF Joins
<1> QED
  BY <1>2, <1>4, <1>5, SplitHas

LEMMA ProductJoins ==
  ASSUME NEW toks \in Input, NEW i \in Index, NEW k \in Index, NEW j \in Index,
         Whole(toks, i, k), Whole(toks, k + 1, j), toks[k] \in ProductOps,
         Infixes(toks, i, k, SumOps) = {}, Infixes(toks, k + 1, j, SumOps) = {},
         Infixes(toks, k + 1, j, ProductOps) = {},
         NEW l \in Read[<<toks, i, k>>], NEW r \in Read[<<toks, k + 1, j>>]
  PROVE  /\ Whole(toks, i, j) /\ Infixes(toks, i, j, SumOps) = {}
         /\ l \o Append(r, toks[k]) \in Read[<<toks, i, j>>]
<1>1. toks[k] \in Operator /\ toks[k] \notin SumOps
  BY DEF Operator, SumOps, ProductOps
<1>2. /\ Whole(toks, i, j)
      /\ Infixes(toks, i, j, ProductOps) = Infixes(toks, i, k, ProductOps) \cup {k}
      /\ Infixes(toks, i, j, SumOps) = {}
  BY <1>1, Joined
<1>3. LastIn(Infixes(toks, i, j, ProductOps)) = k
  <2>1. \A x \in Infixes(toks, i, k, ProductOps) : x \in Nat /\ x < k
    BY InfixesIn
  <2>2. k \in Nat
    BY DEF Index
  <2> DEFINE S == Infixes(toks, i, j, ProductOps)
  <2>3. k \in S /\ S \in SUBSET Nat /\ \A x \in S : x <= k
    BY <1>2, <2>1, <2>2
  <2> HIDE DEF S
  <2>4. LastIn(S) = k
    BY <2>3, LastAt
  <2> QED
    BY <2>4 DEF S
<1>4. Read[<<toks, i, j>>] = SplitAt(k, Read, toks, i, j)
  <2>1. Infixes(toks, i, j, ProductOps) # {}
    BY <1>2
  <2> QED
    BY <2>1, <1>2, <1>3, ReadIs DEF ReadNode
<1>5. Joins(l \o Append(r, toks[k]), Read[<<toks, i, k>>], Read[<<toks, k + 1, j>>], toks[k])
  BY DEF Joins
<1>6. l \o Append(r, toks[k]) \in Read[<<toks, i, j>>]
  BY <1>4, <1>5, SplitHas
<1> QED
  BY <1>2, <1>6

(* A span of one operand, without a sign. *)
Operand(toks, i, j) ==
  /\ Whole(toks, i, j) /\ toks[i] \notin SumOps
  /\ \A ops : ops \subseteq Operator => Infixes(toks, i, j, ops) = {}

LEMMA PowerJoins ==
  ASSUME NEW toks \in Input, NEW i \in Index, NEW k \in Index, NEW j \in Index,
         Operand(toks, i, k), Whole(toks, k + 1, j), toks[k] = "^",
         Infixes(toks, k + 1, j, SumOps) = {}, Infixes(toks, k + 1, j, ProductOps) = {},
         NEW l \in Read[<<toks, i, k>>], NEW r \in Read[<<toks, k + 1, j>>]
  PROVE  /\ Whole(toks, i, j) /\ Infixes(toks, i, j, SumOps) = {} /\ Infixes(toks, i, j, ProductOps) = {}
         /\ l \o Append(r, "^") \in Read[<<toks, i, j>>]
<1>0. Whole(toks, i, k) /\ toks[i] \notin SumOps
  BY DEF Operand
<1>1. /\ toks[k] \in Operator /\ toks[k] \notin SumOps /\ toks[k] \notin ProductOps /\ toks[k] \in {"^"}
      /\ SumOps \subseteq Operator /\ ProductOps \subseteq Operator /\ {"^"} \subseteq Operator
  BY DEF Operator, SumOps, ProductOps
<1>2. /\ Whole(toks, i, j)
      /\ \A ops : Infixes(toks, i, j, ops) =
           Infixes(toks, i, k, ops) \cup (IF toks[k] \in ops THEN {k} ELSE {}) \cup Infixes(toks, k + 1, j, ops)
  BY <1>0, <1>1, Joined
<1>3. /\ Infixes(toks, i, j, SumOps) = {} /\ Infixes(toks, i, j, ProductOps) = {}
      /\ Infixes(toks, i, j, {"^"}) = {k} \cup Infixes(toks, k + 1, j, {"^"})
  BY <1>1, <1>2 DEF Operand
<1>4. FirstIn(Infixes(toks, i, j, {"^"})) = k
  <2>1. k \in Nat /\ k + 1 \in Index
    BY AfterOperator DEF Index
  <2>2. \A x \in Infixes(toks, k + 1, j, {"^"}) : x \in Nat /\ k + 1 < x
    BY <2>1, InfixesIn
  <2> DEFINE S == Infixes(toks, i, j, {"^"})
  <2>3. k \in S /\ S \in SUBSET Nat /\ \A x \in S : k <= x
    BY <1>3, <2>1, <2>2
  <2> HIDE DEF S
  <2>4. FirstIn(S) = k
    BY <2>3, FirstAt
  <2> QED
    BY <2>4 DEF S
<1>5. Read[<<toks, i, j>>] = SplitAt(k, Read, toks, i, j)
  <2>1. Infixes(toks, i, j, {"^"}) # {}
    BY <1>3
  <2>2. Read[<<toks, i, j>>] = ReadNode(Read, toks, i, j)
    BY ReadIs
  <2> QED
    BY <2>1, <2>2, <1>0, <1>3, <1>4 DEF ReadNode
<1>6. Joins(l \o Append(r, toks[k]), Read[<<toks, i, k>>], Read[<<toks, k + 1, j>>], toks[k])
  BY DEF Joins
<1>7. l \o Append(r, toks[k]) \in Read[<<toks, i, j>>]
  BY <1>5, <1>6, SplitHas
<1> QED
  BY <1>2, <1>3, <1>7

LEMMA SignJoins ==
  ASSUME NEW toks \in Input, NEW i \in Index, NEW j \in Index,
         Whole(toks, i + 1, j), toks[i] \in SumOps,
         Infixes(toks, i + 1, j, SumOps) = {}, Infixes(toks, i + 1, j, ProductOps) = {},
         NEW r \in Read[<<toks, i + 1, j>>]
  PROVE  /\ Whole(toks, i, j) /\ Infixes(toks, i, j, SumOps) = {} /\ Infixes(toks, i, j, ProductOps) = {}
         /\ Unary(toks[i], r) \in Read[<<toks, i, j>>]
<1>1. /\ Whole(toks, i, j) /\ Infixes(toks, i, j, SumOps) = {} /\ Infixes(toks, i, j, ProductOps) = {}
  BY Signed
<1>2. i < j
  BY <1>1 DEF Whole
<1>3. Read[<<toks, i, j>>] = {Unary(toks[i], x) : x \in Read[<<toks, i + 1, j>>]}
  BY <1>1, <1>2, ReadIs DEF ReadNode
<1> QED
  BY <1>1, <1>3

LEMMA NumberIsRead ==
  ASSUME NEW toks \in Input, NEW i \in Index, TokenAt(toks, i) = Number
  PROVE  i + 1 \in Index /\ Operand(toks, i, i + 1) /\ <<Number>> \in Read[<<toks, i, i + 1>>]
<1>1. i \in 1 .. Len(toks) /\ i + 1 \in Index /\ toks[i] = Number /\ i \in Nat
  <2>1. i \in Nat
    BY DEF Index
  <2> QED
    BY <2>1, TokenIsIn DEF Number
<1>2. toks[i] \notin {"(", ")"} /\ toks[i] \notin SumOps
  BY <1>1 DEF Number, SumOps
<1>3. Deep(toks, i) = Deep(toks, i - 1) /\ Deep(toks, i) \in Int
  BY <1>1, <1>2, DeepStep
<1>4. (i + 1) - 1 = i /\ Len(toks) \in Nat
  BY <1>1, TokensAre
<1>5. \A h \in i .. (i + 1) - 1 : h = i
  BY <1>1
<1>6. Whole(toks, i, i + 1)
  <2>1. i < i + 1 /\ i + 1 <= Len(toks) + 1
    BY <1>1, <1>4
  <2>2. toks[(i + 1) - 1] \in Ends /\ Deep(toks, (i + 1) - 1) = Deep(toks, i - 1)
    BY <1>1, <1>3, <1>4 DEF Ends
  <2>3. ASSUME NEW h \in i .. (i + 1) - 1 PROVE Deep(toks, h) >= Deep(toks, i - 1)
    <3>1. h = i
      BY <1>5
    <3> QED
      BY <3>1, <1>3
  <2> QED
    BY <2>1, <2>2, <2>3 DEF Whole
<1>7. \A ops : Infixes(toks, i, i + 1, ops) = {}
  BY <1>1 DEF Infixes
<1>8. Read[<<toks, i, i + 1>>] = {<<Number>>}
  <2>1. Read[<<toks, i, i + 1>>] = ReadNode(Read, toks, i, i + 1)
    BY <1>1, ReadIs
  <2> QED
    BY <2>1, <1>1, <1>2, <1>7 DEF ReadNode
<1> QED
  BY <1>1, <1>2, <1>6, <1>7, <1>8 DEF Operand

LEMMA EnclosedIsRead ==
  ASSUME NEW toks \in Input, NEW i \in Index, NEW j \in Index, Whole(toks, i + 1, j),
         TokenAt(toks, i) = "(", TokenAt(toks, j) = ")", NEW r \in Read[<<toks, i + 1, j>>]
  PROVE  j + 1 \in Index /\ Operand(toks, i, j + 1) /\ r \in Read[<<toks, i, j + 1>>]
<1>0. i \in Nat /\ j \in Nat
  BY DEF Index
<1>1. toks[i] = "(" /\ toks[j] = ")" /\ i \in 1 .. Len(toks) /\ j \in 1 .. Len(toks) /\ j + 1 \in Index
  BY <1>0, TokenIsIn
<1>2. /\ Whole(toks, i, j + 1)
      /\ \A ops : ops \subseteq Operator => Infixes(toks, i, j + 1, ops) = {}
  BY <1>1, Enclosed
<1>3. toks[i] \notin SumOps
  BY <1>1 DEF SumOps
<1>4. SumOps \subseteq Operator /\ ProductOps \subseteq Operator /\ {"^"} \subseteq Operator
  BY DEF Operator
<1>5. i + 2 < j + 1 /\ (j + 1) - 1 = j /\ toks[(j + 1) - 1] = ")" /\ i + 1 # j + 1
  <2>1. i + 1 < j
    BY DEF Whole
  <2>2. (j + 1) - 1 = j
    BY <1>0
  <2> QED
    BY <1>0, <1>1, <2>1, <2>2
<1>6. Read[<<toks, i, j + 1>>] = Read[<<toks, i + 1, j>>]
  <2>1. Read[<<toks, i, j + 1>>] = ReadNode(Read, toks, i, j + 1)
    BY <1>1, ReadIs
  <2>2. /\ Infixes(toks, i, j + 1, SumOps) = {} /\ Infixes(toks, i, j + 1, ProductOps) = {}
        /\ Infixes(toks, i, j + 1, {"^"}) = {}
    BY <1>2, <1>4
  <2>3. ReadNode(Read, toks, i, j + 1) = Read[<<toks, i + 1, (j + 1) - 1>>]
    BY <1>1, <1>3, <1>5, <2>2 DEF ReadNode
  <2> QED
    BY <1>5, <2>1, <2>3
<1> QED
  BY <1>1, <1>2, <1>3, <1>6 DEF Operand

----------------------------------------------------------------------------
(* What each production returns *)

(* What each production returns, and what it returns that from. *)
LEMMA LoopedFrom ==
  ASSUME NEW parse, NEW toks, NEW cycle, NEW operands, NEW y \in Looped(parse, toks, cycle, operands)
  PROVE  \E p \in operands : \E more \in parse[<<cycle, toks, p.rest>>] : y = Parsed(p.out \o more.out, more.rest)
<1> DEFINE On(p) == {Parsed(p.out \o more.out, more.rest) : more \in parse[<<cycle, toks, p.rest>>]}
<1>1. PICK p \in operands : y \in On(p)
  BY DEF Looped
<1>2. PICK more \in parse[<<cycle, toks, p.rest>>] : y = Parsed(p.out \o more.out, more.rest)
  BY <1>1
<1> QED
  BY <1>2

LEMMA LoopedTo ==
  ASSUME NEW parse, NEW toks, NEW cycle, NEW operands, NEW p \in operands,
         NEW more \in parse[<<cycle, toks, p.rest>>]
  PROVE  Parsed(p.out \o more.out, more.rest) \in Looped(parse, toks, cycle, operands)
<1> DEFINE On(q) == {Parsed(q.out \o m.out, m.rest) : m \in parse[<<cycle, toks, q.rest>>]}
<1>1. Parsed(p.out \o more.out, more.rest) \in On(p)
  OBVIOUS
<1>2. Looped(parse, toks, cycle, operands) = UNION {On(q) : q \in operands}
  BY DEF Looped
<1> HIDE DEF On
<1> QED
  BY <1>1, <1>2

LEMMA Productions ==
  ASSUME NEW toks \in Input, NEW i \in Index
  PROVE  /\ Parse[<<"primary", toks, i>>] = ParsePrimary(Parse, toks, i)
         /\ Parse[<<"power", toks, i>>] = ParsePower(Parse, toks, i)
         /\ Parse[<<"factor", toks, i>>] = ParseFactor(Parse, toks, i)
         /\ Parse[<<"products", toks, i>>] = ParseProducts(Parse, toks, i)
         /\ Parse[<<"term", toks, i>>] = ParseTerm(Parse, toks, i)
         /\ Parse[<<"sums", toks, i>>] = ParseSums(Parse, toks, i)
         /\ Parse[<<"expression", toks, i>>] = ParseExpression(Parse, toks, i)
<1>1. /\ "primary" \in Production /\ "power" \in Production /\ "factor" \in Production /\ "products" \in Production
      /\ "term" \in Production /\ "sums" \in Production /\ "expression" \in Production
  BY DEF Production
<1>2. ASSUME NEW p \in Production PROVE Parse[<<p, toks, i>>] = ParseNode(Parse, p, toks, i)
  BY ParseIs
<1> QED
  BY <1>1, <1>2 DEF ParseNode

LEMMA PrimaryFrom ==
  ASSUME NEW toks \in Input, NEW i \in Index, NEW x \in Parse[<<"primary", toks, i>>]
  PROVE  \/ TokenAt(toks, i) = Number /\ x = Parsed(<<Number>>, i + 1)
         \/ /\ TokenAt(toks, i) = "("
            /\ \E e \in Parse[<<"expression", toks, i + 1>>] :
                 TokenAt(toks, e.rest) = ")" /\ x = Parsed(e.out, e.rest + 1)
<1>1. x \in ParsePrimary(Parse, toks, i)
  BY Productions
<1> QED
  BY <1>1 DEF ParsePrimary, Number

LEMMA PowerFrom ==
  ASSUME NEW toks \in Input, NEW i \in Index, NEW x \in Parse[<<"power", toks, i>>]
  PROVE  \E b \in Parse[<<"primary", toks, i>>] :
           \/ TokenAt(toks, b.rest) # "^" /\ x = b
           \/ /\ TokenAt(toks, b.rest) = "^"
              /\ \E e \in Parse[<<"factor", toks, b.rest + 1>>] : x = Parsed(b.out \o Append(e.out, "^"), e.rest)
<1> DEFINE Taking(b) == IF TokenAt(toks, b.rest) = "^" THEN Powered(b, Parse[<<"factor", toks, b.rest + 1>>]) ELSE {b}
<1>1. x \in ParsePower(Parse, toks, i)
  BY Productions
<1>2. PICK b \in Parse[<<"primary", toks, i>>] : x \in Taking(b)
  BY <1>1 DEF ParsePower
<1>3. CASE TokenAt(toks, b.rest) = "^"
  <2>1. x \in Powered(b, Parse[<<"factor", toks, b.rest + 1>>])
    BY <1>2, <1>3
  <2>2. \E e \in Parse[<<"factor", toks, b.rest + 1>>] : x = Parsed(b.out \o Append(e.out, "^"), e.rest)
    BY <2>1 DEF Powered
  <2> QED
    BY <1>3, <2>2
<1>4. CASE TokenAt(toks, b.rest) # "^"
  BY <1>2, <1>4
<1> QED
  BY <1>3, <1>4

LEMMA PowerTo ==
  ASSUME NEW toks \in Input, NEW i \in Index, NEW b \in Parse[<<"primary", toks, i>>]
  PROVE  /\ TokenAt(toks, b.rest) # "^" => b \in Parse[<<"power", toks, i>>]
         /\ TokenAt(toks, b.rest) = "^" =>
              \A e \in Parse[<<"factor", toks, b.rest + 1>>] :
                Parsed(b.out \o Append(e.out, "^"), e.rest) \in Parse[<<"power", toks, i>>]
<1> DEFINE Taking(c) == IF TokenAt(toks, c.rest) = "^" THEN Powered(c, Parse[<<"factor", toks, c.rest + 1>>]) ELSE {c}
<1>1. Parse[<<"power", toks, i>>] = UNION {Taking(c) : c \in Parse[<<"primary", toks, i>>]}
  BY Productions DEF ParsePower
<1>2. TokenAt(toks, b.rest) # "^" => b \in Taking(b)
  OBVIOUS
<1>3. TokenAt(toks, b.rest) = "^" =>
        \A e \in Parse[<<"factor", toks, b.rest + 1>>] : Parsed(b.out \o Append(e.out, "^"), e.rest) \in Taking(b)
  BY DEF Powered
<1>4. Taking(b) \subseteq Parse[<<"power", toks, i>>]
  <2> HIDE DEF Taking
  <2> QED
    BY <1>1
<1> HIDE DEF Taking
<1> QED
  BY <1>2, <1>3, <1>4

LEMMA FactorIs ==
  ASSUME NEW toks \in Input, NEW i \in Index
  PROVE  Parse[<<"factor", toks, i>>] =
           IF TokenAt(toks, i) \in SumOps
           THEN {Parsed(Unary(TokenAt(toks, i), p.out), p.rest) : p \in Parse[<<"factor", toks, i + 1>>]}
           ELSE Parse[<<"power", toks, i>>]
<1>1. Parse[<<"factor", toks, i>>] = ParseFactor(Parse, toks, i)
  BY Productions
<1> QED
  BY <1>1 DEF ParseFactor

(* The heads of the two loops. *)
LEMMA LoopEnds ==
  ASSUME NEW toks \in Input, NEW i \in Index
  PROVE  /\ TokenAt(toks, i) \notin ProductOps => Parse[<<"products", toks, i>>] = {Parsed(<<>>, i)}
         /\ TokenAt(toks, i) \notin SumOps => Parse[<<"sums", toks, i>>] = {Parsed(<<>>, i)}
<1>1. /\ Parse[<<"products", toks, i>>] = ParseProducts(Parse, toks, i)
      /\ Parse[<<"sums", toks, i>>] = ParseSums(Parse, toks, i)
  BY Productions
<1> QED
  BY <1>1 DEF ParseProducts, ParseSums, LoopFrom

Step(c) == IF c = "products" THEN [ops |-> ProductOps, operand |-> "factor"] ELSE [ops |-> SumOps, operand |-> "term"]

LEMMA CycleIs ==
  ASSUME NEW toks \in Input, NEW i \in Index, NEW c \in Cycles, TokenAt(toks, i) \in Step(c).ops
  PROVE  Parse[<<c, toks, i>>] =
           Looped(Parse, toks, c,
                  {Parsed(Append(p.out, TokenAt(toks, i)), p.rest) : p \in Parse[<<Step(c).operand, toks, i + 1>>]})
<1>1. /\ Parse[<<"products", toks, i>>] = ParseProducts(Parse, toks, i)
      /\ Parse[<<"sums", toks, i>>] = ParseSums(Parse, toks, i)
  BY Productions
<1>2. CASE c = "products"
  BY <1>1, <1>2 DEF ParseProducts, LoopFrom, Step
<1>3. CASE c = "sums"
  BY <1>1, <1>3 DEF ParseSums, LoopFrom, Step
<1> QED
  BY <1>2, <1>3 DEF Cycles

LEMMA LoopGoesOn ==
  ASSUME NEW toks \in Input, NEW i \in Index, NEW c \in Cycles, TokenAt(toks, i) \in Step(c).ops,
         NEW x \in Parse[<<c, toks, i>>]
  PROVE  \E p \in Parse[<<Step(c).operand, toks, i + 1>>] : \E more \in Parse[<<c, toks, p.rest>>] :
           x = Parsed(Append(p.out, TokenAt(toks, i)) \o more.out, more.rest)
<1> DEFINE taken == {Parsed(Append(p.out, TokenAt(toks, i)), p.rest) : p \in Parse[<<Step(c).operand, toks, i + 1>>]}
<1>1. x \in Looped(Parse, toks, c, taken)
  BY CycleIs
<1>2. PICK t \in taken : \E more \in Parse[<<c, toks, t.rest>>] : x = Parsed(t.out \o more.out, more.rest)
  <2> HIDE DEF taken
  <2> QED
    BY <1>1, LoopedFrom
<1>3. PICK p \in Parse[<<Step(c).operand, toks, i + 1>>] : t = Parsed(Append(p.out, TokenAt(toks, i)), p.rest)
  OBVIOUS
<1>4. t.rest = p.rest /\ t.out = Append(p.out, TokenAt(toks, i))
  BY <1>3 DEF Parsed
<1> HIDE DEF taken
<1> QED
  BY <1>2, <1>4

LEMMA LoopTakes ==
  ASSUME NEW toks \in Input, NEW i \in Index, NEW c \in Cycles, TokenAt(toks, i) \in Step(c).ops,
         NEW p \in Parse[<<Step(c).operand, toks, i + 1>>], NEW more \in Parse[<<c, toks, p.rest>>]
  PROVE  Parsed(Append(p.out, TokenAt(toks, i)) \o more.out, more.rest) \in Parse[<<c, toks, i>>]
<1> DEFINE taken == {Parsed(Append(q.out, TokenAt(toks, i)), q.rest) : q \in Parse[<<Step(c).operand, toks, i + 1>>]}
           t == Parsed(Append(p.out, TokenAt(toks, i)), p.rest)
<1>1. Parse[<<c, toks, i>>] = Looped(Parse, toks, c, taken)
  BY CycleIs
<1>2. t \in taken /\ t.rest = p.rest /\ t.out = Append(p.out, TokenAt(toks, i))
  BY DEF Parsed
<1> HIDE DEF taken, t
<1>3. Parsed(t.out \o more.out, more.rest) \in Looped(Parse, toks, c, taken)
  BY <1>2, LoopedTo
<1> QED
  BY <1>1, <1>2, <1>3

LEMMA ListFrom ==
  ASSUME NEW toks \in Input, NEW i \in Index, NEW c \in Cycles,
         NEW x \in Parse[<<IF c = "products" THEN "term" ELSE "expression", toks, i>>]
  PROVE  \E p \in Parse[<<Step(c).operand, toks, i>>] : \E more \in Parse[<<c, toks, p.rest>>] :
           x = Parsed(p.out \o more.out, more.rest)
<1>1. x \in Looped(Parse, toks, c, Parse[<<Step(c).operand, toks, i>>])
  <2>1. CASE c = "products"
    <3>1. x \in ParseTerm(Parse, toks, i)
      BY <2>1, Productions
    <3> QED
      BY <2>1, <3>1 DEF ParseTerm, Step
  <2>2. CASE c = "sums"
    <3>1. x \in ParseExpression(Parse, toks, i)
      BY <2>2, Productions
    <3> QED
      BY <2>2, <3>1 DEF ParseExpression, Step
  <2> QED
    BY <2>1, <2>2 DEF Cycles
<1> QED
  BY <1>1, LoopedFrom

LEMMA ListTo ==
  ASSUME NEW toks \in Input, NEW i \in Index, NEW c \in Cycles,
         NEW p \in Parse[<<Step(c).operand, toks, i>>], NEW more \in Parse[<<c, toks, p.rest>>]
  PROVE  Parsed(p.out \o more.out, more.rest) \in Parse[<<IF c = "products" THEN "term" ELSE "expression", toks, i>>]
<1>1. Parsed(p.out \o more.out, more.rest) \in Looped(Parse, toks, c, Parse[<<Step(c).operand, toks, i>>])
  BY LoopedTo
<1>2. CASE c = "products"
  BY <1>1, <1>2, Productions DEF ParseTerm, Step
<1>3. CASE c = "sums"
  BY <1>1, <1>3, Productions DEF ParseExpression, Step
<1> QED
  BY <1>2, <1>3 DEF Cycles

----------------------------------------------------------------------------
(* What the parser computes is what is read *)

LEMMA OutcomesAre ==
  ASSUME NEW p \in Production, NEW toks \in Input, NEW i \in Index, NEW x \in Parse[<<p, toks, i>>]
  PROVE  /\ x = Parsed(x.out, x.rest) /\ x.out \in Seq(Symbol) /\ x.rest \in Index /\ i <= x.rest
         /\ p \notin Cycles => i < x.rest /\ i <= Len(toks) /\ i + 1 \in Index
<1>1. Ahead(Parse[<<p, toks, i>>], p, toks, i)
  BY ParseIs
<1>2. x \in Outcome /\ i <= x.rest /\ (p \notin Cycles => i < x.rest /\ i <= Len(toks))
  BY <1>1 DEF Ahead
<1>3. i <= Len(toks) => i + 1 \in Index
  BY TokensAre, InputAssumption DEF Index
<1> QED
  BY <1>2, <1>3 DEF Outcome, Parsed

(* What a production may return at a token. An operand or a list of them    *)
(* spans what it took and computes what the second reading has for it; the  *)
(* rest of a loop completes whatever was read before it.                    *)
NoSums(toks, i, j) == Infixes(toks, i, j, SumOps) = {}
NoProducts(toks, i, j) == Infixes(toks, i, j, ProductOps) = {}

Completes(toks, i, x, tight) ==
  \A h \in Index, l \in Seq(Symbol) :
    l \in Read[<<toks, h, i>>] /\ Whole(toks, h, i) /\ (tight => NoSums(toks, h, i))
    => /\ l \o x.out \in Read[<<toks, h, x.rest>>] /\ Whole(toks, h, x.rest)
       /\ tight => NoSums(toks, h, x.rest)

FitsReading(p, toks, i, x) ==
  /\ p = "products" => Completes(toks, i, x, TRUE)
  /\ p = "sums" => Completes(toks, i, x, FALSE)
  /\ p \notin Cycles => Whole(toks, i, x.rest) /\ x.out \in Read[<<toks, i, x.rest>>]
  /\ p = "primary" => Operand(toks, i, x.rest)
  /\ p \in {"power", "factor"} => NoProducts(toks, i, x.rest)
  /\ p \in {"power", "factor", "term"} => NoSums(toks, i, x.rest)

Sound(toks, n) ==
  \A q \in Production, k \in Index :
    Rank(q, toks, k) < n => \A x \in Parse[<<q, toks, k>>] : FitsReading(q, toks, k, x)

LEMMA ProductionsAre ==
  /\ {"primary", "power", "factor", "products", "term", "sums", "expression"} = Production
  /\ Cycles = {"products", "sums"} /\ Cycles \subseteq Production
  /\ \A q \in {"primary", "power", "factor", "term", "expression"} : q \in Production \ Cycles
  BY DEF Production, Cycles

LEMMA FitsLater ==
  ASSUME NEW toks \in Input, NEW i \in Index, NEW k \in Index, i < k, i <= Len(toks),
         NEW p \in Production, NEW q \in Production, Sound(toks, Rank(p, toks, i)), NEW x \in Parse[<<q, toks, k>>]
  PROVE  FitsReading(q, toks, k, x)
<1>1. Rank(q, toks, k) < Rank(p, toks, i)
  BY RanksLater
<1> QED
  BY <1>1 DEF Sound

LEMMA FitsHere ==
  ASSUME NEW toks \in Input, NEW i \in Index, NEW p \in Production, NEW q \in Production, Level[q] < Level[p],
         Sound(toks, Rank(p, toks, i)), NEW x \in Parse[<<q, toks, i>>]
  PROVE  FitsReading(q, toks, i, x)
<1>1. Rank(q, toks, i) < Rank(p, toks, i)
  BY RanksHere
<1> QED
  BY <1>1 DEF Sound

LEMMA Regroup ==
  ASSUME NEW s \in Seq(Symbol), NEW t \in Seq(Symbol), NEW u \in Seq(Symbol)
  PROVE  (s \o t) \o u = s \o (t \o u)
  BY ConcatAssociative

LEMMA PrimaryFits ==
  ASSUME NEW toks \in Input, NEW i \in Index, Sound(toks, Rank("primary", toks, i)),
         NEW x \in Parse[<<"primary", toks, i>>]
  PROVE  FitsReading("primary", toks, i, x)
<1>0. /\ i \in Nat /\ i < i + 1 /\ i + 1 \in Index /\ i <= Len(toks)
      /\ "primary" \in Production /\ "primary" \notin Cycles
      /\ "expression" \in Production /\ "expression" \notin Cycles
  <2>1. i \in Nat
    BY DEF Index
  <2>2. "primary" \in Production /\ "primary" \notin Cycles /\ "expression" \in Production /\ "expression" \notin Cycles
    BY ProductionsAre
  <2> QED
    BY <2>1, <2>2, OutcomesAre
<1>1. Operand(toks, i, x.rest) /\ x.out \in Read[<<toks, i, x.rest>>]
  <2>1. CASE TokenAt(toks, i) = Number /\ x = Parsed(<<Number>>, i + 1)
    BY <2>1, NumberIsRead DEF Parsed
  <2>2. CASE /\ TokenAt(toks, i) = "("
             /\ \E e \in Parse[<<"expression", toks, i + 1>>] :
                  TokenAt(toks, e.rest) = ")" /\ x = Parsed(e.out, e.rest + 1)
    <3>1. PICK e \in Parse[<<"expression", toks, i + 1>>] : TokenAt(toks, e.rest) = ")" /\ x = Parsed(e.out, e.rest + 1)
      BY <2>2
    <3>2. FitsReading("expression", toks, i + 1, e)
      BY <1>0, FitsLater
    <3>3. e.rest \in Index
      BY <1>0, OutcomesAre
    <3>4. Whole(toks, i + 1, e.rest) /\ e.out \in Read[<<toks, i + 1, e.rest>>]
      BY <1>0, <3>2 DEF FitsReading
    <3>5. Operand(toks, i, e.rest + 1) /\ e.out \in Read[<<toks, i, e.rest + 1>>]
      BY <2>2, <3>1, <3>3, <3>4, EnclosedIsRead
    <3> QED
      BY <3>1, <3>5 DEF Parsed
  <2> QED
    BY <2>1, <2>2, PrimaryFrom
<1> QED
  BY <1>1, ProductionsAre DEF FitsReading, Operand

LEMMA PowerFits ==
  ASSUME NEW toks \in Input, NEW i \in Index, Sound(toks, Rank("power", toks, i)),
         NEW x \in Parse[<<"power", toks, i>>]
  PROVE  FitsReading("power", toks, i, x)
<1>0. /\ "primary" \in Production /\ "primary" \notin Cycles /\ "factor" \in Production /\ "factor" \notin Cycles
      /\ "power" \in Production /\ i \in Nat
  BY ProductionsAre DEF Index
<1>1. PICK b \in Parse[<<"primary", toks, i>>] :
        \/ TokenAt(toks, b.rest) # "^" /\ x = b
        \/ /\ TokenAt(toks, b.rest) = "^"
           /\ \E e \in Parse[<<"factor", toks, b.rest + 1>>] : x = Parsed(b.out \o Append(e.out, "^"), e.rest)
  BY PowerFrom
<1>2. FitsReading("primary", toks, i, b)
  BY <1>0, FitsHere, LevelIs
<1>3. b.rest \in Index /\ i < b.rest /\ i <= Len(toks) /\ b.rest \in Nat
  <2>1. b.rest \in Index /\ i < b.rest /\ i <= Len(toks)
    BY <1>0, OutcomesAre
  <2> QED
    BY <2>1 DEF Index
<1>4. Operand(toks, i, b.rest) /\ b.out \in Read[<<toks, i, b.rest>>]
  BY <1>0, <1>2 DEF FitsReading
<1>5. /\ Whole(toks, i, x.rest) /\ x.out \in Read[<<toks, i, x.rest>>]
      /\ NoProducts(toks, i, x.rest) /\ NoSums(toks, i, x.rest)
  <2>1. CASE x = b
    <3>1. SumOps \subseteq Operator /\ ProductOps \subseteq Operator
      BY DEF Operator
    <3> QED
      BY <2>1, <1>4, <3>1 DEF Operand, NoSums, NoProducts
  <2>2. CASE /\ TokenAt(toks, b.rest) = "^"
             /\ \E e \in Parse[<<"factor", toks, b.rest + 1>>] : x = Parsed(b.out \o Append(e.out, "^"), e.rest)
    <3>1. PICK e \in Parse[<<"factor", toks, b.rest + 1>>] : x = Parsed(b.out \o Append(e.out, "^"), e.rest)
      BY <2>2
    <3>2. b.rest + 1 \in Index /\ toks[b.rest] = "^" /\ i < b.rest + 1
      BY <1>0, <1>3, <2>2, TokenIsIn
    <3>3. FitsReading("factor", toks, b.rest + 1, e)
      BY <1>0, <1>3, <3>2, FitsLater
    <3>4. e.rest \in Index
      BY <1>0, <3>2, OutcomesAre
    <3>5. /\ Whole(toks, b.rest + 1, e.rest) /\ e.out \in Read[<<toks, b.rest + 1, e.rest>>]
          /\ Infixes(toks, b.rest + 1, e.rest, SumOps) = {} /\ Infixes(toks, b.rest + 1, e.rest, ProductOps) = {}
      BY <1>0, <3>3 DEF FitsReading, NoSums, NoProducts
    <3>6. /\ Whole(toks, i, e.rest)
          /\ Infixes(toks, i, e.rest, SumOps) = {} /\ Infixes(toks, i, e.rest, ProductOps) = {}
          /\ b.out \o Append(e.out, "^") \in Read[<<toks, i, e.rest>>]
      BY <1>3, <1>4, <3>2, <3>4, <3>5, PowerJoins
    <3> QED
      BY <3>1, <3>6 DEF NoSums, NoProducts, Parsed
  <2> QED
    BY <1>1, <2>1, <2>2
<1> QED
  BY <1>5, ProductionsAre DEF FitsReading

LEMMA FactorFits ==
  ASSUME NEW toks \in Input, NEW i \in Index, Sound(toks, Rank("factor", toks, i)),
         NEW x \in Parse[<<"factor", toks, i>>]
  PROVE  FitsReading("factor", toks, i, x)
<1>0. /\ "power" \in Production /\ "power" \notin Cycles /\ "factor" \in Production /\ "factor" \notin Cycles
      /\ i \in Nat
  BY ProductionsAre DEF Index
<1>1. CASE TokenAt(toks, i) \in SumOps
  <2>1. PICK p \in Parse[<<"factor", toks, i + 1>>] : x = Parsed(Unary(TokenAt(toks, i), p.out), p.rest)
    BY <1>1, FactorIs
  <2>2. i + 1 \in Index /\ i < i + 1 /\ i <= Len(toks) /\ toks[i] = TokenAt(toks, i)
    <3>1. i + 1 \in Index /\ i <= Len(toks)
      BY <1>0, OutcomesAre
    <3>2. TokenAt(toks, i) # "end"
      BY <1>1 DEF SumOps
    <3> QED
      BY <1>0, <3>1, <3>2, TokenIsIn
  <2>3. FitsReading("factor", toks, i + 1, p)
    BY <1>0, <2>2, FitsLater
  <2>4. p.rest \in Index
    BY <1>0, <2>2, OutcomesAre
  <2>5. /\ Whole(toks, i + 1, p.rest) /\ p.out \in Read[<<toks, i + 1, p.rest>>]
        /\ Infixes(toks, i + 1, p.rest, SumOps) = {} /\ Infixes(toks, i + 1, p.rest, ProductOps) = {}
    BY <1>0, <2>3 DEF FitsReading, NoSums, NoProducts
  <2>6. /\ Whole(toks, i, p.rest) /\ Infixes(toks, i, p.rest, SumOps) = {} /\ Infixes(toks, i, p.rest, ProductOps) = {}
        /\ Unary(toks[i], p.out) \in Read[<<toks, i, p.rest>>]
    BY <1>1, <2>2, <2>4, <2>5, SignJoins
  <2>7. x.rest = p.rest /\ x.out = Unary(toks[i], p.out)
    BY <2>1, <2>2 DEF Parsed
  <2> QED
    BY <2>6, <2>7, ProductionsAre DEF NoSums, NoProducts, FitsReading
<1>2. CASE TokenAt(toks, i) \notin SumOps
  <2>1. x \in Parse[<<"power", toks, i>>]
    BY <1>2, FactorIs
  <2>2. FitsReading("power", toks, i, x)
    BY <1>0, <2>1, FitsHere, LevelIs
  <2> QED
    BY <2>2, ProductionsAre DEF FitsReading
<1> QED
  BY <1>1, <1>2

LEMMA CycleFits ==
  ASSUME NEW toks \in Input, NEW i \in Index, NEW c \in Cycles, Sound(toks, Rank(c, toks, i)),
         NEW x \in Parse[<<c, toks, i>>]
  PROVE  Completes(toks, i, x, c = "products")
<1>0. c \in Production /\ i \in Nat /\ Step(c).operand \in Production \ Cycles
  BY ProductionsAre DEF Index, Step
<1> SUFFICES ASSUME NEW h \in Index, NEW l \in Seq(Symbol), l \in Read[<<toks, h, i>>], Whole(toks, h, i),
                    c = "products" => NoSums(toks, h, i)
             PROVE  /\ l \o x.out \in Read[<<toks, h, x.rest>>] /\ Whole(toks, h, x.rest)
                    /\ c = "products" => NoSums(toks, h, x.rest)
  BY DEF Completes
<1>1. CASE TokenAt(toks, i) \notin Step(c).ops
  <2>1. x = Parsed(<<>>, i)
    BY <1>1, LoopEnds DEF Step, Cycles
  <2>2. x.out = <<>> /\ x.rest = i
    BY <2>1 DEF Parsed
  <2>3. l \o <<>> = l
    BY ConcatEmptySeq
  <2> QED
    BY <2>2, <2>3
<1>2. CASE TokenAt(toks, i) \in Step(c).ops
  <2>1. PICK p \in Parse[<<Step(c).operand, toks, i + 1>>] : \E more \in Parse[<<c, toks, p.rest>>] :
           x = Parsed(Append(p.out, TokenAt(toks, i)) \o more.out, more.rest)
    BY <1>2, LoopGoesOn
  <2>2. PICK more \in Parse[<<c, toks, p.rest>>] : x = Parsed(Append(p.out, TokenAt(toks, i)) \o more.out, more.rest)
    BY <2>1
  <2> DEFINE op == TokenAt(toks, i)
             soFar == l \o Append(p.out, op)
  <2>3. i \in 1 .. Len(toks) /\ i + 1 \in Index /\ toks[i] = op /\ op \in Symbol
    <3>1. op # "end" /\ op \in Symbol
      BY <1>2 DEF Step, SumOps, ProductOps, Symbol
    <3> QED
      BY <1>0, <3>1, TokenIsIn
  <2>4. p.rest \in Index /\ p.out \in Seq(Symbol) /\ i + 1 < p.rest /\ p.rest \in Nat
    <3>1. p.rest \in Index /\ p.out \in Seq(Symbol) /\ i + 1 < p.rest
      BY <1>0, <2>3, OutcomesAre
    <3> QED
      BY <3>1 DEF Index
  <2>5. more.out \in Seq(Symbol)
    BY <1>0, <2>4, OutcomesAre
  <2>6. FitsReading(Step(c).operand, toks, i + 1, p)
    BY <1>0, <2>3, FitsLater
  <2>7. FitsReading(c, toks, p.rest, more)
    BY <1>0, <2>3, <2>4, FitsLater
  <2>8. /\ Whole(toks, i + 1, p.rest) /\ p.out \in Read[<<toks, i + 1, p.rest>>]
        /\ Infixes(toks, i + 1, p.rest, SumOps) = {}
        /\ c = "products" => Infixes(toks, i + 1, p.rest, ProductOps) = {}
    BY <1>0, <2>6, ProductionsAre DEF FitsReading, Step, NoSums, NoProducts
  <2>9. /\ Whole(toks, h, p.rest) /\ soFar \in Read[<<toks, h, p.rest>>]
        /\ c = "products" => NoSums(toks, h, p.rest)
    <3>1. CASE c = "products"
      <4>1. toks[i] \in ProductOps
        BY <1>2, <2>3, <3>1 DEF Step
      <4>2. Infixes(toks, h, i, SumOps) = {}
        BY <3>1 DEF NoSums
      <4> QED
        BY <2>3, <2>4, <2>8, <3>1, <4>1, <4>2, ProductJoins DEF NoSums
    <3>2. CASE c = "sums"
      <4>1. toks[i] \in SumOps
        BY <1>2, <2>3, <3>2 DEF Step
      <4> QED
        BY <2>3, <2>4, <2>8, <3>2, <4>1, SumJoins
    <3> QED
      BY <3>1, <3>2 DEF Cycles
  <2>10. Append(p.out, op) \in Seq(Symbol) /\ soFar \in Seq(Symbol)
    <3>1. Append(p.out, op) \in Seq(Symbol)
      BY <2>3, <2>4, AppendProperties
    <3> QED
      BY <3>1, ConcatProperties
  <2>11. soFar \o more.out = l \o x.out /\ x.rest = more.rest
    <3>1. x.out = Append(p.out, op) \o more.out /\ x.rest = more.rest
      BY <2>2 DEF Parsed
    <3>2. (l \o Append(p.out, op)) \o more.out = l \o (Append(p.out, op) \o more.out)
      BY <2>5, <2>10, Regroup
    <3> QED
      BY <3>1, <3>2
  <2>12. Completes(toks, p.rest, more, c = "products")
    <3>1. CASE c = "products"
      <4>1. (c = "products") = TRUE
        BY <3>1
      <4>2. Completes(toks, p.rest, more, TRUE)
        BY <2>7, <3>1 DEF FitsReading
      <4> QED
        BY <4>1, <4>2
    <3>2. CASE c = "sums"
      <4>1. (c = "products") = FALSE
        BY <3>2
      <4>2. Completes(toks, p.rest, more, FALSE)
        BY <2>7, <3>2 DEF FitsReading
      <4> QED
        BY <4>1, <4>2
    <3> QED
      BY <3>1, <3>2 DEF Cycles
  <2> HIDE DEF soFar
  <2>13. /\ soFar \o more.out \in Read[<<toks, h, more.rest>>] /\ Whole(toks, h, more.rest)
         /\ c = "products" => NoSums(toks, h, more.rest)
    BY <2>9, <2>10, <2>12 DEF Completes
  <2> QED
    BY <2>11, <2>13
<1> QED
  BY <1>1, <1>2

LEMMA ListFits ==
  ASSUME NEW toks \in Input, NEW i \in Index, NEW c \in Cycles, NEW p \in Production,
         p = IF c = "products" THEN "term" ELSE "expression",
         Sound(toks, Rank(p, toks, i)), NEW x \in Parse[<<p, toks, i>>]
  PROVE  FitsReading(p, toks, i, x)
<1>0. c \in Production /\ i \in Nat /\ Step(c).operand \in Production \ Cycles /\ Level[Step(c).operand] < Level[p]
  BY ProductionsAre, LevelIs DEF Index, Step
<1>1. PICK o \in Parse[<<Step(c).operand, toks, i>>] : \E more \in Parse[<<c, toks, o.rest>>] :
           x = Parsed(o.out \o more.out, more.rest)
  BY ListFrom
<1>2. PICK more \in Parse[<<c, toks, o.rest>>] : x = Parsed(o.out \o more.out, more.rest)
  BY <1>1
<1>3. o.rest \in Index /\ o.out \in Seq(Symbol) /\ i < o.rest /\ i <= Len(toks)
  BY <1>0, OutcomesAre
<1>4. FitsReading(Step(c).operand, toks, i, o)
  BY <1>0, FitsHere
<1>5. FitsReading(c, toks, o.rest, more)
  BY <1>0, <1>3, FitsLater
<1>6. /\ Whole(toks, i, o.rest) /\ o.out \in Read[<<toks, i, o.rest>>] /\ NoSums(toks, i, o.rest)
  BY <1>0, <1>4, ProductionsAre DEF FitsReading, Step
<1>7. x.out = o.out \o more.out /\ x.rest = more.rest
  BY <1>2 DEF Parsed
<1>8. CASE c = "products"
  <2>1. Completes(toks, o.rest, more, TRUE)
    BY <1>5, <1>8 DEF FitsReading
  <2>2. /\ o.out \o more.out \in Read[<<toks, i, more.rest>>] /\ Whole(toks, i, more.rest)
        /\ NoSums(toks, i, more.rest)
    BY <2>1, <1>3, <1>6 DEF Completes
  <2> QED
    BY <1>7, <1>8, <2>2, ProductionsAre DEF FitsReading
<1>9. CASE c = "sums"
  <2>1. Completes(toks, o.rest, more, FALSE)
    BY <1>5, <1>9 DEF FitsReading
  <2>2. o.out \o more.out \in Read[<<toks, i, more.rest>>] /\ Whole(toks, i, more.rest)
    BY <2>1, <1>3, <1>6 DEF Completes
  <2> QED
    BY <1>7, <1>9, <2>2, ProductionsAre DEF FitsReading
<1> QED
  BY <1>8, <1>9 DEF Cycles

(* By the rank of the call, as the recursion itself goes. *)
LEMMA ParseIsSound ==
  ASSUME NEW p \in Production, NEW toks \in Input, NEW i \in Index, NEW x \in Parse[<<p, toks, i>>]
  PROVE  FitsReading(p, toks, i, x)
<1> DEFINE top == Rank(p, toks, i) + 1
           good == {n \in 0 .. top : Sound(toks, n)}
<1>1. \A q \in Production, k \in Index : Rank(q, toks, k) \in Nat
  BY InputAssumption, LevelIs DEF Rank, Left, Input, Index
<1>2. 0 \in good /\ top \in Nat
  BY <1>1 DEF Sound
<1>3. ASSUME NEW n \in 1 .. top, n - 1 \in good PROVE n \in good
  <2> SUFFICES ASSUME NEW q \in Production, NEW k \in Index, Rank(q, toks, k) < n, NEW y \in Parse[<<q, toks, k>>]
               PROVE  FitsReading(q, toks, k, y)
    BY DEF Sound
  <2>1. Sound(toks, Rank(q, toks, k))
    <3> SUFFICES ASSUME NEW r \in Production, NEW j \in Index, Rank(r, toks, j) < Rank(q, toks, k)
                 PROVE  \A z \in Parse[<<r, toks, j>>] : FitsReading(r, toks, j, z)
      BY DEF Sound
    <3>1. Rank(r, toks, j) < n - 1
      BY <1>1
    <3> QED
      BY <1>3, <3>1 DEF Sound
  <2>2. CASE q \in Cycles
    <3>1. Completes(toks, k, y, q = "products")
      BY <2>1, <2>2, CycleFits
    <3>2. CASE q = "products"
      <4>1. (q = "products") = TRUE
        BY <3>2
      <4> QED
        BY <3>1, <3>2, <4>1, ProductionsAre DEF FitsReading
    <3>3. CASE q = "sums"
      <4>1. (q = "products") = FALSE
        BY <3>3
      <4> QED
        BY <3>1, <3>3, <4>1, ProductionsAre DEF FitsReading
    <3> QED
      BY <2>2, <3>2, <3>3 DEF Cycles
  <2>3. CASE q = "primary"
    BY <2>1, <2>3, PrimaryFits
  <2>4. CASE q = "power"
    BY <2>1, <2>4, PowerFits
  <2>5. CASE q = "factor"
    BY <2>1, <2>5, FactorFits
  <2>6. CASE q = "term"
    <3>1. "products" \in Cycles /\ q = IF "products" = "products" THEN "term" ELSE "expression"
      BY <2>6, ProductionsAre
    <3> QED
      BY <2>1, <3>1, ListFits
  <2>7. CASE q = "expression"
    <3>1. "sums" \in Cycles /\ q = IF "sums" = "products" THEN "term" ELSE "expression"
      BY <2>7, ProductionsAre
    <3> QED
      BY <2>1, <3>1, ListFits
  <2> QED
    BY <2>2, <2>3, <2>4, <2>5, <2>6, <2>7 DEF Production, Cycles
<1>4. Sound(toks, top)
  <2> HIDE DEF top
  <2>1. good = 0 .. top
    BY <1>2, <1>3, NoFirstFailure
  <2> QED
    BY <1>2, <2>1
<1> QED
  BY <1>1, <1>4 DEF Sound

----------------------------------------------------------------------------
(* What is read the parser computes *)

(* A span that the second reading reads is parsed to its end, by the first  *)
(* production that its operators and the token behind it allow.             *)
NoPowers(toks, i, j) == Infixes(toks, i, j, {"^"}) = {}

Finds(toks, i, j) ==
  \A o \in Read[<<toks, i, j>>] :
    /\ NoSums(toks, i, j) /\ NoProducts(toks, i, j) /\ NoPowers(toks, i, j) /\ toks[i] \notin SumOps
       => Parsed(o, j) \in Parse[<<"primary", toks, i>>]
    /\ NoSums(toks, i, j) /\ NoProducts(toks, i, j) /\ TokenAt(toks, j) # "^"
       => Parsed(o, j) \in Parse[<<"factor", toks, i>>]
    /\ NoSums(toks, i, j) /\ TokenAt(toks, j) # "^"
       => \A m \in Parse[<<"products", toks, j>>] : Parsed(o \o m.out, m.rest) \in Parse[<<"term", toks, i>>]
    /\ TokenAt(toks, j) \notin ProductOps \cup {"^"}
       => \A m \in Parse[<<"sums", toks, j>>] : Parsed(o \o m.out, m.rest) \in Parse[<<"expression", toks, i>>]

FindsBelow(toks, n) ==
  \A h \in Index, k \in Index : k <= Len(toks) + 1 /\ Size(h, k) < n => Finds(toks, h, k)

LEMMA SpansAreNotEmpty ==
  ASSUME NEW toks \in Input, NEW i \in Index, NEW j \in Index, NEW o \in Read[<<toks, i, j>>]
  PROVE  i < j /\ o \in Seq(Symbol)
<1>1. o \in ReadNode(Read, toks, i, j) /\ o \in Seq(Symbol)
  BY ReadIs
<1>2. ASSUME ~ (i < j) PROVE FALSE
  <2>0. i \in Nat /\ j \in Nat
    BY DEF Index
  <2>1. ASSUME NEW ops, NEW x \in Infixes(toks, i, j, ops) PROVE FALSE
    BY <1>2, <2>0, <2>1, InfixesIn
  <2>2. \A ops : Infixes(toks, i, j, ops) = {}
    BY <2>1
  <2>3. ~ (i < j) /\ i + 1 # j /\ ~ (i + 2 < j)
    BY <1>2, <2>0
  <2>4. ReadNode(Read, toks, i, j) = {}
    BY <2>2, <2>3 DEF ReadNode
  <2> QED
    BY <1>1, <2>4
<1> QED
  BY <1>1, <1>2

(* An operator parts a span into two whose operators are among its own. *)
LEMMA Parted ==
  ASSUME NEW toks \in Input, NEW i \in Index, NEW j \in Index, j <= Len(toks) + 1, NEW ops,
         NEW k \in Infixes(toks, i, j, ops)
  PROVE  /\ k \in Nat /\ k \in Index /\ k + 1 \in Index /\ k <= Len(toks) + 1 /\ i < k /\ k < j
         /\ toks[k] \in ops /\ TokenAt(toks, k) = toks[k]
         /\ Size(i, k) < Size(i, j) /\ Size(k + 1, j) < Size(i, j)
         /\ \A other : /\ \A x \in Infixes(toks, i, k, other) : x \in Infixes(toks, i, j, other) /\ x < k
                       /\ \A x \in Infixes(toks, k + 1, j, other) : x \in Infixes(toks, i, j, other) /\ k < x
<1>1. k \in Nat /\ i \in Nat /\ j \in Nat /\ i < k /\ k < j /\ i >= 1 /\ Len(toks) \in Nat
  BY InfixesIn, TokensAre DEF Index
<1>2. k \in Index /\ k + 1 \in Index /\ k <= Len(toks) + 1 /\ k \in 1 .. Len(toks)
  BY <1>1, InputAssumption DEF Index
<1>3. toks[k] \in ops /\ Deep(toks, k) = Deep(toks, i - 1)
  BY DEF Infixes
<1>4. Size(i, k) < Size(i, j) /\ Size(k + 1, j) < Size(i, j)
  BY <1>1 DEF Size
<1>5. ASSUME NEW other, NEW x \in Infixes(toks, i, k, other) PROVE x \in Infixes(toks, i, j, other) /\ x < k
  BY <1>1 DEF Infixes
<1>6. ASSUME NEW other, NEW x \in Infixes(toks, k + 1, j, other) PROVE x \in Infixes(toks, i, j, other) /\ k < x
  <2>1. (k + 1) - 1 = k
    BY <1>1
  <2>2. /\ x \in (k + 1) + 1 .. j - 1 /\ toks[x] \in other
        /\ toks[x - 1] \in {Number, ")"} /\ Deep(toks, x) = Deep(toks, (k + 1) - 1)
    BY Zenon DEF Infixes
  <2>3. Deep(toks, x) = Deep(toks, i - 1)
    BY <1>3, <2>1, <2>2
  <2>4. x \in i + 1 .. j - 1 /\ k < x
    BY <1>1, <2>2
  <2> QED
    BY <2>2, <2>3, <2>4 DEF Infixes
<1>7. TokenAt(toks, k) = toks[k]
  BY <1>2, TokensAre
<1> QED
  BY <1>1, <1>2, <1>3, <1>4, <1>5, <1>6, <1>7

(* The last sum, the last product and the first power are where it splits. *)
LEMMA LastOperator ==
  ASSUME NEW toks \in Input, NEW i \in Index, NEW j \in Index, j <= Len(toks) + 1, NEW ops,
         Infixes(toks, i, j, ops) # {}
  PROVE  LET k == LastIn(Infixes(toks, i, j, ops))
         IN  k \in Infixes(toks, i, j, ops) /\ Infixes(toks, k + 1, j, ops) = {}
<1> DEFINE S == Infixes(toks, i, j, ops)
           k == LastIn(S)
<1>1. S \in SUBSET Index /\ S # {}
  BY InfixesAre
<1>2. k \in S /\ \A l \in S : l <= k
  <2> HIDE DEF S
  <2> QED
    BY <1>1, LastIs
<1>3. ASSUME NEW x \in Infixes(toks, k + 1, j, ops) PROVE FALSE
  <2> HIDE DEF k
  <2>0. k \in Nat /\ \A other : \A y \in Infixes(toks, k + 1, j, other) : y \in Infixes(toks, i, j, other) /\ k < y
    BY <1>2, Parted
  <2>1. x \in S /\ k < x /\ k \in Nat
    BY <1>3, <2>0
  <2>2. x \in Nat /\ x <= k
    BY <1>1, <1>2, <2>1 DEF Index
  <2> QED
    BY <2>1, <2>2
<1> QED
  BY <1>2, <1>3

LEMMA FirstOperator ==
  ASSUME NEW toks \in Input, NEW i \in Index, NEW j \in Index, j <= Len(toks) + 1, NEW ops,
         Infixes(toks, i, j, ops) # {}
  PROVE  LET k == FirstIn(Infixes(toks, i, j, ops))
         IN  k \in Infixes(toks, i, j, ops) /\ Infixes(toks, i, k, ops) = {}
<1> DEFINE S == Infixes(toks, i, j, ops)
           k == FirstIn(S)
<1>1. S \in SUBSET Index /\ S # {}
  BY InfixesAre
<1>2. k \in S /\ \A l \in S : k <= l
  <2> HIDE DEF S
  <2> QED
    BY <1>1, FirstIs
<1>3. ASSUME NEW x \in Infixes(toks, i, k, ops) PROVE FALSE
  <2> HIDE DEF k
  <2>0. k \in Nat /\ \A other : \A y \in Infixes(toks, i, k, other) : y \in Infixes(toks, i, j, other) /\ y < k
    BY <1>2, Parted
  <2>1. x \in S /\ x < k /\ k \in Nat
    BY <1>3, <2>0
  <2>2. x \in Nat /\ k <= x
    BY <1>1, <1>2, <2>1 DEF Index
  <2> QED
    BY <2>1, <2>2
<1> QED
  BY <1>2, <1>3

LEMMA PrimaryFound ==
  ASSUME NEW toks \in Input, NEW i \in Index, NEW j \in Index, j <= Len(toks) + 1,
         FindsBelow(toks, Size(i, j)), NEW o \in Read[<<toks, i, j>>],
         NoSums(toks, i, j), NoProducts(toks, i, j), NoPowers(toks, i, j), toks[i] \notin SumOps
  PROVE  Parsed(o, j) \in Parse[<<"primary", toks, i>>]
<1>0. i \in Nat /\ j \in Nat /\ i < j /\ Len(toks) \in Nat /\ i >= 1 /\ o \in Seq(Symbol)
  BY SpansAreNotEmpty, TokensAre DEF Index
<1>1. i \in 1 .. Len(toks) /\ TokenAt(toks, i) = toks[i]
  <2>1. i \in 1 .. Len(toks)
    BY <1>0
  <2> QED
    BY <2>1, TokensAre
<1>2. Parse[<<"primary", toks, i>>] = ParsePrimary(Parse, toks, i)
  BY Productions
<1>3. o \in IF i + 1 = j /\ toks[i] = Number THEN {<<Number>>}
            ELSE IF i + 2 < j /\ toks[i] = "(" /\ toks[j - 1] = ")" THEN Read[<<toks, i + 1, j - 1>>]
            ELSE {}
  BY ReadIs DEF ReadNode, NoSums, NoProducts, NoPowers
<1>4. CASE i + 1 = j /\ toks[i] = Number
  <2>1. o = <<Number>>
    BY <1>3, <1>4
  <2>2. ParsePrimary(Parse, toks, i) = {Parsed(<<Number>>, i + 1)}
    BY <1>1, <1>4 DEF ParsePrimary, Number
  <2> QED
    BY <1>2, <1>4, <2>1, <2>2
<1>5. CASE ~ (i + 1 = j /\ toks[i] = Number)
  <2>1. i + 2 < j /\ toks[i] = "(" /\ toks[j - 1] = ")" /\ o \in Read[<<toks, i + 1, j - 1>>]
    BY <1>3, <1>5
  <2>2. /\ i + 1 \in Index /\ j - 1 \in Index /\ j - 1 <= Len(toks) + 1 /\ Size(i + 1, j - 1) < Size(i, j)
        /\ j - 1 \in 1 .. Len(toks) /\ (j - 1) + 1 = j
    BY <1>0, <2>1, InputAssumption DEF Index, Size
  <2>3. TokenAt(toks, j - 1) = ")"
    BY <2>1, <2>2, TokensAre
  <2>4. Finds(toks, i + 1, j - 1)
    BY <2>2 DEF FindsBelow
  <2>5. ")" \notin ProductOps \cup {"^"} /\ ")" \notin SumOps
    BY DEF ProductOps, SumOps
  <2>6. \A m \in Parse[<<"sums", toks, j - 1>>] : Parsed(o \o m.out, m.rest) \in Parse[<<"expression", toks, i + 1>>]
    BY <2>1, <2>3, <2>4, <2>5 DEF Finds
  <2>7. Parse[<<"sums", toks, j - 1>>] = {Parsed(<<>>, j - 1)}
    BY <2>2, <2>3, <2>5, LoopEnds
  <2>8. Parsed(o, j - 1) \in Parse[<<"expression", toks, i + 1>>]
    <3>1. Parsed(<<>>, j - 1).out = <<>> /\ Parsed(<<>>, j - 1).rest = j - 1
      BY DEF Parsed
    <3>2. o \o <<>> = o
      BY <1>0, ConcatEmptySeq
    <3>3. Parsed(o \o Parsed(<<>>, j - 1).out, Parsed(<<>>, j - 1).rest) \in Parse[<<"expression", toks, i + 1>>]
      BY <2>6, <2>7
    <3> QED
      BY <3>1, <3>2, <3>3
  <2>9. Parsed(o, j - 1).out = o /\ Parsed(o, j - 1).rest = j - 1
    BY DEF Parsed
  <2>10. ParsePrimary(Parse, toks, i) =
           {Parsed(e.out, e.rest + 1) :
              e \in {x \in Parse[<<"expression", toks, i + 1>>] : TokenAt(toks, x.rest) = ")"}}
    BY <1>1, <2>1 DEF ParsePrimary, Number
  <2> DEFINE e == Parsed(o, j - 1)
  <2>11. e \in Parse[<<"expression", toks, i + 1>>] /\ e.out = o /\ e.rest = j - 1
    BY <2>8, <2>9
  <2> HIDE DEF e
  <2>12. Parsed(e.out, e.rest + 1) \in ParsePrimary(Parse, toks, i)
    BY <2>3, <2>10, <2>11
  <2> QED
    BY <1>2, <2>2, <2>11, <2>12
<1> QED
  BY <1>4, <1>5

LEMMA FactorFound ==
  ASSUME NEW toks \in Input, NEW i \in Index, NEW j \in Index, j <= Len(toks) + 1,
         FindsBelow(toks, Size(i, j)), NEW o \in Read[<<toks, i, j>>],
         NoSums(toks, i, j), NoProducts(toks, i, j), TokenAt(toks, j) # "^"
  PROVE  Parsed(o, j) \in Parse[<<"factor", toks, i>>]
<1>0. i \in Nat /\ j \in Nat /\ i < j /\ Len(toks) \in Nat /\ i >= 1
  BY SpansAreNotEmpty, TokensAre DEF Index
<1>1. i \in 1 .. Len(toks) /\ TokenAt(toks, i) = toks[i] /\ i + 1 \in Index
  <2>1. i \in 1 .. Len(toks)
    BY <1>0
  <2> QED
    BY <2>1, TokensAre
<1>2. CASE toks[i] \in SumOps
  <2>1. Read[<<toks, i, j>>] = {Unary(toks[i], x) : x \in Read[<<toks, i + 1, j>>]}
    BY <1>0, <1>2, ReadIs DEF ReadNode, NoSums, NoProducts
  <2>2. PICK r \in Read[<<toks, i + 1, j>>] : o = Unary(toks[i], r)
    BY <2>1
  <2>3. \A ops : Infixes(toks, i + 1, j, ops) \subseteq Infixes(toks, i, j, ops)
    <3>1. toks[i] \notin {"(", ")"}
      BY <1>2 DEF SumOps
    <3>2. Deep(toks, i) = Deep(toks, i - 1)
      BY <1>1, <3>1, DeepStep
    <3>3. (i + 1) - 1 = i
      BY <1>0
    <3>4. ASSUME NEW ops, NEW x \in Infixes(toks, i + 1, j, ops) PROVE x \in Infixes(toks, i, j, ops)
      <4>1. /\ x \in (i + 1) + 1 .. j - 1 /\ toks[x] \in ops
            /\ toks[x - 1] \in {Number, ")"} /\ Deep(toks, x) = Deep(toks, (i + 1) - 1)
        BY Zenon DEF Infixes
      <4>2. x \in i + 1 .. j - 1 /\ Deep(toks, x) = Deep(toks, i - 1)
        BY <1>0, <3>2, <3>3, <4>1
      <4> QED
        BY <4>1, <4>2 DEF Infixes
    <3> QED
      BY <3>4
  <2>4. Size(i + 1, j) < Size(i, j)
    BY <1>0 DEF Size
  <2>5. Finds(toks, i + 1, j)
    BY <1>1, <2>4 DEF FindsBelow
  <2>6. NoSums(toks, i + 1, j) /\ NoProducts(toks, i + 1, j)
    BY <2>3 DEF NoSums, NoProducts
  <2>7. Parsed(r, j) \in Parse[<<"factor", toks, i + 1>>]
    BY <2>5, <2>6 DEF Finds
  <2>8. Parsed(r, j).out = r /\ Parsed(r, j).rest = j
    BY DEF Parsed
  <2>9. Parse[<<"factor", toks, i>>] =
          {Parsed(Unary(TokenAt(toks, i), p.out), p.rest) : p \in Parse[<<"factor", toks, i + 1>>]}
    BY <1>1, <1>2, FactorIs
  <2> DEFINE p == Parsed(r, j)
  <2>10. p \in Parse[<<"factor", toks, i + 1>>] /\ p.out = r /\ p.rest = j
    BY <2>7, <2>8
  <2> HIDE DEF p
  <2>11. Parsed(Unary(TokenAt(toks, i), p.out), p.rest) \in Parse[<<"factor", toks, i>>]
    BY <2>9, <2>10
  <2> QED
    BY <1>1, <2>2, <2>10, <2>11
<1>3. CASE toks[i] \notin SumOps
  <2>1. Parsed(o, j) \in Parse[<<"power", toks, i>>]
    <3>1. CASE NoPowers(toks, i, j)
      <4> DEFINE b == Parsed(o, j)
      <4>1. b \in Parse[<<"primary", toks, i>>] /\ b.rest = j
        BY <1>3, <3>1, PrimaryFound DEF Parsed
      <4> HIDE DEF b
      <4>2. b \in Parse[<<"power", toks, i>>]
        BY <4>1, PowerTo
      <4> QED
        BY <4>2 DEF b
    <3>2. CASE ~ NoPowers(toks, i, j)
      <4> DEFINE powers == Infixes(toks, i, j, {"^"})
                 k == FirstIn(powers)
      <4>1. powers # {} /\ {"^"} = {"^"}
        BY <3>2 DEF NoPowers
      <4>2. k \in powers /\ Infixes(toks, i, k, {"^"}) = {}
        BY <4>1, FirstOperator
      <4>3. Read[<<toks, i, j>>] = SplitAt(k, Read, toks, i, j)
        BY <1>3, <4>1, ReadIs DEF ReadNode, NoSums, NoProducts
      <4> HIDE DEF k
      <4>4. PICK l \in Read[<<toks, i, k>>], r \in Read[<<toks, k + 1, j>>] : o = l \o Append(r, toks[k])
        <5>1. Joins(o, Read[<<toks, i, k>>], Read[<<toks, k + 1, j>>], toks[k])
          BY <4>3, SplitHas
        <5> QED
          BY <5>1 DEF Joins
      <4>5. /\ k \in Index /\ k + 1 \in Index /\ k <= Len(toks) + 1
            /\ toks[k] \in {"^"} /\ TokenAt(toks, k) = toks[k]
            /\ Size(i, k) < Size(i, j) /\ Size(k + 1, j) < Size(i, j)
        BY <4>2, Parted
      <4>6. \A other : /\ Infixes(toks, i, j, other) = {} => Infixes(toks, i, k, other) = {}
                       /\ Infixes(toks, i, j, other) = {} => Infixes(toks, k + 1, j, other) = {}
        <5>1. \A other : /\ \A x \in Infixes(toks, i, k, other) : x \in Infixes(toks, i, j, other)
                         /\ \A x \in Infixes(toks, k + 1, j, other) : x \in Infixes(toks, i, j, other)
          BY <4>2, Parted
        <5> QED
          BY <5>1
      <4>7. /\ NoSums(toks, i, k) /\ NoProducts(toks, i, k) /\ NoPowers(toks, i, k)
            /\ NoSums(toks, k + 1, j) /\ NoProducts(toks, k + 1, j)
        BY <4>2, <4>6 DEF NoSums, NoProducts, NoPowers
      <4>8. Finds(toks, i, k) /\ Finds(toks, k + 1, j)
        BY <4>5 DEF FindsBelow
      <4>9. Parsed(l, k) \in Parse[<<"primary", toks, i>>]
        BY <1>3, <4>7, <4>8 DEF Finds
      <4>10. Parsed(r, j) \in Parse[<<"factor", toks, k + 1>>]
        BY <4>7, <4>8 DEF Finds
      <4> DEFINE b == Parsed(l, k)
                 e == Parsed(r, j)
      <4>11. b.rest = k /\ b.out = l /\ e.rest = j /\ e.out = r
        BY DEF Parsed
      <4>12. b \in Parse[<<"primary", toks, i>>] /\ e \in Parse[<<"factor", toks, k + 1>>]
        BY <4>9, <4>10
      <4> HIDE DEF b, e
      <4>13. TokenAt(toks, b.rest) = "^"
        BY <4>5, <4>11
      <4>14. e \in Parse[<<"factor", toks, b.rest + 1>>]
        BY <4>11, <4>12
      <4>15. Parsed(b.out \o Append(e.out, "^"), e.rest) \in Parse[<<"power", toks, i>>]
        BY <4>12, <4>13, <4>14, PowerTo
      <4> QED
        BY <4>4, <4>5, <4>11, <4>15
    <3> QED
      BY <3>1, <3>2
  <2> QED
    BY <1>1, <1>3, <2>1, FactorIs
<1> QED
  BY <1>2, <1>3

(* What follows a span goes on from what was read of it. *)
LEMMA LoopCarriesOn ==
  ASSUME NEW toks \in Input, NEW i \in Index, NEW k \in Index, NEW j \in Index, k + 1 \in Index,
         NEW c \in Cycles, toks[k] = TokenAt(toks, k), toks[k] \in Step(c).ops,
         NEW l \in Seq(Symbol), NEW r \in Seq(Symbol),
         Parsed(r, j) \in Parse[<<Step(c).operand, toks, k + 1>>],
         NEW p \in {"term", "expression"},
         \A m \in Parse[<<c, toks, k>>] : Parsed(l \o m.out, m.rest) \in Parse[<<p, toks, i>>],
         NEW m \in Parse[<<c, toks, j>>]
  PROVE  Parsed((l \o Append(r, toks[k])) \o m.out, m.rest) \in Parse[<<p, toks, i>>]
<1> DEFINE q == Parsed(r, j)
           n == Parsed(Append(r, toks[k]) \o m.out, m.rest)
<1>1. q \in Parse[<<Step(c).operand, toks, k + 1>>] /\ q.out = r /\ q.rest = j
  BY DEF Parsed
<1>2. n.out = Append(r, toks[k]) \o m.out /\ n.rest = m.rest
  BY DEF Parsed
<1>3. m.out \in Seq(Symbol) /\ Append(r, toks[k]) \in Seq(Symbol)
  <2>1. c \in Production
    BY ProductionsAre
  <2>2. toks[k] \in Symbol
    BY DEF Step, SumOps, ProductOps, Symbol
  <2> QED
    BY <2>1, <2>2, OutcomesAre, AppendProperties
<1>4. n \in Parse[<<c, toks, k>>]
  <2> HIDE DEF q
  <2>1. Parsed(Append(q.out, TokenAt(toks, k)) \o m.out, m.rest) \in Parse[<<c, toks, k>>]
    BY <1>1, LoopTakes
  <2> QED
    BY <1>1, <2>1
<1> HIDE DEF n
<1>5. Parsed(l \o n.out, n.rest) \in Parse[<<p, toks, i>>]
  BY <1>4
<1>6. (l \o Append(r, toks[k])) \o m.out = l \o (Append(r, toks[k]) \o m.out)
  BY <1>3, Regroup
<1> QED
  BY <1>2, <1>5, <1>6

LEMMA TermFound ==
  ASSUME NEW toks \in Input, NEW i \in Index, NEW j \in Index, j <= Len(toks) + 1,
         FindsBelow(toks, Size(i, j)), NEW o \in Read[<<toks, i, j>>],
         NoSums(toks, i, j), TokenAt(toks, j) # "^", NEW m \in Parse[<<"products", toks, j>>]
  PROVE  Parsed(o \o m.out, m.rest) \in Parse[<<"term", toks, i>>]
<1>0. "products" \in Cycles /\ Step("products").operand = "factor" /\ Step("products").ops = ProductOps
  BY DEF Cycles, Step
<1>1. CASE NoProducts(toks, i, j)
  <2> DEFINE p == Parsed(o, j)
  <2>1. p \in Parse[<<"factor", toks, i>>] /\ p.out = o /\ p.rest = j
    BY <1>1, FactorFound DEF Parsed
  <2> HIDE DEF p
  <2>2. m \in Parse[<<"products", toks, p.rest>>]
    BY <2>1
  <2>3. Parsed(p.out \o m.out, m.rest) \in Parse[<<IF "products" = "products" THEN "term" ELSE "expression", toks, i>>]
    BY <1>0, <2>1, <2>2, ListTo
  <2> QED
    BY <2>1, <2>3
<1>2. CASE ~ NoProducts(toks, i, j)
  <2> DEFINE products == Infixes(toks, i, j, ProductOps)
             k == LastIn(products)
  <2>1. products # {}
    BY <1>2 DEF NoProducts
  <2>2. k \in products /\ Infixes(toks, k + 1, j, ProductOps) = {}
    BY <2>1, LastOperator
  <2>3. Read[<<toks, i, j>>] = SplitAt(k, Read, toks, i, j)
    BY <2>1, ReadIs DEF ReadNode, NoSums
  <2> HIDE DEF k
  <2>4. PICK l \in Read[<<toks, i, k>>], r \in Read[<<toks, k + 1, j>>] : o = l \o Append(r, toks[k])
    <3>1. Joins(o, Read[<<toks, i, k>>], Read[<<toks, k + 1, j>>], toks[k])
      BY <2>3, SplitHas
    <3> QED
      BY <3>1 DEF Joins
  <2>5. /\ k \in Index /\ k + 1 \in Index /\ k <= Len(toks) + 1
        /\ toks[k] \in ProductOps /\ TokenAt(toks, k) = toks[k]
        /\ Size(i, k) < Size(i, j) /\ Size(k + 1, j) < Size(i, j)
    BY <2>2, Parted
  <2>6. \A other : /\ \A x \in Infixes(toks, i, k, other) : x \in Infixes(toks, i, j, other)
                   /\ \A x \in Infixes(toks, k + 1, j, other) : x \in Infixes(toks, i, j, other)
    BY <2>2, Parted
  <2>7. NoSums(toks, i, k) /\ NoSums(toks, k + 1, j) /\ NoProducts(toks, k + 1, j)
    BY <2>2, <2>6 DEF NoSums, NoProducts
  <2>8. Finds(toks, i, k) /\ Finds(toks, k + 1, j)
    BY <2>5 DEF FindsBelow
  <2>9. Parsed(r, j) \in Parse[<<"factor", toks, k + 1>>]
    BY <2>7, <2>8 DEF Finds
  <2>10. \A n \in Parse[<<"products", toks, k>>] : Parsed(l \o n.out, n.rest) \in Parse[<<"term", toks, i>>]
    <3>1. TokenAt(toks, k) # "^"
      BY <2>5 DEF ProductOps
    <3> QED
      BY <2>7, <2>8, <3>1 DEF Finds
  <2>11. l \in Seq(Symbol) /\ r \in Seq(Symbol)
    BY <2>5, SpansAreNotEmpty
  <2>12. Parsed((l \o Append(r, toks[k])) \o m.out, m.rest) \in Parse[<<"term", toks, i>>]
    BY <1>0, <2>5, <2>9, <2>10, <2>11, LoopCarriesOn
  <2> QED
    BY <2>4, <2>12
<1> QED
  BY <1>1, <1>2

LEMMA ExpressionFound ==
  ASSUME NEW toks \in Input, NEW i \in Index, NEW j \in Index, j <= Len(toks) + 1,
         FindsBelow(toks, Size(i, j)), NEW o \in Read[<<toks, i, j>>],
         TokenAt(toks, j) \notin ProductOps \cup {"^"}, NEW m \in Parse[<<"sums", toks, j>>]
  PROVE  Parsed(o \o m.out, m.rest) \in Parse[<<"expression", toks, i>>]
<1>0. /\ "sums" \in Cycles /\ Step("sums").operand = "term" /\ Step("sums").ops = SumOps
      /\ Parsed(<<>>, j) \in Parse[<<"products", toks, j>>]
      /\ Parsed(<<>>, j).out = <<>> /\ Parsed(<<>>, j).rest = j
  BY LoopEnds DEF Cycles, Step, Parsed
<1>1. CASE NoSums(toks, i, j)
  <2> DEFINE p == Parsed(o, j)
  <2>1. p \in Parse[<<"term", toks, i>>] /\ p.out = o /\ p.rest = j
    <3>1. Parsed(o \o Parsed(<<>>, j).out, Parsed(<<>>, j).rest) \in Parse[<<"term", toks, i>>]
      BY <1>0, <1>1, TermFound
    <3>2. o \o <<>> = o
      BY SpansAreNotEmpty, ConcatEmptySeq
    <3>3. p \in Parse[<<"term", toks, i>>]
      BY <1>0, <3>1, <3>2
    <3> QED
      BY <3>3 DEF Parsed
  <2> HIDE DEF p
  <2>2. m \in Parse[<<"sums", toks, p.rest>>]
    BY <2>1
  <2>3. Parsed(p.out \o m.out, m.rest) \in Parse[<<IF "sums" = "products" THEN "term" ELSE "expression", toks, i>>]
    BY <1>0, <2>1, <2>2, ListTo
  <2> QED
    BY <2>1, <2>3
<1>2. CASE ~ NoSums(toks, i, j)
  <2> DEFINE sums == Infixes(toks, i, j, SumOps)
             k == LastIn(sums)
  <2>1. sums # {}
    BY <1>2 DEF NoSums
  <2>2. k \in sums /\ Infixes(toks, k + 1, j, SumOps) = {}
    BY <2>1, LastOperator
  <2>3. Read[<<toks, i, j>>] = SplitAt(k, Read, toks, i, j)
    BY <2>1, ReadIs DEF ReadNode
  <2> HIDE DEF k
  <2>4. PICK l \in Read[<<toks, i, k>>], r \in Read[<<toks, k + 1, j>>] : o = l \o Append(r, toks[k])
    <3>1. Joins(o, Read[<<toks, i, k>>], Read[<<toks, k + 1, j>>], toks[k])
      BY <2>3, SplitHas
    <3> QED
      BY <3>1 DEF Joins
  <2>5. /\ k \in Index /\ k + 1 \in Index /\ k <= Len(toks) + 1
        /\ toks[k] \in SumOps /\ TokenAt(toks, k) = toks[k]
        /\ Size(i, k) < Size(i, j) /\ Size(k + 1, j) < Size(i, j)
    BY <2>2, Parted
  <2>7. NoSums(toks, k + 1, j)
    BY <2>2 DEF NoSums
  <2>8. Finds(toks, i, k) /\ Finds(toks, k + 1, j)
    BY <2>5 DEF FindsBelow
  <2>9. Parsed(r, j) \in Parse[<<"term", toks, k + 1>>]
    <3>1. Parsed(r \o Parsed(<<>>, j).out, Parsed(<<>>, j).rest) \in Parse[<<"term", toks, k + 1>>]
      BY <1>0, <2>7, <2>8 DEF Finds
    <3>2. r \o <<>> = r
      BY <2>5, SpansAreNotEmpty, ConcatEmptySeq
    <3> QED
      BY <1>0, <3>1, <3>2
  <2>10. \A n \in Parse[<<"sums", toks, k>>] : Parsed(l \o n.out, n.rest) \in Parse[<<"expression", toks, i>>]
    <3>1. TokenAt(toks, k) \notin ProductOps \cup {"^"}
      BY <2>5 DEF ProductOps, SumOps
    <3> QED
      BY <2>8, <3>1 DEF Finds
  <2>11. l \in Seq(Symbol) /\ r \in Seq(Symbol)
    BY <2>5, SpansAreNotEmpty
  <2>12. Parsed((l \o Append(r, toks[k])) \o m.out, m.rest) \in Parse[<<"expression", toks, i>>]
    BY <1>0, <2>5, <2>9, <2>10, <2>11, LoopCarriesOn
  <2> QED
    BY <2>4, <2>12
<1> QED
  BY <1>1, <1>2

(* By the length of the span. *)
LEMMA ParseIsComplete ==
  ASSUME NEW toks \in Input, NEW i \in Index, NEW j \in Index, j <= Len(toks) + 1
  PROVE  Finds(toks, i, j)
<1> DEFINE top == Size(i, j) + 1
           good == {n \in 0 .. top : FindsBelow(toks, n)}
<1>1. \A h \in Index, k \in Index : Size(h, k) \in Nat
  BY DEF Size, Index
<1>2. 0 \in good /\ top \in Nat
  BY <1>1 DEF FindsBelow
<1>3. ASSUME NEW n \in 1 .. top, n - 1 \in good PROVE n \in good
  <2> SUFFICES ASSUME NEW h \in Index, NEW k \in Index, k <= Len(toks) + 1, Size(h, k) < n
               PROVE  Finds(toks, h, k)
    BY DEF FindsBelow
  <2>1. FindsBelow(toks, Size(h, k))
    <3> SUFFICES ASSUME NEW a \in Index, NEW b \in Index, b <= Len(toks) + 1, Size(a, b) < Size(h, k)
                 PROVE  Finds(toks, a, b)
      BY DEF FindsBelow
    <3>1. Size(a, b) \in Nat /\ Size(h, k) \in Nat /\ n \in Nat
      BY <1>1, <1>2
    <3> HIDE DEF top
    <3>2. Size(a, b) < n - 1
      BY <3>1
    <3> QED
      BY <1>3, <3>2 DEF FindsBelow
  <2> SUFFICES ASSUME NEW o \in Read[<<toks, h, k>>]
               PROVE  /\ NoSums(toks, h, k) /\ NoProducts(toks, h, k) /\ NoPowers(toks, h, k) /\ toks[h] \notin SumOps
                         => Parsed(o, k) \in Parse[<<"primary", toks, h>>]
                      /\ NoSums(toks, h, k) /\ NoProducts(toks, h, k) /\ TokenAt(toks, k) # "^"
                         => Parsed(o, k) \in Parse[<<"factor", toks, h>>]
                      /\ NoSums(toks, h, k) /\ TokenAt(toks, k) # "^"
                         => \A m \in Parse[<<"products", toks, k>>] :
                              Parsed(o \o m.out, m.rest) \in Parse[<<"term", toks, h>>]
                      /\ TokenAt(toks, k) \notin ProductOps \cup {"^"}
                         => \A m \in Parse[<<"sums", toks, k>>] :
                              Parsed(o \o m.out, m.rest) \in Parse[<<"expression", toks, h>>]
    BY DEF Finds
  <2>2. NoSums(toks, h, k) /\ NoProducts(toks, h, k) /\ NoPowers(toks, h, k) /\ toks[h] \notin SumOps
        => Parsed(o, k) \in Parse[<<"primary", toks, h>>]
    BY <2>1, PrimaryFound
  <2>3. NoSums(toks, h, k) /\ NoProducts(toks, h, k) /\ TokenAt(toks, k) # "^"
        => Parsed(o, k) \in Parse[<<"factor", toks, h>>]
    BY <2>1, FactorFound
  <2>4. ASSUME NoSums(toks, h, k), TokenAt(toks, k) # "^", NEW m \in Parse[<<"products", toks, k>>]
        PROVE  Parsed(o \o m.out, m.rest) \in Parse[<<"term", toks, h>>]
    BY <2>1, <2>4, TermFound
  <2>5. ASSUME TokenAt(toks, k) \notin ProductOps \cup {"^"}, NEW m \in Parse[<<"sums", toks, k>>]
        PROVE  Parsed(o \o m.out, m.rest) \in Parse[<<"expression", toks, h>>]
    BY <2>1, <2>5, ExpressionFound
  <2> QED
    BY <2>2, <2>3, <2>4, <2>5
<1>4. FindsBelow(toks, top)
  <2> HIDE DEF top
  <2>1. good = 0 .. top
    BY <1>2, <1>3, NoFirstFailure
  <2> QED
    BY <1>2, <2>1
<1> QED
  BY <1>1, <1>4 DEF FindsBelow

(* The parser of the calculator tool computes every expression the way the  *)
(* second reading reads it, and refuses what cannot be read: whatever the   *)
(* tokens are, and however many, up to the cap.                             *)
THEOREM CalculatorIsExact == \A toks \in Input : Evaluate(toks) = Reading(toks)
<1> SUFFICES ASSUME NEW toks \in Input PROVE Evaluate(toks) = Reading(toks)
  OBVIOUS
<1> DEFINE end == Len(toks) + 1
<1>1. 1 \in Index /\ end \in Index /\ end <= Len(toks) + 1 /\ Len(toks) \in Nat /\ TokenAt(toks, end) = "end"
  <2>1. end \in Index /\ Len(toks) \in Nat /\ end > Len(toks)
    BY TokensAre
  <2> QED
    BY <2>1, TokensAre, InputAssumption DEF Index
<1>2. ASSUME NEW x \in Parse[<<"expression", toks, 1>>], x.rest > Len(toks) PROVE x.out \in Reading(toks)
  <2>1. /\ "expression" \in Production /\ "expression" \notin Cycles
    BY ProductionsAre
  <2>2. Whole(toks, 1, x.rest) /\ x.out \in Read[<<toks, 1, x.rest>>]
    BY <1>1, <2>1, ParseIsSound DEF FitsReading
  <2>3. x.rest = end
    <3>1. x.rest \in Index
      BY <1>1, <2>1, OutcomesAre
    <3>2. x.rest <= Len(toks) + 1
      BY <2>2 DEF Whole
    <3> QED
      BY <1>1, <1>2, <3>1, <3>2 DEF Index
  <2> QED
    BY <2>2, <2>3 DEF Reading
<1>3. ASSUME NEW o \in Reading(toks) PROVE o \in Evaluate(toks)
  <2>1. o \in Read[<<toks, 1, end>>] /\ o \in Seq(Symbol)
    BY <1>1, SpansAreNotEmpty DEF Reading
  <2>2. "end" \notin ProductOps \cup {"^"} /\ "end" \notin SumOps
    BY DEF ProductOps, SumOps
  <2>3. Parse[<<"sums", toks, end>>] = {Parsed(<<>>, end)}
    BY <1>1, <2>2, LoopEnds
  <2>4. Parsed(o \o Parsed(<<>>, end).out, Parsed(<<>>, end).rest) \in Parse[<<"expression", toks, 1>>]
    <3>1. Finds(toks, 1, end)
      BY <1>1, ParseIsComplete
    <3> QED
      BY <1>1, <2>1, <2>2, <2>3, <3>1 DEF Finds
  <2>5. /\ Parsed(<<>>, end).out = <<>> /\ Parsed(<<>>, end).rest = end /\ o \o <<>> = o
        /\ Parsed(o, end).out = o /\ Parsed(o, end).rest = end
    BY <2>1, ConcatEmptySeq DEF Parsed
  <2> DEFINE p == Parsed(o, end)
  <2>6. p \in Parse[<<"expression", toks, 1>>]
    BY <2>4, <2>5
  <2>7. p.out = o /\ p.rest > Len(toks)
    BY <1>1, <2>5
  <2> HIDE DEF p
  <2> QED
    BY <2>6, <2>7 DEF Evaluate
<1>4. Evaluate(toks) \subseteq Reading(toks)
  BY <1>2 DEF Evaluate
<1> QED
  BY <1>3, <1>4

LEMMA ExpressionsAreInput ==
  ASSUME RunInv, WireNext, run.expression \in Input
  PROVE  run'.expression \in Input
<1>0. DOMAIN run = {"pc", "turns", "call", "args", "expression", "fetches"}
  BY DEF RunInv, WireTypeOK
<1>1. <<>> \in Input
  BY InputAssumption DEF Input
<1>2. ASSUME NEW pc, Leave(pc) PROVE run'.expression \in Input
  BY <1>1, <1>2 DEF Leave, Idle
<1>3. ASSUME NEW o, BeginFetch(o) PROVE run'.expression \in Input
  BY <1>0, <1>3 DEF BeginFetch
<1>4. ASSUME NEW outcome, FeedBack(outcome) PROVE run'.expression \in Input
  BY <1>2, <1>4 DEF FeedBack
<1>5. CASE Complete
  <2>1. CASE Leave("provider-failure")
    BY <1>2, <2>1
  <2>2. CASE run' = [run EXCEPT !.pc = "sent"]
    BY <1>0, <2>2
  <2> QED
    BY <1>5, <2>1, <2>2 DEF Complete
<1>6. CASE TurnLimit \/ CompleteFails
  BY <1>2, <1>6 DEF TurnLimit, CompleteFails
<1>7. ASSUME NEW block, block.kind \in {"text", "call", "broken", "junk"}, Answer(block)
      PROVE  run'.expression \in Input
  <2>1. ASSUME NEW args, Take(block, args) PROVE run'.expression \in Input
    <3>1. PICK e \in Written(block.name) :
            run' = [run EXCEPT !.pc = "tool", !.turns = @ + 1, !.call = KeptCall(block), !.args = args,
                               !.expression = e]
      BY <2>1 DEF Take
    <3>2. e \in Input
      BY <1>1, RunAssumption DEF Written
    <3> QED
      BY <1>0, <3>1, <3>2
  <2>2. \/ \E pc \in {"provider-failure", "converged", "refused"} : Leave(pc)
        \/ \E args \in Arguments : Take(block, args)
    BY <1>7 DEF Answer
  <2> QED
    BY <1>2, <2>1, <2>2
<1>8. CASE Calculate \/ ReadStorage
  BY <1>4, <1>8 DEF Calculate, ReadStorage
<1>9. CASE RunTool
  BY <1>3, <1>4, <1>9 DEF RunTool
<1>10. ASSUME NEW usable, FetchEnds(usable) PROVE run'.expression \in Input
  BY <1>3, <1>4, <1>10 DEF FetchEnds
<1>11. ASSUME NEW step, Fetch(step) PROVE run'.expression \in Input
  BY <1>11 DEF Fetch, runVars
<1>12. \A answer \in Answers : Chosen(answer).kind \in {"text", "call", "broken", "junk"}
  BY ChosenCallsAre DEF RunInv
<1> QED
  BY <1>5, <1>6, <1>7, <1>8, <1>9, <1>10, <1>11, <1>12 DEF WireNext

(* Whatever expressions models write, a run computes them as they are read, *)
(* and refuses exactly those that cannot be read.                           *)
THEOREM EvaluationsAreRead == WireSpec => []EvaluatesAsRead
<1> DEFINE Inv == run.expression \in Input
<1>1. WireInit => Inv
  BY InputAssumption DEF WireInit, Idle, Input
<1>2. RunInv /\ Inv /\ [WireNext]_wireVars => Inv'
  <2>1. UNCHANGED wireVars /\ Inv => Inv'
    BY DEF wireVars, runVars
  <2> QED
    BY <2>1, ExpressionsAreInput
<1>3. Inv => EvaluatesAsRead
  BY CalculatorIsExact DEF EvaluatesAsRead
<1> QED
  BY <1>1, <1>2, <1>3, RunInvariant, PTL DEF WireSpec
============================================================================
