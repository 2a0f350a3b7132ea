---------------------------- MODULE LedgerProofs ----------------------------
(***************************************************************************)
(* Proofs about Ledger, for any number of calls, agents, names and keys.   *)
(***************************************************************************)
EXTENDS Ledger, TLAPS

----------------------------------------------------------------------------
(* The store *)

(* No row is lost; its key, name and owner stay, and so does a revocation.  *)
RowsKept ==
  \A r \in agents : \E s \in agents' :
    /\ s.publicKey = r.publicKey /\ s.name = r.name /\ s.owner = r.owner
    /\ r.revokedAt # NULL => s.revokedAt # NULL

LEMMA InsertKeepsRows ==
  ASSUME NEW row \in AgentRow, StoreTypeOK, UniqueRows, InsertAgent(row)
  PROVE  RowsKept /\ agents' \subseteq AgentRow /\ UniqueRows'
  BY DEF InsertAgent, RowsKept, StoreTypeOK, UniqueRows, NamesTaken, Saved

LEMMA UpdateKeepsRows ==
  ASSUME StoreTypeOK, UniqueRows, NEW a \in AgentId,
         \/ \E c \in IdCall : SetRevokedAt(a, c)
         \/ \E v \in Visibility : SetVisibilityOf(a, v)
  PROVE  RowsKept /\ agents' \subseteq AgentRow /\ UniqueRows'
<1>1. CASE \E c \in IdCall : SetRevokedAt(a, c)
  <2>1. PICK c \in IdCall : SetRevokedAt(a, c)
    BY <1>1
  <2>2. c # NULL
    BY NullAssumption
  <2> DEFINE Changed(r) == IF r.publicKey = a THEN [r EXCEPT !.revokedAt = c] ELSE r
  <2>3. agents' = {Changed(r) : r \in agents}
    BY <2>1 DEF SetRevokedAt
  <2>4. \A r \in AgentRow : /\ Changed(r) \in AgentRow
                            /\ Changed(r).publicKey = r.publicKey
                            /\ Changed(r).name = r.name
                            /\ Changed(r).owner = r.owner
                            /\ r.revokedAt # NULL => Changed(r).revokedAt # NULL
    BY <2>2 DEF AgentRow
  <2> HIDE DEF Changed
  <2>5. QED
    BY <2>3, <2>4 DEF StoreTypeOK, UniqueRows, RowsKept
<1>2. CASE \E v \in Visibility : SetVisibilityOf(a, v)
  <2>1. PICK v \in Visibility : SetVisibilityOf(a, v)
    BY <1>2
  <2> DEFINE Changed(r) == IF r.publicKey = a THEN [r EXCEPT !.visibility = v] ELSE r
  <2>2. agents' = {Changed(r) : r \in agents}
    BY <2>1 DEF SetVisibilityOf
  <2>3. \A r \in AgentRow : /\ Changed(r) \in AgentRow
                            /\ Changed(r).publicKey = r.publicKey
                            /\ Changed(r).name = r.name
                            /\ Changed(r).owner = r.owner
                            /\ Changed(r).revokedAt = r.revokedAt
    BY DEF AgentRow
  <2> HIDE DEF Changed
  <2>4. QED
    BY <2>2, <2>3 DEF StoreTypeOK, UniqueRows, RowsKept
<1>3. QED
  BY <1>1, <1>2

LEMMA StillKeepsRows ==
  ASSUME StoreTypeOK, UniqueRows, UNCHANGED agents
  PROVE  RowsKept /\ agents' \subseteq AgentRow /\ UniqueRows'
  BY DEF StoreTypeOK, UniqueRows, RowsKept

(* Revocation is permanent. *)
LEMMA RevokedStays ==
  ASSUME RowsKept, NEW a, Revoked(a)
  PROVE  Revoked(a)'
  BY DEF RowsKept, Revoked, AgentRows

----------------------------------------------------------------------------
(* Identity calls: what they hold *)

LEMMA GotoHeld ==
  ASSUME IdTypeOK, IdentityHeld, RowsKept,
         NEW c \in IdCall, NEW s \in IdCallState, Goto(c, s), Held(s, agents')
  PROVE  IdTypeOK' /\ IdentityHeld' /\ ident'[c] = s /\ \A d \in IdCall \ {c} : ident'[d] = ident[d]
<1>1. IdTypeOK' /\ ident'[c] = s /\ \A d \in IdCall \ {c} : ident'[d] = ident[d]
  BY DEF IdTypeOK, Goto
<1>2. ASSUME NEW d \in IdCall, d # c
      PROVE  Held(ident'[d], agents')
  BY <1>1, <1>2 DEF IdentityHeld, Held, RowsKept
<1>3. QED
  BY <1>1, <1>2 DEF IdentityHeld

LEMMA IdleIsState == IdleCall \in IdCallState
<1>1. 0 \in 0..MaxTries
  BY MaxTriesAssumption
<1>2. QED
  BY <1>1 DEF IdleCall, IdCallState

(* A call that returns holds nothing. *)
LEMMA ReturnHeld ==
  ASSUME IdTypeOK, IdentityHeld, RowsKept,
         NEW c \in IdCall, ident[c].pc # "idle",
         NEW code \in Failure \cup {"ok"}, Return(c, code)
  PROVE  IdTypeOK' /\ IdentityHeld'
<1> DEFINE s == [ident[c] EXCEPT !.pc = "done", !.result = code]
<1>1. ident[c] \in IdCallState
  BY DEF IdTypeOK
<1>2. s \in IdCallState /\ s.pc = "done" /\ s.req = ident[c].req
  BY <1>1 DEF IdCallState
<1>3. Held(s, agents')
  BY <1>2 DEF Held, IdentityHeld
<1>4. QED
  BY <1>2, <1>3, GotoHeld DEF Return

LEMMA ReturnAtOnceHeld ==
  ASSUME IdTypeOK, IdentityHeld, RowsKept,
         NEW c \in IdCall, NEW q \in IdRequest,
         NEW code \in Failure \cup {"ok"}, ReturnAtOnce(c, q, code)
  PROVE  IdTypeOK' /\ IdentityHeld'
<1> DEFINE s == [IdleCall EXCEPT !.pc = "done", !.req = q, !.result = code]
<1>1. s \in IdCallState /\ s.pc = "done" /\ s.req = q
  BY IdleIsState DEF IdCallState
<1>2. Held(s, agents')
  BY <1>1 DEF Held
<1>3. QED
  BY <1>1, <1>2, GotoHeld DEF ReturnAtOnce

StoreInv == StoreTypeOK /\ UniqueRows

IdentityInv == StoreInv /\ IdTypeOK /\ IdentityHeld

(* The rows a call past its name loop writes. *)
LEMMA NewRowType ==
  ASSUME IdTypeOK, IdentityHeld, NEW c \in IdCall, At(c, "save", {"create", "rotate"})
  PROVE  /\ NewRow(c) \in AgentRow
         /\ ident[c].req.op = "rotate" => Lineage(c) \in RotationRow
<1>1. ident[c] \in IdCallState /\ Held(ident[c], agents) /\ ident[c].req \in IdRequestType
  BY IdRequestAssumption DEF IdTypeOK, IdentityHeld, Held, At
<1>2. ident[c].minted \in AgentId /\ ident[c].name \in Name
  BY <1>1 DEF Held, At
<1>3. ident[c].req.op = "rotate" => ident[c].seen \in AgentRow /\ ident[c].seen.owner \in AgentId
  BY <1>1 DEF Held, At
<1>4. ident[c].req.vis \in Visibility /\ ident[c].req.target \in AgentId
  BY <1>1 DEF IdRequestType
<1>5. ident[c].req.op \in {"create", "rotate"}
  BY DEF At
<1>6. ident[c].req.op = "rotate" => ident[c].seen.visibility \in Visibility
  BY <1>3 DEF AgentRow
<1>7. QED
  BY <1>2, <1>3, <1>4, <1>5, <1>6 DEF NewRow, Lineage, AgentRow, RotationRow

(* A failed attempt leaves a call with the next one, keys still held. *)
LEMMA NextTryHeld ==
  ASSUME NEW c \in IdCall, ident[c] \in IdCallState, Held(ident[c], agents),
         agents' = agents,
         ident[c].pc \in {"name", "save"}, ident[c].req.op \in {"create", "rotate"},
         ident[c].tries < MaxTries
  PROVE  NextTry(c) \in IdCallState /\ Held(NextTry(c), agents')
<1>1. ident[c].tries + 1 \in 0..MaxTries
  BY MaxTriesAssumption DEF IdCallState
<1> DEFINE s == [ident[c] EXCEPT !.pc = "name", !.name = NULL, !.tries = @ + 1]
<1>2. /\ s \in IdCallState
      /\ s.pc = "name" /\ s.req = ident[c].req /\ s.minted = ident[c].minted /\ s.seen = ident[c].seen
  BY <1>1 DEF IdCallState
<1>3. Held(s, agents')
  BY <1>2 DEF Held
<1>4. QED
  BY <1>2, <1>3 DEF NextTry

(* Every step of an identity call keeps its state and the rows in shape. *)
LEMMA IdentityStepKeeps ==
  ASSUME IdentityInv, NEW c \in IdCall, IdStart(c) \/ IdContinue(c)
  PROVE  IdentityInv' /\ RowsKept
<1> USE DEF IdentityInv, StoreInv
<1>0. UNCHANGED tables => RowsKept /\ StoreInv'
  BY StillKeepsRows DEF tables, StoreTypeOK
<1>a. ident[c] \in IdCallState /\ Held(ident[c], agents)
  BY DEF IdTypeOK, IdentityHeld
<1>b. ASSUME NEW s \in IdCallState, Goto(c, s), RowsKept, StoreInv', Held(s, agents')
      PROVE  IdentityInv' /\ RowsKept
  BY <1>b, GotoHeld
<1>c. ASSUME NEW code \in Failure \cup {"ok"}, ident[c].pc # "idle", Return(c, code), RowsKept, StoreInv'
      PROVE  IdentityInv' /\ RowsKept
  BY <1>c, ReturnHeld
<1>1. ASSUME NEW q \in IdRequest, CreateStart(c, q)
      PROVE  IdentityInv' /\ RowsKept
  <2>1. RowsKept /\ StoreInv'
    BY <1>1, <1>0 DEF CreateStart
  <2>2. CASE ReturnAtOnce(c, q, "KEY_GENERATION_FAILED")
    BY <2>1, <2>2, ReturnAtOnceHeld DEF Failure
  <2>3. CASE ~ ReturnAtOnce(c, q, "KEY_GENERATION_FAILED")
    <3> DEFINE s(a) == [IdleCall EXCEPT !.pc = IF q.name = NULL THEN "name" ELSE "save",
                                        !.req = q, !.minted = a, !.name = q.name]
    <3>1. PICK a \in AgentId : Goto(c, s(a))
      BY <1>1, <2>3 DEF CreateStart
    <3>2. q \in IdRequestType /\ q.op = "create"
      BY <1>1, IdRequestAssumption DEF CreateStart
    <3>3. q.name \in Name \cup {NULL}
      BY <3>2 DEF IdRequestType
    <3>4. s(a) \in IdCallState /\ s(a).req = q /\ s(a).minted = a /\ s(a).name = q.name
      BY <3>3, IdleIsState DEF IdCallState
    <3>5. s(a).pc = (IF q.name = NULL THEN "name" ELSE "save") /\ s(a).tries = 0
      BY IdleIsState DEF IdCallState, IdleCall
    <3>6. Held(s(a), agents')
      BY <3>2, <3>3, <3>4, <3>5, MaxTriesAssumption DEF Held
    <3> HIDE DEF s
    <3>7. QED
      BY <2>1, <3>1, <3>4, <3>6, <1>b
  <2>4. QED
    BY <2>2, <2>3
<1>2. ASSUME NEW q \in IdRequest, RequestStart(c, q)
      PROVE  IdentityInv' /\ RowsKept
  <2> DEFINE s == [IdleCall EXCEPT !.pc = "read", !.req = q, !.late = Revoked(q.target)]
  <2>1. RowsKept /\ StoreInv'
    BY <1>2, <1>0 DEF RequestStart
  <2>2. Revoked(q.target) \in BOOLEAN
    BY DEF Revoked
  <2>3. s \in IdCallState /\ s.pc = "read" /\ s.req = q
    BY <2>2, IdleIsState DEF IdCallState
  <2>4. Held(s, agents')
    BY <1>2, <2>3 DEF Held, RequestStart
  <2>5. Goto(c, s)
    BY <1>2 DEF RequestStart
  <2> HIDE DEF s
  <2>6. QED
    BY <2>1, <2>3, <2>4, <2>5, <1>b
<1>3. ASSUME NEW q \in IdRequest, SetVisibility(c, q)
      PROVE  IdentityInv' /\ RowsKept
  <2>1. q.target \in AgentId /\ q.vis \in Visibility
    BY IdRequestAssumption DEF IdRequestType
  <2>2. RowsKept /\ StoreInv'
    BY <1>3, <2>1, UpdateKeepsRows, StillKeepsRows DEF SetVisibility, StoreTypeOK
  <2>3. PICK code \in Failure \cup {"ok"} : ReturnAtOnce(c, q, code)
    BY <1>3 DEF SetVisibility, Failure
  <2>4. QED
    BY <2>2, <2>3, ReturnAtOnceHeld
<1>4. CASE ReadFails(c)
  <2>1. PICK code \in Failure : Return(c, code)
    BY <1>4 DEF ReadFails, Failure
  <2>2. QED
    BY <1>4, <2>1, <1>0, <1>c DEF ReadFails, At
<1>5. CASE RevokeRead(c)
  <2>1. RowsKept /\ StoreInv'
    BY <1>5, <1>0 DEF RevokeRead
  <2>2. PICK row \in agents : \/ Return(c, "ok")
                             \/ Goto(c, [ident[c] EXCEPT !.pc = "save", !.seen = row])
    BY <1>5 DEF RevokeRead, AgentRows
  <2> DEFINE s == [ident[c] EXCEPT !.pc = "save", !.seen = row]
  <2>3. s \in IdCallState /\ s.pc = "save" /\ s.req = ident[c].req
    BY <1>a DEF IdCallState, StoreTypeOK
  <2>4. ident[c].pc = "read" /\ ident[c].req.op = "revoke"
    BY <1>5 DEF RevokeRead, At
  <2>5. Held(s, agents')
    BY <1>a, <2>3, <2>4 DEF Held
  <2>6. CASE Return(c, "ok")
    BY <2>1, <2>4, <2>6, <1>c
  <2>7. CASE Goto(c, s)
    <3> HIDE DEF s
    <3> QED BY <2>1, <2>3, <2>5, <2>7, <1>b
  <2>8. QED
    BY <2>2, <2>6, <2>7
<1>6. CASE RevokeWrite(c)
  <2>1. ident[c].req.target \in AgentId /\ ident[c].pc # "idle"
    BY <1>6, <1>a, IdRequestAssumption DEF RevokeWrite, At, Held, IdRequestType
  <2>2. RowsKept /\ StoreInv'
    BY <1>6, <2>1, UpdateKeepsRows, StillKeepsRows DEF RevokeWrite, StoreTypeOK
  <2>3. PICK code \in Failure \cup {"ok"} : Return(c, code)
    BY <1>6 DEF RevokeWrite, Failure
  <2>4. QED
    BY <2>1, <2>2, <2>3, <1>c
<1>7. CASE RotateRead(c)
  <2>1. RowsKept /\ StoreInv' /\ agents' = agents
    BY <1>7, <1>0 DEF RotateRead, tables
  <2>2. ident[c].pc = "read" /\ ident[c].req.op = "rotate" /\ ident[c].req \in IdRequestType
    BY <1>7, <1>a, IdRequestAssumption DEF RotateRead, At, Held
  <2> DEFINE s(row, a) == [ident[c] EXCEPT !.pc = "name", !.seen = row, !.minted = a]
  <2>3. PICK row \in agents :
          /\ row.publicKey = ident[c].req.target /\ row.owner = ident[c].req.signer
          /\ \/ \E code \in Failure : Return(c, code)
             \/ \E a \in AgentId : Goto(c, s(row, a))
    BY <1>7 DEF RotateRead, AgentRows, Authorized, Failure
  <2>4. CASE \E code \in Failure : Return(c, code)
    BY <2>1, <2>2, <2>4, <1>c
  <2>5. ASSUME NEW a \in AgentId, Goto(c, s(row, a))
        PROVE  IdentityInv' /\ RowsKept
    <3>1. row \in AgentRow /\ row.owner \in AgentId
      BY <2>2, <2>3 DEF StoreTypeOK, IdRequestType
    <3>2. /\ s(row, a) \in IdCallState /\ s(row, a).pc = "name" /\ s(row, a).req = ident[c].req
          /\ s(row, a).minted = a /\ s(row, a).seen = row
      BY <1>a, <3>1 DEF IdCallState
    <3>3. Held(s(row, a), agents')
      BY <1>a, <2>1, <2>2, <2>3, <3>1, <3>2 DEF Held
    <3> HIDE DEF s
    <3>4. QED
      BY <2>1, <2>5, <3>2, <3>3, <1>b
  <2>6. QED
    BY <2>3, <2>4, <2>5
<1>8. ASSUME NEW n \in Name, DrawName(c, n)
      PROVE  IdentityInv' /\ RowsKept
  <2>1. RowsKept /\ StoreInv' /\ agents' = agents
    BY <1>8, <1>0 DEF DrawName, tables
  <2>2. ident[c].pc = "name" /\ ident[c].req.op \in {"create", "rotate"} /\ ident[c].tries < MaxTries
    BY <1>8 DEF DrawName, At
  <2>3. NextTry(c) \in IdCallState /\ Held(NextTry(c), agents')
    BY <1>a, <2>1, <2>2, NextTryHeld
  <2>4. CASE Goto(c, NextTry(c))
    BY <2>1, <2>3, <2>4, <1>b
  <2> DEFINE s == [ident[c] EXCEPT !.pc = "save", !.name = n]
  <2>5. s \in IdCallState /\ Held(s, agents')
    BY <1>a, <2>1, <2>2 DEF IdCallState, Held
  <2>6. CASE Goto(c, s)
    <3> HIDE DEF s
    <3> QED BY <2>1, <2>5, <2>6, <1>b
  <2>7. QED
    BY <1>8, <2>4, <2>6 DEF DrawName
<1>9. CASE NamesExhausted(c)
  BY <1>9, <1>0, <1>c DEF NamesExhausted, At, Failure
<1>10. CASE SaveAgent(c)
  <2>1. /\ NewRow(c) \in AgentRow
        /\ ident[c].req.op = "rotate" => Lineage(c) \in RotationRow
        /\ ident[c].pc # "idle" /\ InsertAgent(NewRow(c))
    BY <1>10, NewRowType DEF SaveAgent, Persist, At
  <2>2. RowsKept /\ agents' \subseteq AgentRow /\ UniqueRows'
    BY <2>1, InsertKeepsRows
  <2>3. rotations' \subseteq RotationRow /\ attestations' = attestations
    BY <1>10, <2>1 DEF SaveAgent, Persist, InsertRotation, StoreTypeOK
  <2>4. RowsKept /\ StoreInv'
    BY <2>2, <2>3 DEF StoreTypeOK
  <2>5. QED
    BY <1>10, <2>1, <2>4, <1>c DEF SaveAgent, Failure
<1>11. CASE SaveAgentFails(c)
  BY <1>11, <1>0, <1>c DEF SaveAgentFails, At, Failure
<1>12. CASE NameConflict(c)
  <2>1. RowsKept /\ StoreInv' /\ agents' = agents
    BY <1>12, <1>0 DEF NameConflict, tables
  <2>2. ident[c].pc = "save" /\ ident[c].req.op \in {"create", "rotate"}
    BY <1>12 DEF NameConflict, At
  <2> ident[c].tries < MaxTries
    BY <1>a, <2>2 DEF Held
  <2>3. CASE Return(c, "DUPLICATE_NAME")
    BY <2>1, <2>2, <2>3, <1>c DEF Failure
  <2>4. CASE Goto(c, NextTry(c))
    <3>1. NextTry(c) \in IdCallState /\ Held(NextTry(c), agents')
      BY <1>a, <2>1, <2>2, NextTryHeld
    <3>2. QED
      BY <2>1, <2>4, <3>1, <1>b
  <2>5. QED
    BY <1>12, <2>3, <2>4 DEF NameConflict
<1>13. QED
  BY <1>1, <1>2, <1>3, <1>4, <1>5, <1>6, <1>7, <1>8, <1>9, <1>10, <1>11, <1>12 DEF IdStart, IdContinue

----------------------------------------------------------------------------
(* Attestation calls: what they hold *)

AttestingInv == AttTypeOK /\ AttestingHeld /\ attestations \subseteq AttestationRow

LEMMA BecomesHeld ==
  ASSUME AttestingInv, NEW c \in AttCall, NEW s \in AttCallState, Becomes(c, s), AttHeld(s),
         attestations' \subseteq AttestationRow
  PROVE  AttestingInv' /\ work'[c] = s /\ \A d \in AttCall \ {c} : work'[d] = work[d]
<1>1. AttTypeOK' /\ work'[c] = s /\ \A d \in AttCall \ {c} : work'[d] = work[d]
  BY DEF AttestingInv, AttTypeOK, Becomes
<1>2. QED
  BY <1>1 DEF AttestingInv, AttestingHeld, AttHeld

LEMMA IdleWorkIsState == IdleWork \in AttCallState
  BY DEF IdleWork, AttCallState

LEMMA FailHeld ==
  ASSUME AttestingInv, NEW c \in AttCall, work[c].pc # "idle", NEW code \in AttFailure, Fail(c, code),
         attestations' \subseteq AttestationRow
  PROVE  AttestingInv'
<1> DEFINE s == [work[c] EXCEPT !.pc = "done", !.result = code]
<1>1. work[c] \in AttCallState /\ AttHeld(work[c])
  BY DEF AttestingInv, AttTypeOK, AttestingHeld
<1>2. s \in AttCallState /\ AttHeld(s)
  BY <1>1 DEF AttCallState, AttHeld
<1>3. QED
  BY <1>2, BecomesHeld DEF Fail

LEMMA DeliverHeld ==
  ASSUME AttestingInv, NEW c \in AttCall, work[c].pc # "idle", NEW row \in AttestationRow, Deliver(c, row),
         attestations' \subseteq AttestationRow
  PROVE  AttestingInv'
<1> DEFINE s == [work[c] EXCEPT !.pc = "done", !.result = "ok", !.got = row]
<1>1. work[c] \in AttCallState /\ AttHeld(work[c])
  BY DEF AttestingInv, AttTypeOK, AttestingHeld
<1>2. s \in AttCallState /\ AttHeld(s)
  BY <1>1 DEF AttCallState, AttHeld
<1>3. QED
  BY <1>2, BecomesHeld DEF Deliver

LEMMA ProceedHeld ==
  ASSUME AttestingInv, NEW c \in AttCall, NEW pc \in {"lookup", "save", "refetch"},
         work[c].pc \notin {"idle", "done"}, work[c].req.op \in {"attest", "ingest"}, work[c].req.signer = work[c].req.agent,
         Proceed(c, pc), attestations' \subseteq AttestationRow
  PROVE  AttestingInv'
<1> DEFINE s == [work[c] EXCEPT !.pc = pc]
<1>1. work[c] \in AttCallState /\ AttHeld(work[c])
  BY DEF AttestingInv, AttTypeOK, AttestingHeld
<1>2. s \in AttCallState /\ AttHeld(s)
  BY <1>1 DEF AttCallState, AttHeld
<1>3. QED
  BY <1>2, BecomesHeld DEF Proceed

LEMMA OpenedHeld ==
  ASSUME AttestingInv, NEW c \in AttCall, NEW q \in AttRequest, NEW e \in {"checked", "unchecked", NULL},
         Becomes(c, Opened(q, e)), attestations' \subseteq AttestationRow
  PROVE  AttestingInv'
<1>1. Revoked(q.agent) \in BOOLEAN
  BY DEF Revoked
<1>2. Opened(q, e) \in AttCallState /\ Opened(q, e).pc = "gate" /\ Opened(q, e).req = q
      /\ Opened(q, e).result = "none"
  BY <1>1, IdleWorkIsState DEF Opened, AttCallState, IdleWork
<1>3. AttHeld(Opened(q, e))
  BY <1>2 DEF AttHeld
<1>4. QED
  BY <1>2, <1>3, BecomesHeld

LEMMA NewAttestationType ==
  ASSUME AttestingInv, NEW c \in AttCall, work[c].pc = "save"
  PROVE  NewAttestation(c) \in AttestationRow
<1>1. work[c] \in AttCallState /\ work[c].req \in AttRequestType
  BY AttRequestAssumption DEF AttestingInv, AttTypeOK, AttestingHeld, AttHeld
<1>2. QED
  BY <1>1 DEF NewAttestation, AttCallState, AttRequestType, AttestationRow

(* Every step of an attestation call keeps its state and the rows in shape. *)
LEMMA AttestingStepKeeps ==
  ASSUME AttestingInv, NEW c \in AttCall, AttStart(c) \/ AttContinue(c)
  PROVE  AttestingInv' /\ UNCHANGED <<agents, rotations>>
<1>a. UNCHANGED tables => attestations' \subseteq AttestationRow /\ UNCHANGED <<agents, rotations>>
  BY DEF tables, AttestingInv
<1>b. AttHeld(work[c]) /\ work[c] \in AttCallState
  BY DEF AttestingInv, AttestingHeld, AttTypeOK
<1>1. ASSUME NEW q \in AttRequest, AttestStart(c, q) \/ VerifyStart(c, q)
      PROVE  AttestingInv' /\ UNCHANGED <<agents, rotations>>
  BY <1>1, <1>a, OpenedHeld DEF AttestStart, VerifyStart
<1>2. ASSUME NEW q \in AttRequest, IngestStart(c, q)
      PROVE  AttestingInv' /\ UNCHANGED <<agents, rotations>>
  <2> DEFINE s(code) == [IdleWork EXCEPT !.pc = "done", !.req = q, !.result = code]
  <2>1. \A code \in AttFailure : s(code) \in AttCallState /\ AttHeld(s(code))
    BY IdleWorkIsState DEF AttCallState, AttHeld
  <2>2. \/ \E code \in AttFailure : Becomes(c, s(code))
        \/ \E e \in {"checked", "unchecked"} : Becomes(c, Opened(q, e))
    BY <1>2 DEF IngestStart, IngestRefusals, AttFailure
  <2> HIDE DEF s
  <2>3. CASE \E code \in AttFailure : Becomes(c, s(code))
    BY <1>2, <1>a, <2>1, <2>3, BecomesHeld DEF IngestStart
  <2>4. CASE \E e \in {"checked", "unchecked"} : Becomes(c, Opened(q, e))
    BY <1>2, <1>a, <2>4, OpenedHeld DEF IngestStart
  <2>5. QED
    BY <2>2, <2>3, <2>4
<1>3. CASE Gate(c)
  <2>1. attestations' \subseteq AttestationRow /\ UNCHANGED <<agents, rotations>>
    BY <1>3, <1>a DEF Gate
  <2>2. work[c].pc \notin {"idle", "done"} /\ work[c].req.op \in {"attest", "ingest"}
    BY <1>3 DEF Gate
  <2> DEFINE refusal == GateRefusal(work[c].req, AgentRows(work[c].req.agent))
  <2>3. refusal \in AttFailure \cup {"none"} /\ (refusal = "none" => work[c].req.signer = work[c].req.agent)
    BY DEF GateRefusal, AttFailure
  <2>4. \/ \E code \in AttFailure : Fail(c, code)
        \/ refusal = "none" /\ \E pc \in {"save", "lookup"} : Proceed(c, pc)
    BY <1>3, <2>3 DEF Gate, AttFailure
  <2> HIDE DEF refusal
  <2>5. CASE \E code \in AttFailure : Fail(c, code)
    BY <2>1, <2>2, <2>5, FailHeld
  <2>6. CASE refusal = "none" /\ \E pc \in {"save", "lookup"} : Proceed(c, pc)
    BY <2>1, <2>2, <2>3, <2>6, ProceedHeld
  <2>7. QED
    BY <2>4, <2>5, <2>6
<1>4. CASE Lookup(c) \/ Refetch(c) \/ SaveConflicts(c)
  <2>1. attestations' \subseteq AttestationRow /\ UNCHANGED <<agents, rotations>>
    BY <1>4, <1>a DEF Lookup, Refetch, SaveConflicts
  <2>2. work[c].pc \notin {"idle", "done"} /\ work[c].req.op \in {"attest", "ingest"} /\ work[c].req.signer = work[c].req.agent
    BY <1>4, <1>b DEF Lookup, Refetch, SaveConflicts, AttHeld
  <2>3. \/ \E row \in AttestationRow : Deliver(c, row)
        \/ \E pc \in {"save", "refetch"} : Proceed(c, pc)
        \/ Fail(c, "DUPLICATE_IDEMPOTENCY_KEY")
    BY <1>4 DEF Lookup, Refetch, SaveConflicts, Keyed, AttestingInv
  <2>4. QED
    BY <2>1, <2>2, <2>3, DeliverHeld, ProceedHeld, FailHeld DEF AttFailure
<1>5. CASE SaveAttestation(c)
  <2>1. NewAttestation(c) \in AttestationRow /\ work[c].pc # "idle"
    BY <1>5, NewAttestationType DEF SaveAttestation
  <2>2. attestations' \subseteq AttestationRow /\ UNCHANGED <<agents, rotations>>
    BY <1>5, <2>1 DEF SaveAttestation, InsertAttestation, AttestingInv
  <2>3. QED
    BY <1>5, <2>1, <2>2, DeliverHeld, FailHeld DEF SaveAttestation, AttFailure
<1>6. CASE SaveAttestationFails(c)
  BY <1>6, <1>a, FailHeld DEF SaveAttestationFails, AttFailure
<1>7. CASE VerifyGate(c)
  <2>1. attestations' \subseteq AttestationRow /\ UNCHANGED <<agents, rotations>> /\ work[c].pc # "idle"
    BY <1>7, <1>a DEF VerifyGate
  <2> DEFINE s == [work[c] EXCEPT !.pc = "done", !.result = "ok"]
  <2>2. s \in AttCallState /\ AttHeld(s)
    BY <1>b, <2>1 DEF AttCallState, AttHeld
  <2>3. Fail(c, "invalid") \/ Becomes(c, s)
    BY <1>7 DEF VerifyGate
  <2> HIDE DEF s
  <2>4. QED
    BY <2>1, <2>2, <2>3, FailHeld, BecomesHeld DEF AttFailure
<1>8. QED
  BY <1>1, <1>2, <1>3, <1>4, <1>5, <1>6, <1>7 DEF AttStart, AttContinue

----------------------------------------------------------------------------
(* Every reachable state is well formed, what calls hold at each await      *)
(* included; the writes of the name loop and of the signing core rely on    *)
(* the latter.                                                              *)
ShapeInv == IdentityInv /\ AttestingInv

LEMMA InitShape == Init => ShapeInv
<1> SUFFICES ASSUME Init PROVE ShapeInv
  OBVIOUS
<1> USE DEF Init, ShapeInv
<1>1. StoreTypeOK /\ UniqueRows
  BY SeedAssumption DEF StoreInit, StoreTypeOK, UniqueRows
<1>2. IdTypeOK /\ IdentityHeld
  BY IdleIsState DEF IdInit, IdTypeOK, IdentityHeld, Held, IdleCall
<1>3. AttTypeOK /\ AttestingHeld
  BY IdleWorkIsState DEF AttInit, AttTypeOK, AttestingHeld, AttHeld, IdleWork
<1>4. QED
  BY <1>1, <1>2, <1>3 DEF IdentityInv, StoreInv, AttestingInv, StoreTypeOK

LEMMA NextShape == ShapeInv /\ [Next]_vars => ShapeInv' /\ RowsKept
<1> SUFFICES ASSUME ShapeInv, [Next]_vars PROVE ShapeInv' /\ RowsKept
  OBVIOUS
<1>1. CASE IdentityStep
  <2>1. PICK c \in IdCall : IdStart(c) \/ IdContinue(c)
    BY <1>1 DEF IdentityStep
  <2>2. IdentityInv' /\ RowsKept
    BY <2>1, IdentityStepKeeps DEF ShapeInv
  <2>3. UNCHANGED work /\ attestations' \subseteq AttestationRow
    BY <1>1, <2>2 DEF IdentityStep, IdentityInv, StoreInv, StoreTypeOK
  <2>4. AttestingInv'
    BY <2>3 DEF ShapeInv, AttestingInv, AttTypeOK, AttestingHeld, AttHeld
  <2>5. QED
    BY <2>2, <2>4 DEF ShapeInv
<1>2. CASE AttestingStep
  <2>1. PICK c \in AttCall : AttStart(c) \/ AttContinue(c)
    BY <1>2 DEF AttestingStep
  <2>2. AttestingInv' /\ UNCHANGED <<agents, rotations>>
    BY <2>1, AttestingStepKeeps DEF ShapeInv
  <2>3. RowsKept /\ StoreInv'
    BY <2>2, StillKeepsRows DEF ShapeInv, IdentityInv, StoreInv, StoreTypeOK, AttestingInv
  <2>4. IdTypeOK' /\ IdentityHeld'
    BY <1>2, <2>2 DEF AttestingStep, ShapeInv, IdentityInv, IdTypeOK, IdentityHeld, Held
  <2>5. QED
    BY <2>2, <2>3, <2>4 DEF ShapeInv, IdentityInv
<1>3. CASE UNCHANGED vars
  <2>1. RowsKept
    BY <1>3, StillKeepsRows DEF vars, ShapeInv, IdentityInv, StoreInv
  <2>2. ShapeInv'
    BY <1>3 DEF vars, ShapeInv, IdentityInv, StoreInv, StoreTypeOK, UniqueRows, IdTypeOK, IdentityHeld,
                Held, AttestingInv, AttTypeOK, AttestingHeld, AttHeld
  <2>3. QED
    BY <2>1, <2>2
<1>4. QED
  BY <1>1, <1>2, <1>3 DEF Next

LEMMA ShapeInvariant == Spec => []ShapeInv
<1>1. ShapeInv /\ [Next]_vars => ShapeInv'
  BY NextShape
<1>2. QED
  BY InitShape, <1>1, PTL DEF Spec

(* The tables and every call's state have their types in every reachable    *)
(* state.                                                                   *)
THEOREM TypeCorrect == Spec => []TypeOK
<1>1. ShapeInv => TypeOK
  BY DEF ShapeInv, IdentityInv, StoreInv, AttestingInv, TypeOK
<1>2. QED
  BY <1>1, ShapeInvariant, PTL

----------------------------------------------------------------------------
(* Nothing recorded is lost or rewritten. *)
LEMMA TablesGrow ==
  ASSUME Next
  PROVE  rotations \subseteq rotations' /\ attestations \subseteq attestations'
  BY DEF Next, IdentityStep, AttestingStep, IdStart, IdContinue, AttStart, AttContinue, tables,
         CreateStart, RequestStart, SetVisibility, ReadFails, RevokeRead, RevokeWrite, RotateRead,
         DrawName, NamesExhausted, SaveAgent, Persist, InsertRotation, SaveAgentFails, NameConflict,
         AttestStart, IngestStart, VerifyStart, Gate, Lookup, SaveAttestation, InsertAttestation,
         SaveAttestationFails, SaveConflicts, Refetch, VerifyGate

(* An agent's name, owner and revocation, every link of its lineage and     *)
(* every attestation outlive all later calls.                               *)
THEOREM HistoryIsKept == Spec => HistoryKept
<1>1. ShapeInv /\ [Next]_vars =>
        [/\ rotations \subseteq rotations'
         /\ attestations \subseteq attestations'
         /\ \A r \in agents : \E s \in agents' :
              /\ s.publicKey = r.publicKey /\ s.name = r.name /\ s.owner = r.owner
              /\ r.revokedAt # NULL => s.revokedAt # NULL]_vars
  BY NextShape, TablesGrow DEF RowsKept
<1>2. QED
  BY <1>1, ShapeInvariant, PTL DEF Spec, HistoryKept

----------------------------------------------------------------------------
(* The kill switch *)

(* Both ends of a link are stored under the owner key that signed it. *)
LinksOwned ==
  \A l \in rotations :
    /\ \E r \in agents : r.publicKey = l.old /\ r.owner = l.signedBy
    /\ \E r \in agents : r.publicKey = l.new /\ r.owner = l.signedBy

LEMMA NewLink ==
  ASSUME ShapeInv, Next, NEW l \in rotations' \ rotations
  PROVE  \E c \in IdCall : At(c, "save", {"rotate"}) /\ l = Lineage(c) /\ InsertAgent(NewRow(c))
<1>1. PICK c \in IdCall : SaveAgent(c)
  BY DEF Next, IdentityStep, AttestingStep, IdStart, IdContinue, AttStart, AttContinue, tables,
         CreateStart, RequestStart, SetVisibility, ReadFails, RevokeRead, RevokeWrite, RotateRead,
         DrawName, NamesExhausted, SaveAgentFails, NameConflict,
         AttestStart, IngestStart, VerifyStart, Gate, Lookup, SaveAttestation,
         SaveAttestationFails, SaveConflicts, Refetch, VerifyGate
<1>2. QED
  BY <1>1 DEF SaveAgent, Persist, InsertRotation, At

LEMMA NextLinks == ShapeInv /\ LinksOwned /\ [Next]_vars => LinksOwned'
<1> SUFFICES ASSUME ShapeInv, LinksOwned, [Next]_vars, NEW l \in rotations'
             PROVE  /\ \E r \in agents' : r.publicKey = l.old /\ r.owner = l.signedBy
                    /\ \E r \in agents' : r.publicKey = l.new /\ r.owner = l.signedBy
  BY DEF LinksOwned
<1>1. RowsKept
  BY NextShape
<1>2. CASE l \in rotations
  BY <1>1, <1>2 DEF LinksOwned, RowsKept
<1>3. CASE l \notin rotations
  <2>1. PICK c \in IdCall : At(c, "save", {"rotate"}) /\ l = Lineage(c) /\ InsertAgent(NewRow(c))
    BY <1>3, NewLink DEF vars
  <2>2. ident[c].pc = "save" /\ ident[c].req.op = "rotate" /\ Held(ident[c], agents)
    BY <2>1 DEF At, ShapeInv, IdentityInv, IdentityHeld
  <2>3. \E r \in agents : r.publicKey = l.old /\ r.owner = l.signedBy
    BY <2>1, <2>2 DEF Lineage, Held
  <2>4. NewRow(c) \in agents' /\ NewRow(c).publicKey = l.new /\ NewRow(c).owner = l.signedBy
    BY <2>1, <2>2 DEF InsertAgent, NewRow, Lineage
  <2>5. QED
    BY <1>1, <2>3, <2>4 DEF RowsKept
<1>4. QED
  BY <1>2, <1>3

(* One owner key controls a whole line: it signed each link and both ends   *)
(* answer to it, so it can still revoke every successor.                    *)
THEOREM KillSwitchSafe == Spec => []KillSwitchInherited
<1>1. Init => LinksOwned
  BY DEF Init, StoreInit, LinksOwned
<1>2. ShapeInv /\ LinksOwned => KillSwitchInherited
  BY DEF ShapeInv, IdentityInv, StoreInv, UniqueRows, LinksOwned, KillSwitchInherited
<1>3. QED
  BY <1>1, <1>2, NextLinks, ShapeInvariant, PTL DEF Spec

(* A step adds at most one link, from a stored agent to a new one. *)
LEMMA OneLink ==
  ASSUME ShapeInv, [Next]_vars, rotations' # rotations
  PROVE  \E k : rotations' = rotations \cup {k} /\ k.old \in Saved /\ k.new \notin Saved
<1>1. PICK c \in IdCall : SaveAgent(c)
  BY DEF Next, IdentityStep, AttestingStep, IdStart, IdContinue, AttStart, AttContinue, tables, vars,
         CreateStart, RequestStart, SetVisibility, ReadFails, RevokeRead, RevokeWrite, RotateRead,
         DrawName, NamesExhausted, SaveAgentFails, NameConflict,
         AttestStart, IngestStart, VerifyStart, Gate, Lookup, SaveAttestation,
         SaveAttestationFails, SaveConflicts, Refetch, VerifyGate
<1>2. rotations' = rotations \cup {Lineage(c)} /\ InsertAgent(NewRow(c)) /\ At(c, "save", {"rotate"})
  BY <1>1 DEF SaveAgent, Persist, InsertRotation, At
<1>3. Lineage(c).new = NewRow(c).publicKey /\ Lineage(c).old = ident[c].req.target
  BY DEF Lineage, NewRow
<1>4. ident[c].req.target \in Saved
  BY <1>2 DEF At, ShapeInv, IdentityInv, IdentityHeld, Held, Saved
<1>5. QED
  BY <1>2, <1>3, <1>4 DEF InsertAgent

LEMMA NextForest == ShapeInv /\ LinksOwned /\ LineageIsForest /\ [Next]_vars => LineageIsForest'
<1> SUFFICES ASSUME ShapeInv, LinksOwned, LineageIsForest, [Next]_vars PROVE LineageIsForest'
  OBVIOUS
<1>1. CASE rotations' = rotations
  BY <1>1 DEF LineageIsForest
<1>2. CASE rotations' # rotations
  <2>1. PICK k : rotations' = rotations \cup {k} /\ k.old \in Saved /\ k.new \notin Saved
    BY <1>2, OneLink
  <2>2. \A l \in rotations : l.old \in Saved /\ l.new \in Saved
    BY DEF LinksOwned, Saved
  <2>3. \A l, m \in rotations' : l.new = m.new => l = m
    BY <2>1, <2>2 DEF LineageIsForest
  <2>4. ASSUME NEW S \in SUBSET rotations', S # {}
        PROVE  \E l \in S : \A m \in S : l.old # m.new
    <3> DEFINE T == S \ {k}
    <3>1. T \subseteq rotations
      BY <2>1
    <3>2. CASE T = {}
      BY <2>1, <2>4, <3>2
    <3>3. CASE T # {}
      <4>1. PICK l \in T : \A m \in T : l.old # m.new
        <5>1. ~ ({l.old : l \in T} \subseteq {l.new : l \in T})
          BY <3>1, <3>3 DEF LineageIsForest
        <5>2. QED
          BY <5>1
      <4>2. l.old # k.new
        BY <2>1, <2>2, <3>1
      <4>3. QED
        BY <4>1, <4>2
    <3>4. QED
      BY <3>2, <3>3
  <2>5. \A S \in SUBSET rotations' : S # {} => ~ ({l.old : l \in S} \subseteq {l.new : l \in S})
    BY <2>4
  <2>6. QED
    BY <2>3, <2>5 DEF LineageIsForest
<1>3. QED
  BY <1>1, <1>2

(* Rotation histories stay a forest whatever rotations race: a successor is *)
(* always an agent nobody has stored, so a line can fork but never merge or *)
(* loop.                                                                    *)
THEOREM LineageStaysForest == Spec => []LineageIsForest
<1>1. Init => LinksOwned /\ LineageIsForest
  BY DEF Init, StoreInit, LinksOwned, LineageIsForest
<1>2. QED
  BY <1>1, NextLinks, NextForest, ShapeInvariant, PTL DEF Spec

----------------------------------------------------------------------------
(* Late calls *)

(* The one row of a revoked agent is a revoked row. *)
LEMMA RevokedRow ==
  ASSUME UniqueRows, NEW a, Revoked(a), NEW r \in AgentRows(a)
  PROVE  r.revokedAt # NULL
  BY DEF UniqueRows, Revoked, AgentRows

(* A late identity call is refused by the row it reads. *)
LEMMA IdentityStepLate ==
  ASSUME ShapeInv, NEW c \in IdCall, IdentityLate(c), IdStart(c) \/ IdContinue(c), RowsKept
  PROVE  IdentityLate(c)'
<1> USE DEF IdentityLate
<1>0. UniqueRows /\ ident[c] \in IdCallState /\ \A s : Goto(c, s) => ident'[c] = s
  BY DEF ShapeInv, IdentityInv, StoreInv, IdTypeOK, Goto
<1>1. ASSUME NEW q \in IdRequest, CreateStart(c, q) \/ SetVisibility(c, q)
      PROVE  IdentityLate(c)'
  BY <1>0, <1>1 DEF CreateStart, SetVisibility, ReturnAtOnce, IdleCall
<1>2. ASSUME NEW q \in IdRequest, RequestStart(c, q)
      PROVE  IdentityLate(c)'
  <2> DEFINE s(b) == [IdleCall EXCEPT !.pc = "read", !.req = q, !.late = b]
  <2>1. PICK b \in BOOLEAN : b = Revoked(q.target)
    BY DEF Revoked
  <2>2. ident'[c] = s(b)
    BY <1>0, <1>2, <2>1 DEF RequestStart
  <2>3. s(b).pc = "read" /\ s(b).req = q /\ s(b).late = b /\ s(b).minted = NULL
    BY IdleIsState DEF IdleCall
  <2> HIDE DEF s
  <2>4. b => Revoked(q.target)'
    BY <2>1, RevokedStays
  <2>5. ident'[c].pc = "read" /\ ident'[c].req = q /\ ident'[c].late = b /\ ident'[c].minted = NULL
    BY <2>2, <2>3
  <2>6. ident'[c].late => Revoked(ident[c].req.target)'
    BY <2>4, <2>5 DEF Revoked, AgentRows
  <2>7. QED
    BY <2>5, <2>6
<1>3. CASE ident[c].late
  <2>1. \E r \in agents' : r.publicKey = ident[c].req.target /\ r.revokedAt # NULL
    BY <1>3 DEF RowsKept, Revoked, AgentRows
  <2>2. ASSUME NEW code, Return(c, code), ident[c].pc # "idle"
        PROVE  IdentityLate(c)'
    <3>1. ident'[c] = [ident[c] EXCEPT !.pc = "done", !.result = code]
      BY <1>0, <2>2 DEF Return
    <3>2. ident'[c].pc = "done" /\ ident'[c].minted = ident[c].minted /\ ident'[c].req = ident[c].req
      BY <3>1, <1>0 DEF IdCallState
    <3>3. Revoked(ident[c].req.target)'
      BY <2>1, <3>2 DEF Revoked, AgentRows
    <3>4. QED
      BY <1>3, <2>2, <3>2, <3>3
  <2>3. ident[c].pc \in {"read", "done"}
    BY <1>3
  <2>4. CASE IdContinue(c)
    <3>1. CASE ReadFails(c)
      BY <3>1, <2>2 DEF ReadFails, At
    <3>2. CASE RevokeRead(c)
      BY <3>2, <2>2, <1>3, <1>0, RevokedRow DEF RevokeRead, At
    <3>3. CASE RotateRead(c)
      BY <3>3, <2>2, <1>3, <1>0, RevokedRow DEF RotateRead, At
    <3>4. QED
      BY <2>3, <2>4, <3>1, <3>2, <3>3
         DEF IdContinue, At, RevokeWrite, DrawName, NamesExhausted, SaveAgent, SaveAgentFails, NameConflict
  <2>5. QED
    BY <2>3, <2>4, <1>1, <1>2 DEF IdStart
<1>4. CASE ~ ident[c].late /\ IdContinue(c)
  <2>1. ~ ident'[c].late
    <3>1. ASSUME NEW code, Return(c, code)
          PROVE  ~ ident'[c].late
      BY <1>0, <1>4, <3>1 DEF Return, IdCallState
    <3>2. ASSUME NEW n, NEW row, NEW a, NEW pc, NEW t,
                 \/ Goto(c, [ident[c] EXCEPT !.pc = pc, !.seen = row])
                 \/ Goto(c, [ident[c] EXCEPT !.pc = pc, !.seen = row, !.minted = a])
                 \/ Goto(c, [ident[c] EXCEPT !.pc = pc, !.name = n])
                 \/ Goto(c, NextTry(c))
          PROVE  ~ ident'[c].late
      BY <1>0, <1>4, <3>2 DEF NextTry, IdCallState
    <3>3. QED
      BY <1>4, <3>1, <3>2
         DEF IdContinue, ReadFails, RevokeRead, RevokeWrite, RotateRead, DrawName, NamesExhausted,
             SaveAgent, SaveAgentFails, NameConflict
  <2>2. QED
    BY <2>1
<1>5. QED
  BY <1>1, <1>2, <1>3, <1>4 DEF IdStart

(* A late attestation call is refused at its gate. *)
LEMMA AttestingStepLate ==
  ASSUME ShapeInv, NEW c \in AttCall, AttestingLate(c), AttStart(c) \/ AttContinue(c)
  PROVE  AttestingLate(c)'
<1>0. /\ work[c] \in AttCallState /\ \A s : Becomes(c, s) => work'[c] = s
      /\ agents' = agents
  BY AttestingStepKeeps DEF ShapeInv, AttestingInv, AttTypeOK, Becomes
<1>1. ASSUME NEW q \in AttRequest, NEW e, Becomes(c, Opened(q, e))
      PROVE  AttestingLate(c)'
  <2>1. PICK b \in BOOLEAN : b = Revoked(q.agent)
    BY DEF Revoked
  <2> DEFINE s(l) == [IdleWork EXCEPT !.pc = "gate", !.req = q, !.evidence = e, !.late = l]
  <2>2. work'[c] = s(b)
    BY <1>0, <1>1, <2>1 DEF Opened
  <2>3. s(b).pc = "gate" /\ s(b).req = q /\ s(b).late = b /\ s(b).result = "none"
    BY DEF IdleWork
  <2> HIDE DEF s
  <2>4. work'[c].pc = "gate" /\ work'[c].req = q /\ work'[c].late = b /\ work'[c].result = "none"
    BY <2>2, <2>3
  <2>5. work'[c].late => Revoked(work[c].req.agent)'
    BY <1>0, <2>1, <2>4 DEF Revoked, AgentRows
  <2>6. QED
    BY <2>4, <2>5 DEF AttestingLate
<1>2. ASSUME NEW q \in AttRequest, NEW code,
             Becomes(c, [IdleWork EXCEPT !.pc = "done", !.req = q, !.result = code])
      PROVE  AttestingLate(c)'
  BY <1>0, <1>2 DEF IdleWork, AttestingLate
<1>3. CASE AttStart(c)
  <2>1. PICK q \in AttRequest : AttestStart(c, q) \/ IngestStart(c, q) \/ VerifyStart(c, q)
    BY <1>3 DEF AttStart
  <2>2. \/ \E e : Becomes(c, Opened(q, e))
        \/ \E code : Becomes(c, [IdleWork EXCEPT !.pc = "done", !.req = q, !.result = code])
    BY <2>1 DEF AttestStart, IngestStart, VerifyStart
  <2>3. QED
    BY <2>2, <1>1, <1>2
<1>4. CASE AttContinue(c) /\ work[c].late
  <2>1. work[c].pc = "gate" /\ Revoked(work[c].req.agent) /\ work[c].result # "ok"
    BY <1>4 DEF AttContinue, AttestingLate, Gate, Lookup, SaveAttestation, SaveAttestationFails,
                SaveConflicts, Refetch, VerifyGate
  <2>2. \E code \in AttFailure : Fail(c, code)
    <3>1. CASE Gate(c)
      BY <3>1, <2>1 DEF Gate, GateRefusal, Revoked, AttFailure
    <3>2. CASE VerifyGate(c)
      BY <3>2, <2>1 DEF VerifyGate, Revoked, AttFailure
    <3>3. QED
      BY <1>4, <2>1, <3>1, <3>2 DEF AttContinue, Lookup, SaveAttestation, SaveAttestationFails,
                                    SaveConflicts, Refetch
  <2>3. PICK code \in AttFailure : work'[c] = [work[c] EXCEPT !.pc = "done", !.result = code]
    BY <2>2, <1>0 DEF Fail
  <2>4. work'[c].pc = "done" /\ work'[c].result # "ok" /\ work'[c].req = work[c].req
    BY <2>3, <1>0 DEF AttCallState, AttFailure
  <2>5. Revoked(work[c].req.agent)'
    BY <2>1, <2>4, <1>0 DEF Revoked, AgentRows
  <2>6. QED
    BY <2>4, <2>5 DEF AttestingLate
<1>5. CASE AttContinue(c) /\ ~ work[c].late
  <2>1. ASSUME NEW code, NEW row, NEW pc,
               Fail(c, code) \/ Deliver(c, row) \/ Proceed(c, pc)
                 \/ Becomes(c, [work[c] EXCEPT !.pc = "done", !.result = "ok"])
        PROVE  ~ work'[c].late
    BY <1>0, <1>5, <2>1 DEF Fail, Deliver, Proceed, AttCallState
  <2>2. ~ work'[c].late
    BY <1>5, <2>1 DEF AttContinue, Gate, Lookup, SaveAttestation, SaveAttestationFails,
                      SaveConflicts, Refetch, VerifyGate
  <2>3. QED
    BY <2>2 DEF AttestingLate
<1>6. QED
  BY <1>3, <1>4, <1>5

(* An identity step stamps a revocation only from a call that is not late,  *)
(* and that call then returns.                                              *)
LEMMA IdentityStepWrites ==
  ASSUME ShapeInv, NEW c \in IdCall, IdentityLate(c), WrittenInTime,
         IdStart(c) \/ IdContinue(c), UNCHANGED work
  PROVE  WrittenInTime'
<1>0. /\ ident[c] \in IdCallState /\ \A s : Goto(c, s) => ident'[c] = s
      /\ StoreTypeOK
  BY DEF ShapeInv, IdentityInv, StoreInv, IdTypeOK, Goto
<1>1. ident[c].pc # "done" /\ attestations' = attestations
  BY DEF IdStart, IdContinue, CreateStart, RequestStart, SetVisibility, ReadFails, RevokeRead, RevokeWrite,
         RotateRead, DrawName, NamesExhausted, SaveAgent, SaveAgentFails, NameConflict, At, tables
<1>2. \A d \in IdCall \ {c} : ident'[d] = ident[d]
  BY DEF IdStart, IdContinue, CreateStart, RequestStart, SetVisibility, ReadFails, RevokeRead, RevokeWrite,
         RotateRead, DrawName, NamesExhausted, SaveAgent, SaveAgentFails, NameConflict,
         Return, ReturnAtOnce, Goto, ShapeInv, IdentityInv, IdTypeOK
<1>3. ASSUME NEW r \in agents', r.revokedAt # NULL,
             \E s \in agents : s.revokedAt = r.revokedAt
      PROVE  ident'[r.revokedAt].pc = "done" /\ ~ ident'[r.revokedAt].late
  BY <1>0, <1>1, <1>2, <1>3 DEF WrittenInTime, StoreTypeOK, AgentRow
<1>4. ASSUME NEW r \in agents', r.revokedAt # NULL
      PROVE  ident'[r.revokedAt].pc = "done" /\ ~ ident'[r.revokedAt].late
  <2>1. CASE RevokeWrite(c) /\ ~ UNCHANGED agents
    <3>1. /\ SetRevokedAt(ident[c].req.target, c) /\ ~ ident[c].late
          /\ \E code : ident'[c] = [ident[c] EXCEPT !.pc = "done", !.result = code]
      BY <2>1, <1>0 DEF RevokeWrite, Return, IdentityLate, At
    <3>2. ident'[c].pc = "done" /\ ~ ident'[c].late
      BY <3>1, <1>0 DEF IdCallState
    <3>3. r.revokedAt = c \/ \E s \in agents : s.revokedAt = r.revokedAt
      BY <3>1, <1>0 DEF SetRevokedAt, StoreTypeOK, AgentRow
    <3>4. QED
      BY <3>2, <3>3, <1>3, <1>4
  <2>2. CASE \E q \in IdRequest : SetVisibility(c, q)
    <3>1. \E s \in agents : s.revokedAt = r.revokedAt
      BY <2>2, <1>0 DEF SetVisibility, SetVisibilityOf, StoreTypeOK, AgentRow
    <3>2. QED
      BY <3>1, <1>3, <1>4
  <2>3. CASE SaveAgent(c)
    <3>1. \E s \in agents : s.revokedAt = r.revokedAt
      BY <2>3, <1>4 DEF SaveAgent, Persist, InsertAgent, NewRow
    <3>2. QED
      BY <3>1, <1>3, <1>4
  <2>4. CASE UNCHANGED agents
    BY <2>4, <1>3, <1>4
  <2>5. QED
    BY <2>1, <2>2, <2>3, <2>4
       DEF IdStart, IdContinue, CreateStart, RequestStart, ReadFails, RevokeRead,
           RotateRead, DrawName, NamesExhausted, SaveAgentFails, NameConflict, tables
<1>5. QED
  BY <1>1, <1>4 DEF WrittenInTime

(* An attestation is written by a call that is not late and then returns.   *)
LEMMA AttestingStepWrites ==
  ASSUME ShapeInv, NEW c \in AttCall, AttestingLate(c), WrittenInTime,
         AttStart(c) \/ AttContinue(c), UNCHANGED ident
  PROVE  WrittenInTime'
<1>0. /\ work[c] \in AttCallState /\ \A s : Becomes(c, s) => work'[c] = s
      /\ agents' = agents /\ attestations \subseteq AttestationRow
  BY AttestingStepKeeps DEF ShapeInv, AttestingInv, AttTypeOK, Becomes
<1>1. work[c].pc # "done"
  BY DEF AttStart, AttContinue, AttestStart, IngestStart, VerifyStart, Gate, Lookup, SaveAttestation,
         SaveAttestationFails, SaveConflicts, Refetch, VerifyGate
<1>2. \A d \in AttCall \ {c} : work'[d] = work[d]
  BY DEF AttStart, AttContinue, AttestStart, IngestStart, VerifyStart, Gate, Lookup, SaveAttestation,
         SaveAttestationFails, SaveConflicts, Refetch, VerifyGate, Fail, Deliver, Proceed, Becomes,
         ShapeInv, AttestingInv, AttTypeOK
<1>3. \A r \in attestations : work'[r.id].pc = "done" /\ ~ work'[r.id].late
  BY <1>0, <1>1, <1>2 DEF WrittenInTime, AttestationRow
<1>4. ASSUME NEW r \in attestations', r \notin attestations
      PROVE  work'[r.id].pc = "done" /\ ~ work'[r.id].late
  <2>1. SaveAttestation(c)
    BY <1>4 DEF AttStart, AttContinue, AttestStart, IngestStart, VerifyStart, Gate, Lookup,
                SaveAttestationFails, SaveConflicts, Refetch, VerifyGate, tables
  <2>2. r = NewAttestation(c) /\ ~ work[c].late
    BY <2>1, <1>4 DEF SaveAttestation, InsertAttestation, AttestingLate
  <2>3. \/ \E row : work'[c] = [work[c] EXCEPT !.pc = "done", !.result = "ok", !.got = row]
        \/ \E code : work'[c] = [work[c] EXCEPT !.pc = "done", !.result = code]
    BY <2>1, <1>0 DEF SaveAttestation, Deliver, Fail
  <2>4. work'[c].pc = "done" /\ ~ work'[c].late
    BY <2>2, <2>3, <1>0 DEF AttCallState
  <2>5. QED
    BY <2>2, <2>4 DEF NewAttestation
<1>5. QED
  BY <1>0, <1>3, <1>4 DEF WrittenInTime

LEMMA NextLate == ShapeInv /\ LateStopped /\ [Next]_vars => LateStopped'
<1> SUFFICES ASSUME ShapeInv, LateStopped, [Next]_vars PROVE LateStopped'
  OBVIOUS
<1>1. RowsKept
  BY NextShape
<1>2. CASE IdentityStep
  <2>1. PICK c \in IdCall : (IdStart(c) \/ IdContinue(c)) /\ UNCHANGED work
    BY <1>2 DEF IdentityStep
  <2>2. IdentityLate(c)' /\ WrittenInTime'
    BY <1>1, <2>1, IdentityStepLate, IdentityStepWrites DEF LateStopped
  <2>3. \A d \in IdCall \ {c} : ident'[d] = ident[d]
    BY <2>1 DEF IdStart, IdContinue, CreateStart, RequestStart, SetVisibility, ReadFails, RevokeRead,
                RevokeWrite, RotateRead, DrawName, NamesExhausted, SaveAgent, SaveAgentFails, NameConflict,
                Return, ReturnAtOnce, Goto, ShapeInv, IdentityInv, IdTypeOK
  <2>4. \A d \in IdCall : IdentityLate(d)'
    BY <1>1, <2>2, <2>3 DEF LateStopped, IdentityLate, Revoked, AgentRows, RowsKept
  <2>5. \A d \in AttCall : AttestingLate(d)'
    BY <1>1, <2>1 DEF LateStopped, AttestingLate, Revoked, AgentRows, RowsKept
  <2>6. QED
    BY <2>2, <2>4, <2>5 DEF LateStopped
<1>3. CASE AttestingStep
  <2>1. PICK c \in AttCall : (AttStart(c) \/ AttContinue(c)) /\ UNCHANGED ident
    BY <1>3 DEF AttestingStep
  <2>2. AttestingLate(c)' /\ WrittenInTime'
    BY <2>1, AttestingStepLate, AttestingStepWrites DEF LateStopped
  <2>3. \A d \in AttCall \ {c} : work'[d] = work[d]
    BY <2>1 DEF AttStart, AttContinue, AttestStart, IngestStart, VerifyStart, Gate, Lookup, SaveAttestation,
                SaveAttestationFails, SaveConflicts, Refetch, VerifyGate, Fail, Deliver, Proceed, Becomes,
                ShapeInv, AttestingInv, AttTypeOK
  <2>4. \A d \in AttCall : AttestingLate(d)'
    BY <1>1, <2>2, <2>3 DEF LateStopped, AttestingLate, Revoked, AgentRows, RowsKept
  <2>5. \A d \in IdCall : IdentityLate(d)'
    BY <1>1, <2>1 DEF LateStopped, IdentityLate, Revoked, AgentRows, RowsKept
  <2>6. QED
    BY <2>2, <2>4, <2>5 DEF LateStopped
<1>4. CASE UNCHANGED vars
  BY <1>4 DEF vars, LateStopped, IdentityLate, AttestingLate, WrittenInTime, Revoked, AgentRows
<1>5. QED
  BY <1>2, <1>3, <1>4 DEF Next

LEMMA LateInvariant == Spec => [](ShapeInv /\ LateStopped)
<1>1. Init => LateStopped
  BY SeedAssumption DEF Init, StoreInit, IdInit, AttInit, IdleCall, IdleWork, LateStopped, IdentityLate,
                        AttestingLate, WrittenInTime
<1>2. QED
  BY <1>1, NextLate, ShapeInvariant, PTL DEF Spec

(* However calls interleave, one that begins after the agent's revocation   *)
(* gets no attestation, verdict or successor and revokes nothing twice.     *)
THEOREM LateCallsAreRefused == Spec => []LateCallsRefused
<1>1. ShapeInv /\ LateStopped => LateCallsRefused
  <2> SUFFICES ASSUME ShapeInv, LateStopped PROVE LateCallsRefused
    OBVIOUS
  <2>1. \A r \in agents : r.publicKey # NULL /\ (r.revokedAt # NULL => r.revokedAt \in IdCall)
    BY NullAssumption DEF ShapeInv, IdentityInv, StoreInv, StoreTypeOK, AgentRow
  <2>2. NULL \notin IdCall
    BY NullAssumption
  <2>3. QED
    BY <2>1, <2>2 DEF LateStopped, IdentityLate, AttestingLate, WrittenInTime, LateCallsRefused
<1>2. QED
  BY <1>1, LateInvariant, PTL

----------------------------------------------------------------------------
(* Idempotency *)

Idempotent == UniqueKeys /\ DeliveredIsStored

LEMMA SaveIdempotent ==
  ASSUME ShapeInv, Idempotent, NEW c \in AttCall, SaveAttestation(c)
  PROVE  UniqueKeys' /\ attestations' = attestations \cup {NewAttestation(c)}
  BY DEF SaveAttestation, InsertAttestation, KeyConflict, Keyed, Idempotent, UniqueKeys

(* The call that takes a step is handed a stored row of its agent and key,  *)
(* or nothing.                                                              *)
LEMMA DeliveryIsStored ==
  ASSUME ShapeInv, NEW c \in AttCall, AttStart(c) \/ AttContinue(c),
         work'[c].result = "ok", work'[c].req.op \in {"attest", "ingest"}
  PROVE  /\ work'[c].got \in attestations'
         /\ work'[c].got.agent = work'[c].req.agent /\ work'[c].got.key = work'[c].req.key
<1>0. work[c] \in AttCallState /\ \A s : Becomes(c, s) => work'[c] = s
  BY DEF ShapeInv, AttestingInv, AttTypeOK, Becomes
<1>1. ASSUME NEW row \in attestations', Deliver(c, row),
             row.agent = work[c].req.agent, row.key = work[c].req.key
      PROVE  /\ work'[c].got \in attestations'
             /\ work'[c].got.agent = work'[c].req.agent /\ work'[c].got.key = work'[c].req.key
  <2>1. work'[c].got = row /\ work'[c].req = work[c].req
    BY <1>0, <1>1 DEF Deliver, AttCallState
  <2>2. QED
    BY <1>1, <2>1
<1>2. ASSUME NEW code \in AttFailure, Fail(c, code)
      PROVE  FALSE
  <2>1. work'[c].result = code
    BY <1>0, <1>2 DEF Fail, AttCallState
  <2>2. QED
    BY <2>1 DEF AttFailure
<1>3. ASSUME NEW pc, Proceed(c, pc), work[c].result = "none"
      PROVE  FALSE
  BY <1>0, <1>3 DEF Proceed, AttCallState
<1>4. ASSUME NEW q, NEW e, Becomes(c, Opened(q, e))
      PROVE  FALSE
  BY <1>0, <1>4 DEF Opened, IdleWork
<1>5. ASSUME NEW q, NEW code \in AttFailure,
             Becomes(c, [IdleWork EXCEPT !.pc = "done", !.req = q, !.result = code])
      PROVE  FALSE
  BY <1>0, <1>5 DEF IdleWork, AttFailure
<1>6. CASE SaveAttestation(c)
  <2>1. NewAttestation(c) \in attestations'
    BY <1>6 DEF SaveAttestation, InsertAttestation
  <2>2. NewAttestation(c).agent = work[c].req.agent /\ NewAttestation(c).key = work[c].req.key
    BY DEF NewAttestation
  <2>3. QED
    BY <1>6, <2>1, <2>2, <1>1, <1>2 DEF SaveAttestation, AttFailure
<1>7. CASE VerifyGate(c)
  <2>1. work'[c].req = work[c].req
    BY <1>0, <1>7 DEF VerifyGate, Fail, AttCallState
  <2>2. QED
    BY <1>7, <2>1 DEF VerifyGate
<1>8. CASE Lookup(c) \/ Refetch(c) \/ SaveConflicts(c) \/ Gate(c)
  <2>1. attestations' = attestations
    BY <1>8 DEF Lookup, Refetch, SaveConflicts, Gate, tables
  <2>2. \/ \E row \in attestations' : /\ Deliver(c, row)
                                     /\ row.agent = work[c].req.agent /\ row.key = work[c].req.key
        \/ \E code \in AttFailure : Fail(c, code)
        \/ \E pc : Proceed(c, pc)
    BY <1>8, <2>1 DEF Lookup, Refetch, SaveConflicts, Gate, GateRefusal, Keyed, AttFailure
  <2>3. work[c].result = "none"
    BY <1>8 DEF Lookup, Refetch, SaveConflicts, Gate, ShapeInv, AttestingInv, AttestingHeld, AttHeld
  <2>4. QED
    BY <2>2, <2>3, <1>1, <1>2, <1>3
<1>9. CASE SaveAttestationFails(c)
  BY <1>9, <1>2 DEF SaveAttestationFails, AttFailure
<1>10. CASE AttStart(c)
  BY <1>10, <1>4, <1>5 DEF AttStart, AttestStart, IngestStart, IngestRefusals, VerifyStart, AttFailure
<1>11. QED
  BY <1>6, <1>7, <1>8, <1>9, <1>10 DEF AttContinue

LEMMA OthersWait ==
  ASSUME ShapeInv, NEW c \in AttCall, AttStart(c) \/ AttContinue(c), NEW d \in AttCall, d # c
  PROVE  work'[d] = work[d]
<1>1. \A s : Becomes(c, s) => work'[d] = work[d]
  BY DEF ShapeInv, AttestingInv, AttTypeOK, Becomes
<1>2. \E s : Becomes(c, s)
  BY DEF AttStart, AttContinue, AttestStart, IngestStart, VerifyStart, Gate, Lookup, SaveAttestation,
         SaveAttestationFails, SaveConflicts, Refetch, VerifyGate, Fail, Deliver, Proceed
<1>3. QED
  BY <1>1, <1>2

LEMMA NextIdempotent == ShapeInv /\ Idempotent /\ [Next]_vars => Idempotent'
<1> SUFFICES ASSUME ShapeInv, Idempotent, [Next]_vars PROVE Idempotent'
  OBVIOUS
<1>1. CASE AttestingStep
  <2>1. PICK c \in AttCall : AttStart(c) \/ AttContinue(c)
    BY <1>1 DEF AttestingStep
  <2>2. attestations' = attestations \/ SaveAttestation(c)
    BY <2>1 DEF AttStart, AttContinue, AttestStart, IngestStart, VerifyStart, Gate, Lookup,
                SaveAttestationFails, SaveConflicts, Refetch, VerifyGate, tables
  <2>3. UniqueKeys' /\ attestations \subseteq attestations'
    BY <2>2, SaveIdempotent DEF Idempotent, UniqueKeys
  <2>4. DeliveredIsStored'
    <3> SUFFICES ASSUME NEW d \in AttCall, work'[d].result = "ok", work'[d].req.op \in {"attest", "ingest"}
                 PROVE  /\ work'[d].got \in attestations'
                        /\ work'[d].got.agent = work'[d].req.agent /\ work'[d].got.key = work'[d].req.key
      BY DEF DeliveredIsStored, Written
    <3>1. CASE d = c
      BY <2>1, <3>1, DeliveryIsStored
    <3>2. CASE d # c
      BY <2>1, <2>3, <3>2, OthersWait DEF Idempotent, DeliveredIsStored, Written
    <3>3. QED
      BY <3>1, <3>2
  <2>5. QED
    BY <2>3, <2>4 DEF Idempotent
<1>2. CASE IdentityStep \/ UNCHANGED vars
  <2>1. UNCHANGED <<attestations, work>>
    BY <1>2 DEF vars, IdentityStep, IdStart, IdContinue, tables, CreateStart, RequestStart, SetVisibility,
                ReadFails, RevokeRead, RevokeWrite, RotateRead, DrawName, NamesExhausted, SaveAgent,
                SaveAgentFails, NameConflict
  <2>2. QED
    BY <2>1 DEF Idempotent, UniqueKeys, DeliveredIsStored, Written
<1>3. QED
  BY <1>1, <1>2 DEF Next

(* Retries collapse in every behaviour: the unique index makes a second     *)
(* insert fail, and a call returns only what it read or wrote.              *)
THEOREM RetriesAreCollapsed == Spec => []RetriesCollapse
<1>1. Init => Idempotent
  BY IdleWorkIsState DEF Init, StoreInit, AttInit, Idempotent, UniqueKeys, DeliveredIsStored, Written, IdleWork
<1>2. Idempotent => RetriesCollapse
  BY DEF Idempotent, UniqueKeys, DeliveredIsStored, RetriesCollapse, Written
<1>3. QED
  BY <1>1, <1>2, NextIdempotent, ShapeInvariant, PTL DEF Spec

----------------------------------------------------------------------------
(* Reported success *)

(* What a call in state s was told, and what it is about to write, is in    *)
(* the rows: a revocation is written over a row that exists, and one that   *)
(* was reported, or a name that was, is stored.                             *)
Reported(s, rows) ==
  /\ s.pc # "done" => s.result # "ok"
  /\ s.pc = "save" /\ s.req.op = "revoke" => \E r \in rows : r.publicKey = s.req.target
  /\ s.result = "ok" /\ s.req.op = "revoke" =>
       \E r \in rows : r.publicKey = s.req.target /\ r.revokedAt # NULL
  /\ s.result = "ok" /\ s.req.op \in {"create", "rotate"} =>
       \E r \in rows : r.publicKey = s.minted /\ r.name = s.name

AllReported == \A c \in IdCall : Reported(ident[c], agents)

(* Rows are kept, so what was reported stays so. *)
LEMMA ReportedStays ==
  ASSUME RowsKept, NEW s, Reported(s, agents)
  PROVE  Reported(s, agents')
<1>1. \A r \in agents : \E t \in agents' :
        /\ t.publicKey = r.publicKey /\ t.name = r.name
        /\ r.revokedAt # NULL => t.revokedAt # NULL
  BY DEF RowsKept
<1>2. QED
  BY <1>1 DEF Reported

LEMMA IdentityStepReports ==
  ASSUME ShapeInv, NEW c \in IdCall, Reported(ident[c], agents), RowsKept, IdStart(c) \/ IdContinue(c)
  PROVE  Reported(ident'[c], agents')
<1>0. ident[c] \in IdCallState /\ \A s : Goto(c, s) => ident'[c] = s
  BY DEF ShapeInv, IdentityInv, IdTypeOK, Goto
<1>1. ASSUME NEW code \in Failure, Return(c, code)
      PROVE  Reported(ident'[c], agents')
  <2>1. ident'[c].pc = "done" /\ ident'[c].result = code
    BY <1>0, <1>1 DEF Return, IdCallState
  <2>2. QED
    BY <2>1 DEF Reported, Failure
<1>2. ASSUME NEW q, NEW code, ReturnAtOnce(c, q, code), code \in Failure \/ q.op = "visibility"
      PROVE  Reported(ident'[c], agents')
  <2>1. ident'[c].pc = "done" /\ ident'[c].req = q /\ ident'[c].result = code
    BY <1>0, <1>2 DEF ReturnAtOnce, IdleCall
  <2>2. QED
    BY <1>2, <2>1 DEF Reported, Failure
<1>3. ASSUME NEW s, Goto(c, s), s.result # "ok", ~ (s.pc = "save" /\ s.req.op = "revoke")
      PROVE  Reported(ident'[c], agents')
  BY <1>0, <1>3 DEF Reported
<1>4. ASSUME NEW q \in IdRequest, CreateStart(c, q)
      PROVE  Reported(ident'[c], agents')
  <2>1. CASE ReturnAtOnce(c, q, "KEY_GENERATION_FAILED")
    BY <2>1, <1>2 DEF Failure
  <2> DEFINE s(a) == [IdleCall EXCEPT !.pc = IF q.name = NULL THEN "name" ELSE "save",
                                      !.req = q, !.minted = a, !.name = q.name]
  <2>2. ASSUME NEW a, Goto(c, s(a))
        PROVE  Reported(ident'[c], agents')
    <3>1. s(a).result = "none" /\ s(a).req.op = "create"
      BY <1>4 DEF CreateStart, IdleCall
    <3> HIDE DEF s
    <3>2. QED
      BY <2>2, <3>1, <1>3
  <2>3. QED
    BY <1>4, <2>1, <2>2 DEF CreateStart
<1>5. ASSUME NEW q \in IdRequest, RequestStart(c, q)
      PROVE  Reported(ident'[c], agents')
  <2> DEFINE s == [IdleCall EXCEPT !.pc = "read", !.req = q, !.late = Revoked(q.target)]
  <2>1. s.result = "none" /\ s.pc = "read" /\ Goto(c, s)
    BY <1>5 DEF RequestStart, IdleCall
  <2> HIDE DEF s
  <2>2. QED
    BY <2>1, <1>3
<1>6. ASSUME NEW q \in IdRequest, SetVisibility(c, q)
      PROVE  Reported(ident'[c], agents')
  BY <1>2, <1>6 DEF SetVisibility
<1>7. CASE ReadFails(c) \/ NamesExhausted(c) \/ SaveAgentFails(c)
  BY <1>1, <1>7 DEF ReadFails, NamesExhausted, SaveAgentFails, Failure
<1>8. CASE RevokeRead(c)
  <2>1. PICK row \in agents :
          /\ row.publicKey = ident[c].req.target
          /\ IF row.revokedAt # NULL
               THEN Return(c, "ok")
               ELSE Goto(c, [ident[c] EXCEPT !.pc = "save", !.seen = row])
    BY <1>8 DEF RevokeRead, AgentRows
  <2>2. PICK kept \in agents' :
          kept.publicKey = ident[c].req.target /\ (row.revokedAt # NULL => kept.revokedAt # NULL)
    BY <2>1 DEF RowsKept
  <2>3. ident[c].req.op = "revoke" /\ ident[c].result # "ok"
    BY <1>8 DEF RevokeRead, At, Reported
  <2>4. CASE row.revokedAt # NULL
    <3>1. ident'[c].pc = "done" /\ ident'[c].req = ident[c].req
      BY <1>0, <2>1, <2>4 DEF Return, IdCallState
    <3>2. QED
      BY <2>2, <2>3, <2>4, <3>1 DEF Reported
  <2>5. CASE row.revokedAt = NULL
    <3>1. /\ ident'[c].pc = "save" /\ ident'[c].req = ident[c].req
          /\ ident'[c].result = ident[c].result
      BY <1>0, <2>1, <2>5 DEF IdCallState
    <3>2. QED
      BY <2>2, <2>3, <3>1 DEF Reported
  <2>6. QED
    BY <2>4, <2>5
<1>9. CASE RevokeWrite(c)
  <2>1. CASE Return(c, "STORAGE_WRITE_FAILED")
    BY <2>1, <1>1 DEF Failure
  <2>2. CASE SetRevokedAt(ident[c].req.target, c) /\ Return(c, "ok")
    <3>1. ident[c].pc = "save" /\ ident[c].req.op = "revoke"
      BY <1>9 DEF RevokeWrite, At
    <3>2. PICK row \in agents : row.publicKey = ident[c].req.target
      BY <3>1 DEF Reported
    <3> DEFINE stamped == [row EXCEPT !.revokedAt = c]
    <3>3. stamped \in agents'
      BY <2>2, <3>2 DEF SetRevokedAt
    <3>4. stamped.publicKey = ident[c].req.target /\ stamped.revokedAt # NULL
      BY <3>2, NullAssumption DEF ShapeInv, IdentityInv, StoreInv, StoreTypeOK, AgentRow
    <3>5. ident'[c].pc = "done" /\ ident'[c].req = ident[c].req
      BY <1>0, <2>2 DEF Return, IdCallState
    <3> HIDE DEF stamped
    <3>6. QED
      BY <3>1, <3>3, <3>4, <3>5 DEF Reported
  <2>3. QED
    BY <1>9, <2>1, <2>2 DEF RevokeWrite
<1>10. CASE RotateRead(c)
  <2>1. ident[c].req.op = "rotate" /\ ident[c].result # "ok"
    BY <1>10 DEF RotateRead, At, Reported
  <2> DEFINE s(row, a) == [ident[c] EXCEPT !.pc = "name", !.seen = row, !.minted = a]
  <2>2. \/ \E code \in Failure : Return(c, code)
        \/ \E row, a : Goto(c, s(row, a))
    BY <1>10 DEF RotateRead, Failure
  <2>3. \A row, a : s(row, a).result # "ok" /\ s(row, a).pc = "name"
    BY <1>0, <2>1 DEF IdCallState
  <2> HIDE DEF s
  <2>4. QED
    BY <2>2, <2>3, <1>1, <1>3
<1>11. ASSUME NEW n, DrawName(c, n) \/ NameConflict(c)
       PROVE  Reported(ident'[c], agents')
  <2>1. ident[c].req.op \in {"create", "rotate"} /\ ident[c].result # "ok"
    BY <1>11 DEF DrawName, NameConflict, At, Reported
  <2> DEFINE s == [ident[c] EXCEPT !.pc = "save", !.name = n]
  <2>2. Return(c, "DUPLICATE_NAME") \/ Goto(c, NextTry(c)) \/ Goto(c, s)
    BY <1>11 DEF DrawName, NameConflict
  <2>3. s.result # "ok" /\ s.req = ident[c].req
    BY <1>0, <2>1 DEF IdCallState
  <2>4. NextTry(c).result # "ok" /\ NextTry(c).req = ident[c].req
    BY <1>0, <2>1 DEF NextTry, IdCallState
  <2> HIDE DEF s
  <2>5. QED
    BY <2>1, <2>2, <2>3, <2>4, <1>1, <1>3 DEF Failure
<1>12. CASE SaveAgent(c)
  <2>1. CASE Return(c, "STORAGE_WRITE_FAILED")
    BY <2>1, <1>1 DEF Failure
  <2>2. CASE Return(c, "ok")
    <3>1. NewRow(c) \in agents' /\ ident[c].req.op \in {"create", "rotate"}
      BY <1>12 DEF SaveAgent, Persist, InsertAgent, At
    <3>2. NewRow(c).publicKey = ident[c].minted /\ NewRow(c).name = ident[c].name
      BY DEF NewRow
    <3>3. /\ ident'[c].pc = "done" /\ ident'[c].req = ident[c].req
          /\ ident'[c].minted = ident[c].minted /\ ident'[c].name = ident[c].name
      BY <1>0, <2>2 DEF Return, IdCallState
    <3>4. QED
      BY <3>1, <3>2, <3>3 DEF Reported
  <2>3. QED
    BY <1>12, <2>1, <2>2 DEF SaveAgent
<1>13. QED
  BY <1>4, <1>5, <1>6, <1>7, <1>8, <1>9, <1>10, <1>11, <1>12 DEF IdStart, IdContinue

LEMMA NextReported == ShapeInv /\ AllReported /\ [Next]_vars => AllReported'
<1> SUFFICES ASSUME ShapeInv, AllReported, [Next]_vars, NEW d \in IdCall
             PROVE  Reported(ident'[d], agents')
  BY DEF AllReported
<1>1. RowsKept /\ Reported(ident[d], agents)
  BY NextShape DEF AllReported
<1>2. CASE ident'[d] = ident[d]
  BY <1>1, <1>2, ReportedStays
<1>3. CASE \E c \in IdCall : c # d /\ (IdStart(c) \/ IdContinue(c))
  <2>1. ident'[d] = ident[d]
    BY <1>3 DEF IdStart, IdContinue, CreateStart, RequestStart, SetVisibility, ReadFails, RevokeRead,
                RevokeWrite, RotateRead, DrawName, NamesExhausted, SaveAgent, SaveAgentFails, NameConflict,
                Return, ReturnAtOnce, Goto, ShapeInv, IdentityInv, IdTypeOK
  <2>2. QED
    BY <2>1, <1>2
<1>4. CASE IdStart(d) \/ IdContinue(d)
  BY <1>1, <1>4, IdentityStepReports
<1>5. QED
  BY <1>2, <1>3, <1>4 DEF Next, IdentityStep, AttestingStep, vars

LEMMA ReportedInvariant == Spec => [](ShapeInv /\ AllReported)
<1>1. Init => AllReported
  BY DEF Init, IdInit, IdleCall, AllReported, Reported
<1>2. QED
  BY <1>1, NextReported, ShapeInvariant, PTL DEF Spec

(* A name that a create or a rotation reported belongs to the agent it      *)
(* returned and to no other, whatever the calls that drew the same name do. *)
THEOREM NamesResolve == Spec => []NameResolves
<1>1. ShapeInv /\ AllReported => NameResolves
  <2> SUFFICES ASSUME ShapeInv, AllReported, NEW c \in OkCalls({"create", "rotate"})
               PROVE  {r.publicKey : r \in {s \in agents : s.name = ident[c].name}} = {ident[c].minted}
    BY DEF NameResolves
  <2>1. PICK row \in agents : row.publicKey = ident[c].minted /\ row.name = ident[c].name
    BY DEF OkCalls, AllReported, Reported
  <2>2. \A s \in agents : s.name = ident[c].name => s = row
    BY <2>1 DEF ShapeInv, IdentityInv, StoreInv, UniqueRows
  <2>3. QED
    BY <2>1, <2>2
<1>2. QED
  BY <1>1, ReportedInvariant, PTL

(* A revocation that was reported is in the store for good, also when it    *)
(* was another call that wrote it.                                          *)
THEOREM RevocationsAreDurable == Spec => []RevokeOkIsDurable
<1>1. AllReported => RevokeOkIsDurable
  BY DEF AllReported, Reported, RevokeOkIsDurable, OkCalls, Revoked, AgentRows
<1>2. QED
  BY <1>1, ReportedInvariant, PTL

----------------------------------------------------------------------------
(* Evidence *)

(* What a call carries to its insert says where the work was done.          *)
EvidenceHeld ==
  \A c \in AttCall :
    work[c].pc \notin {"idle", "done"} /\ work[c].req.op \in {"attest", "ingest"} =>
      (work[c].req.source = "native" <=> work[c].evidence = NULL)

LEMMA AttestingStepAccounts ==
  ASSUME ShapeInv, EvidenceHeld, EntriesAccountable, NEW c \in AttCall, AttStart(c) \/ AttContinue(c)
  PROVE  EvidenceHeld' /\ EntriesAccountable'
<1>0. work[c] \in AttCallState /\ \A s : Becomes(c, s) => work'[c] = s
  BY DEF ShapeInv, AttestingInv, AttTypeOK, Becomes
<1>1. ASSUME NEW d \in AttCall, d # c
      PROVE  work'[d] = work[d]
  BY <1>1, OthersWait
<1> DEFINE Told(s) == s.pc \notin {"idle", "done"} /\ s.req.op \in {"attest", "ingest"} =>
                        (s.req.source = "native" <=> s.evidence = NULL)
<1>2. Told(work'[c])
  <2>1. ASSUME NEW code, Fail(c, code)
        PROVE  work'[c].pc = "done"
    BY <1>0, <2>1 DEF Fail, AttCallState
  <2>2. ASSUME NEW row, Deliver(c, row)
        PROVE  work'[c].pc = "done"
    BY <1>0, <2>2 DEF Deliver, AttCallState
  <2>3. ASSUME NEW pc, Proceed(c, pc), work[c].pc \notin {"idle", "done"}
        PROVE  Told(work'[c])
    <3>1. work'[c].req = work[c].req /\ work'[c].evidence = work[c].evidence
      BY <1>0, <2>3 DEF Proceed, AttCallState
    <3>2. QED
      BY <2>3, <3>1 DEF EvidenceHeld
  <2>4. ASSUME NEW q, NEW e, Becomes(c, Opened(q, e))
        PROVE  work'[c].req = q /\ work'[c].evidence = e
    BY <1>0, <2>4 DEF Opened, IdleWork
  <2>5. CASE AttStart(c)
    <3>1. PICK q \in AttRequest : AttestStart(c, q) \/ IngestStart(c, q) \/ VerifyStart(c, q)
      BY <2>5 DEF AttStart
    <3>2. CASE AttestStart(c, q) \/ VerifyStart(c, q)
      BY <2>4, <3>2, AttRequestAssumption DEF AttestStart, VerifyStart
    <3>3. CASE IngestStart(c, q)
      <4>1. ASSUME NEW code, Becomes(c, [IdleWork EXCEPT !.pc = "done", !.req = q, !.result = code])
            PROVE  work'[c].pc = "done"
        BY <1>0, <4>1 DEF IdleWork
      <4>2. NULL \notin {"checked", "unchecked"}
        BY EvidenceAssumption
      <4>3. QED
        BY <2>4, <3>3, <4>1, <4>2 DEF IngestStart
    <3>4. QED
      BY <3>1, <3>2, <3>3
  <2>6. CASE VerifyGate(c)
    <3>1. work'[c].pc = "done"
      BY <1>0, <2>1, <2>6 DEF VerifyGate, AttCallState
    <3>2. QED
      BY <3>1
  <2>7. CASE AttContinue(c) /\ ~ VerifyGate(c)
    BY <2>1, <2>2, <2>3, <2>7
       DEF AttContinue, Gate, Lookup, SaveAttestation, SaveAttestationFails, SaveConflicts, Refetch
  <2>8. QED
    BY <2>5, <2>6, <2>7
<1>3. EvidenceHeld'
  BY <1>1, <1>2 DEF EvidenceHeld
<1>4. CASE attestations' = attestations
  BY <1>3, <1>4 DEF EntriesAccountable
<1>5. CASE SaveAttestation(c)
  <2>1. attestations' = attestations \cup {NewAttestation(c)} /\ work[c].pc = "save"
    BY <1>5 DEF SaveAttestation, InsertAttestation
  <2>2. work[c].req.op \in {"attest", "ingest"} /\ work[c].req.signer = work[c].req.agent
    BY <2>1 DEF ShapeInv, AttestingInv, AttestingHeld, AttHeld
  <2>3. work[c].req.source = "native" <=> work[c].evidence = NULL
    BY <2>1, <2>2 DEF EvidenceHeld
  <2>4. QED
    BY <1>3, <2>1, <2>2, <2>3 DEF EntriesAccountable, NewAttestation
<1>6. QED
  BY <1>4, <1>5 DEF AttStart, AttContinue, AttestStart, IngestStart, VerifyStart, Gate, Lookup,
                    SaveAttestationFails, SaveConflicts, Refetch, VerifyGate, tables

(* Every entry is signed by the agent it is about, and what an adapter      *)
(* brought in never stands as native work.                                  *)
THEOREM EntriesAreAccountable == Spec => []EntriesAccountable
<1> DEFINE Inv == EvidenceHeld /\ EntriesAccountable
<1>1. Init => Inv
  BY DEF Init, AttInit, StoreInit, IdleWork, EvidenceHeld, EntriesAccountable
<1>2. ShapeInv /\ Inv /\ [Next]_vars => Inv'
  <2> SUFFICES ASSUME ShapeInv, Inv, [Next]_vars PROVE Inv'
    OBVIOUS
  <2>1. CASE AttestingStep
    BY <2>1, AttestingStepAccounts DEF AttestingStep
  <2>2. CASE UNCHANGED <<attestations, work>>
    BY <2>2 DEF EvidenceHeld, EntriesAccountable
  <2>3. QED
    BY <2>1, <2>2 DEF Next, vars, IdentityStep, IdStart, IdContinue, tables, CreateStart, RequestStart,
                      SetVisibility, ReadFails, RevokeRead, RevokeWrite, RotateRead, DrawName,
                      NamesExhausted, SaveAgent, SaveAgentFails, NameConflict
<1> HIDE DEF Inv
<1>3. Inv => EntriesAccountable
  BY DEF Inv
<1>4. QED
  BY <1>1, <1>2, <1>3, ShapeInvariant, PTL DEF Spec

----------------------------------------------------------------------------
(***************************************************************************)
(* The calls implement LedgerPromise: each of their steps is a step of the *)
(* promise or leaves what it speaks of as it is.                           *)
(***************************************************************************)
Dead == {a \in AgentId : Revoked(a)}

Links == {<<l.old, l.new>> : l \in rotations}

Kept == [Promise!Next]_(Promise!promised)

----------------------------------------------------------------------------
(* The promise's steps, over what the tables show of them *)

LEMMA StutterKept ==
  ASSUME UNCHANGED <<Saved, Dead, attestations, Links, Admitted>>
  PROVE  Kept
  BY DEF Kept, Promise!promised, Dead, Links

LEMMA RegisterKept ==
  ASSUME NEW a \in AgentId, a \notin Saved, Saved' = Saved \cup {a},
         UNCHANGED <<Dead, attestations, Links, Admitted>>
  PROVE  Kept
<1>1. Promise!Register(a)
  BY DEF Promise!Register, Dead, Links
<1>2. QED
  BY <1>1 DEF Kept, Promise!Next

LEMMA RevokeKept ==
  ASSUME NEW a \in AgentId, a \in Saved, Dead' = Dead \cup {a},
         UNCHANGED <<Saved, attestations, Links, Admitted>>
  PROVE  Kept
<1>1. Promise!Revoke(a)
  BY DEF Promise!Revoke, Dead, Links
<1>2. QED
  BY <1>1 DEF Kept, Promise!Next

LEMMA AdmitKept ==
  ASSUME NEW c \in IdCall \cup AttCall, NEW a \in AgentId, a \in Saved, ~ Revoked(a),
         \A b : <<c, b>> \notin Admitted, Admitted' = Admitted \cup {<<c, a>>},
         UNCHANGED <<Saved, Dead, attestations, Links>>
  PROVE  Kept
<1>1. Promise!Admit(c, a)
  BY DEF Promise!Admit, Dead, Links
<1>2. QED
  BY <1>1 DEF Kept, Promise!Next

LEMMA DismissKept ==
  ASSUME NEW c \in IdCall \cup AttCall, NEW a \in AgentId, <<c, a>> \in Admitted,
         Admitted' = Admitted \ {<<c, a>>},
         UNCHANGED <<Saved, Dead, attestations, Links>>
  PROVE  Kept
<1>1. Promise!Dismiss(c, a)
  BY DEF Promise!Dismiss, Dead, Links
<1>2. QED
  BY <1>1 DEF Kept, Promise!Next

LEMMA AppendKept ==
  ASSUME NEW c \in IdCall \cup AttCall, NEW e \in AttestationRow, <<c, e.agent>> \in Admitted,
         e \notin attestations, ~ KeyConflict(e), attestations' = attestations \cup {e},
         Admitted' = Admitted \ {<<c, e.agent>>},
         UNCHANGED <<Saved, Dead, Links>>
  PROVE  Kept
<1>1. e.key = NULL \/ \A f \in attestations : f.agent # e.agent \/ f.key # e.key
  BY DEF KeyConflict, Keyed
<1>2. Promise!Append(c, e)
  BY <1>1 DEF Promise!Append, Dead, Links
<1>3. QED
  BY <1>2 DEF Kept, Promise!Next

LEMMA SucceedKept ==
  ASSUME NEW c \in IdCall \cup AttCall, NEW a \in AgentId, NEW b \in AgentId, <<c, a>> \in Admitted,
         b \notin Saved, Saved' = Saved \cup {b}, Links' = Links \cup {<<a, b>>},
         Admitted' = Admitted \ {<<c, a>>},
         UNCHANGED <<Dead, attestations>>
  PROVE  Kept
<1>1. Promise!Succeed(c, a, b)
  BY DEF Promise!Succeed, Dead, Links
<1>2. QED
  BY <1>1 DEF Kept, Promise!Next

----------------------------------------------------------------------------
(* What a statement on agents changes of who is known and who is revoked *)

LEMMA InsertShows ==
  ASSUME NEW row, InsertAgent(row), row.revokedAt = NULL
  PROVE  row.publicKey \notin Saved /\ Saved' = Saved \cup {row.publicKey} /\ Dead' = Dead
<1>1. row.publicKey \notin Saved /\ Saved' = Saved \cup {row.publicKey}
  BY DEF InsertAgent, Saved
<1>2. \A a : Revoked(a)' <=> Revoked(a)
  BY DEF InsertAgent, Revoked, AgentRows
<1>3. QED
  BY <1>1, <1>2 DEF Dead

LEMMA StampShows ==
  ASSUME StoreTypeOK, NEW a \in AgentId, NEW c \in IdCall, SetRevokedAt(a, c)
  PROVE  Saved' = Saved /\ Dead' = Dead \cup ({a} \cap Saved)
<1> DEFINE Changed(r) == IF r.publicKey = a THEN [r EXCEPT !.revokedAt = c] ELSE r
<1>1. agents' = {Changed(r) : r \in agents}
  BY DEF SetRevokedAt
<1>2. \A r \in agents : /\ Changed(r).publicKey = r.publicKey
                        /\ Changed(r).revokedAt = IF r.publicKey = a THEN c ELSE r.revokedAt
  BY DEF StoreTypeOK, AgentRow
<1>3. c # NULL
  BY NullAssumption
<1> HIDE DEF Changed
<1>4. Saved' = Saved
  BY <1>1, <1>2 DEF Saved
<1>5. \A b : Revoked(b)' <=> Revoked(b) \/ (b = a /\ a \in Saved)
  BY <1>1, <1>2, <1>3 DEF Revoked, AgentRows, Saved
<1>6. QED
  BY <1>4, <1>5 DEF Dead

LEMMA ToggleShows ==
  ASSUME StoreTypeOK, NEW a, NEW v, SetVisibilityOf(a, v)
  PROVE  Saved' = Saved /\ Dead' = Dead
<1> DEFINE Changed(r) == IF r.publicKey = a THEN [r EXCEPT !.visibility = v] ELSE r
<1>1. agents' = {Changed(r) : r \in agents}
  BY DEF SetVisibilityOf
<1>2. \A r \in agents : Changed(r).publicKey = r.publicKey /\ Changed(r).revokedAt = r.revokedAt
  BY DEF StoreTypeOK, AgentRow
<1> HIDE DEF Changed
<1>3. Saved' = Saved
  BY <1>1, <1>2 DEF Saved
<1>4. \A b : Revoked(b)' <=> Revoked(b)
  BY <1>1, <1>2 DEF Revoked, AgentRows
<1>5. QED
  BY <1>3, <1>4 DEF Dead

LEMMA StillShows ==
  ASSUME UNCHANGED agents
  PROVE  Saved' = Saved /\ Dead' = Dead
  BY DEF Saved, Dead, Revoked, AgentRows

LEMMA StillLinks ==
  ASSUME UNCHANGED rotations
  PROVE  Links' = Links
  BY DEF Links

----------------------------------------------------------------------------
(* Who is admitted *)

Rotating(s) == s.pc \in {"name", "save"} /\ s.req.op = "rotate"

Signing(s) == s.pc \in {"lookup", "save", "refetch"}

LEMMA AdmittedPairs ==
  ASSUME NEW x
  PROVE  x \in Admitted <=>
           \/ \E d \in IdCall : Rotating(ident[d]) /\ x = <<d, ident[d].req.target>>
           \/ \E d \in AttCall : Signing(work[d]) /\ x = <<d, work[d].req.agent>>
  BY DEF Admitted, Rotating, Signing

LEMMA AdmittedPairsNext ==
  ASSUME NEW x
  PROVE  x \in Admitted' <=>
           \/ \E d \in IdCall : Rotating(ident'[d]) /\ x = <<d, ident'[d].req.target>>
           \/ \E d \in AttCall : Signing(work'[d]) /\ x = <<d, work'[d].req.agent>>
  BY DEF Admitted, Rotating, Signing

(* A call's own steps admit and dismiss that call only. *)
LEMMA IdentityAdmits ==
  ASSUME NEW c \in IdCall, UNCHANGED work, \A d \in IdCall \ {c} : ident'[d] = ident[d]
  PROVE  /\ ~ Rotating(ident[c]) => \A b : <<c, b>> \notin Admitted
         /\ Rotating(ident[c]) => <<c, ident[c].req.target>> \in Admitted
         /\ ~ Rotating(ident[c]) /\ ~ Rotating(ident'[c]) => Admitted' = Admitted
         /\ Rotating(ident[c]) /\ Rotating(ident'[c]) /\ ident'[c].req = ident[c].req => Admitted' = Admitted
         /\ ~ Rotating(ident[c]) /\ Rotating(ident'[c]) => Admitted' = Admitted \cup {<<c, ident'[c].req.target>>}
         /\ Rotating(ident[c]) /\ ~ Rotating(ident'[c]) => Admitted' = Admitted \ {<<c, ident[c].req.target>>}
<1>1. c \notin AttCall
  BY CallAssumption
<1> DEFINE Others(x) ==
       \/ \E d \in IdCall \ {c} : Rotating(ident[d]) /\ x = <<d, ident[d].req.target>>
       \/ \E d \in AttCall : Signing(work[d]) /\ x = <<d, work[d].req.agent>>
<1>2. \A x : x \in Admitted <=> Others(x) \/ (Rotating(ident[c]) /\ x = <<c, ident[c].req.target>>)
  BY AdmittedPairs
<1>3. \A x : x \in Admitted' <=> Others(x) \/ (Rotating(ident'[c]) /\ x = <<c, ident'[c].req.target>>)
  BY AdmittedPairsNext
<1>4. \A b : ~ Others(<<c, b>>)
  BY <1>1
<1> HIDE DEF Others
<1>5. QED
  BY <1>2, <1>3, <1>4

LEMMA AttestingAdmits ==
  ASSUME NEW c \in AttCall, UNCHANGED ident, \A d \in AttCall \ {c} : work'[d] = work[d]
  PROVE  /\ ~ Signing(work[c]) => \A b : <<c, b>> \notin Admitted
         /\ Signing(work[c]) => <<c, work[c].req.agent>> \in Admitted
         /\ ~ Signing(work[c]) /\ ~ Signing(work'[c]) => Admitted' = Admitted
         /\ Signing(work[c]) /\ Signing(work'[c]) /\ work'[c].req = work[c].req => Admitted' = Admitted
         /\ ~ Signing(work[c]) /\ Signing(work'[c]) => Admitted' = Admitted \cup {<<c, work'[c].req.agent>>}
         /\ Signing(work[c]) /\ ~ Signing(work'[c]) => Admitted' = Admitted \ {<<c, work[c].req.agent>>}
<1>1. c \notin IdCall
  BY CallAssumption
<1> DEFINE Others(x) ==
       \/ \E d \in IdCall : Rotating(ident[d]) /\ x = <<d, ident[d].req.target>>
       \/ \E d \in AttCall \ {c} : Signing(work[d]) /\ x = <<d, work[d].req.agent>>
<1>2. \A x : x \in Admitted <=> Others(x) \/ (Signing(work[c]) /\ x = <<c, work[c].req.agent>>)
  BY AdmittedPairs
<1>3. \A x : x \in Admitted' <=> Others(x) \/ (Signing(work'[c]) /\ x = <<c, work'[c].req.agent>>)
  BY AdmittedPairsNext
<1>4. \A b : ~ Others(<<c, b>>)
  BY <1>1
<1> HIDE DEF Others
<1>5. QED
  BY <1>2, <1>3, <1>4

LEMMA OtherCallsRest ==
  ASSUME ShapeInv, NEW c \in IdCall, IdStart(c) \/ IdContinue(c), NEW d \in IdCall \ {c}
  PROVE  ident'[d] = ident[d]
<1>1. \A s : Goto(c, s) => ident'[d] = ident[d]
  BY DEF ShapeInv, IdentityInv, IdTypeOK, Goto
<1>2. \E s : Goto(c, s)
  BY DEF IdStart, IdContinue, CreateStart, RequestStart, SetVisibility, ReadFails, RevokeRead, RevokeWrite,
         RotateRead, DrawName, NamesExhausted, SaveAgent, SaveAgentFails, NameConflict, Return, ReturnAtOnce
<1>3. QED
  BY <1>1, <1>2

----------------------------------------------------------------------------
(* Each step of a call *)

LEMMA IdentityStepKept ==
  ASSUME ShapeInv, NEW c \in IdCall, IdStart(c) \/ IdContinue(c), UNCHANGED work
  PROVE  Kept
<1>0. /\ ident[c] \in IdCallState /\ Held(ident[c], agents) /\ \A s : Goto(c, s) => ident'[c] = s
      /\ StoreTypeOK /\ UniqueRows
  BY DEF ShapeInv, IdentityInv, StoreInv, IdTypeOK, IdentityHeld, Goto
<1>1. ident[c].pc # "idle" => ident[c].req.target \in AgentId
  BY <1>0, IdRequestAssumption DEF Held, IdRequestType
<1>2. UNCHANGED agents => Saved' = Saved /\ Dead' = Dead
  BY StillShows
<1>3. UNCHANGED tables => UNCHANGED <<Saved, Dead, attestations, Links>>
  BY <1>2, StillLinks DEF tables
<1>4. \A d \in IdCall \ {c} : ident'[d] = ident[d]
  BY OtherCallsRest
<1>5. c \in IdCall \cup AttCall
  OBVIOUS
<1>6. ASSUME NEW code, Return(c, code)
      PROVE  ident'[c].pc = "done" /\ ~ Rotating(ident'[c])
  BY <1>0, <1>6 DEF Return, IdCallState, Rotating
<1>7. ASSUME NEW q, NEW code, ReturnAtOnce(c, q, code)
      PROVE  ~ Rotating(ident'[c])
  BY <1>0, <1>7 DEF ReturnAtOnce, IdleCall, Rotating
<1>8. ASSUME NEW q \in IdRequest, CreateStart(c, q) \/ RequestStart(c, q)
      PROVE  Kept
  <2>1. ~ Rotating(ident[c]) /\ UNCHANGED tables
    BY <1>8 DEF CreateStart, RequestStart, Rotating
  <2>2. ~ Rotating(ident'[c])
    <3> DEFINE s(a) == [IdleCall EXCEPT !.pc = IF q.name = NULL THEN "name" ELSE "save",
                                        !.req = q, !.minted = a, !.name = q.name]
    <3> DEFINE t == [IdleCall EXCEPT !.pc = "read", !.req = q, !.late = Revoked(q.target)]
    <3>1. \A a : s(a).req = q
      BY DEF IdleCall
    <3>2. t.pc = "read"
      BY DEF IdleCall
    <3> HIDE DEF s
    <3>3. q.op = "create" => \A a : ~ Rotating(s(a))
      BY <3>1 DEF Rotating
    <3>4. ~ Rotating(t)
      BY <3>2 DEF Rotating
    <3> HIDE DEF t
    <3>5. CASE CreateStart(c, q)
      <4>1. \/ ReturnAtOnce(c, q, "KEY_GENERATION_FAILED")
            \/ q.op = "create" /\ \E a : Goto(c, s(a))
        BY <3>5 DEF CreateStart, s
      <4>2. QED
        BY <4>1, <3>3, <1>0, <1>7
    <3>6. CASE RequestStart(c, q)
      <4>1. Goto(c, t)
        BY <3>6 DEF RequestStart, t
      <4>2. QED
        BY <4>1, <3>4, <1>0
    <3>7. QED
      BY <1>8, <3>5, <3>6
  <2>3. QED
    BY <2>1, <2>2, <1>3, <1>4, IdentityAdmits, StutterKept
<1>9. ASSUME NEW q \in IdRequest, SetVisibility(c, q)
      PROVE  Kept
  <2>1. ~ Rotating(ident[c]) /\ ~ Rotating(ident'[c]) /\ UNCHANGED <<rotations, attestations>>
    BY <1>7, <1>9 DEF SetVisibility, Rotating
  <2>2. Saved' = Saved /\ Dead' = Dead
    BY <1>0, <1>2, <1>9, ToggleShows DEF SetVisibility
  <2>3. QED
    BY <2>1, <2>2, <1>4, StillLinks, IdentityAdmits, StutterKept
<1>10. CASE ReadFails(c) \/ RevokeRead(c)
  <2>1. ~ Rotating(ident[c]) /\ UNCHANGED tables
    BY <1>10 DEF ReadFails, RevokeRead, At, Rotating
  <2> DEFINE s(row) == [ident[c] EXCEPT !.pc = "save", !.seen = row]
  <2>2. \A row : s(row).req = ident[c].req
    BY <1>0 DEF IdCallState
  <2>3. (\E code : Return(c, code)) \/ (ident[c].req.op = "revoke" /\ \E row : Goto(c, s(row)))
    BY <1>10 DEF ReadFails, RevokeRead, At
  <2> HIDE DEF s
  <2>4. ~ Rotating(ident'[c])
    BY <2>2, <2>3, <1>0, <1>6 DEF Rotating
  <2>5. QED
    BY <2>1, <2>4, <1>3, <1>4, IdentityAdmits, StutterKept
<1>11. CASE RevokeWrite(c)
  <2>1. /\ ~ Rotating(ident[c]) /\ ~ Rotating(ident'[c]) /\ UNCHANGED <<rotations, attestations>>
        /\ ident[c].req.target \in AgentId
    BY <1>1, <1>6, <1>11 DEF RevokeWrite, At, Rotating
  <2>2. UNCHANGED <<attestations, Links, Admitted>>
    BY <2>1, <1>4, StillLinks, IdentityAdmits
  <2> DEFINE a == ident[c].req.target
  <2>3. Saved' = Saved /\ (Dead' = Dead \/ Dead' = Dead \cup ({a} \cap Saved))
    BY <1>0, <1>2, <1>11, <2>1, StampShows DEF RevokeWrite
  <2>4. CASE a \in Saved
    BY <2>1, <2>2, <2>3, <2>4, RevokeKept, StutterKept
  <2>5. CASE a \notin Saved
    BY <2>2, <2>3, <2>5, StutterKept
  <2>6. QED
    BY <2>4, <2>5
<1>12. CASE RotateRead(c)
  <2>1. ~ Rotating(ident[c]) /\ UNCHANGED tables /\ ident[c].req.op = "rotate" /\ ident[c].pc = "read"
    BY <1>12 DEF RotateRead, At, Rotating
  <2> DEFINE s(row, a) == [ident[c] EXCEPT !.pc = "name", !.seen = row, !.minted = a]
  <2>2. \A row, a : s(row, a).pc = "name" /\ s(row, a).req = ident[c].req
    BY <1>0 DEF IdCallState
  <2>3. \/ \E code : Return(c, code)
        \/ \E row \in AgentRows(ident[c].req.target) : row.revokedAt = NULL /\ \E a : Goto(c, s(row, a))
    BY <1>12 DEF RotateRead
  <2> HIDE DEF s
  <2>4. CASE \E code : Return(c, code)
    BY <2>1, <2>4, <1>3, <1>4, <1>6, IdentityAdmits, StutterKept
  <2>5. CASE \E row \in AgentRows(ident[c].req.target) : row.revokedAt = NULL /\ \E a : Goto(c, s(row, a))
    <3>1. Rotating(ident'[c]) /\ ident'[c].req.target = ident[c].req.target
      BY <2>1, <2>2, <2>5, <1>0 DEF Rotating
    <3>2. ident[c].req.target \in Saved /\ ~ Revoked(ident[c].req.target)
      BY <2>5, <1>0, RevokedRow DEF Saved, AgentRows
    <3>3. ident[c].req.target \in AgentId
      BY <2>1, <1>1
    <3>4. /\ \A b : <<c, b>> \notin Admitted
          /\ Admitted' = Admitted \cup {<<c, ident[c].req.target>>}
      BY <2>1, <3>1, <1>4, IdentityAdmits
    <3>5. QED
      BY <2>1, <3>2, <3>3, <3>4, <1>3, <1>5, AdmitKept
  <2>6. QED
    BY <2>3, <2>4, <2>5
<1>13. ASSUME NEW n, DrawName(c, n) \/ NameConflict(c)
       PROVE  Kept
  <2>1. /\ ident[c].pc \in {"name", "save"} /\ ident[c].req.op \in {"create", "rotate"} /\ UNCHANGED tables
    BY <1>13 DEF DrawName, NameConflict, At
  <2> DEFINE s == [ident[c] EXCEPT !.pc = "save", !.name = n]
  <2>2. /\ s.pc = "save" /\ s.req = ident[c].req
        /\ NextTry(c).pc = "name" /\ NextTry(c).req = ident[c].req
    BY <1>0 DEF NextTry, IdCallState
  <2>3. \/ Return(c, "DUPLICATE_NAME") /\ ident[c].req.op = "create"
        \/ Goto(c, NextTry(c))
        \/ Goto(c, s)
    BY <1>13 DEF DrawName, NameConflict
  <2> HIDE DEF s
  <2>4. \/ ~ Rotating(ident[c]) /\ ~ Rotating(ident'[c])
        \/ Rotating(ident[c]) /\ Rotating(ident'[c]) /\ ident'[c].req = ident[c].req
    BY <2>1, <2>2, <2>3, <1>0, <1>6 DEF Rotating
  <2>5. QED
    BY <2>1, <2>4, <1>3, <1>4, IdentityAdmits, StutterKept
<1>14. CASE NamesExhausted(c) \/ SaveAgentFails(c)
  <2>1. ~ Rotating(ident'[c]) /\ UNCHANGED tables /\ ident[c].pc # "idle"
    BY <1>6, <1>14 DEF NamesExhausted, SaveAgentFails, At
  <2>2. CASE Rotating(ident[c])
    BY <2>1, <2>2, <1>1, <1>3, <1>4, <1>5, IdentityAdmits, DismissKept
  <2>3. CASE ~ Rotating(ident[c])
    BY <2>1, <2>3, <1>3, <1>4, IdentityAdmits, StutterKept
  <2>4. QED
    BY <2>2, <2>3
<1>15. CASE SaveAgent(c)
  <2>1. /\ ident[c].pc = "save" /\ ident[c].req.op \in {"create", "rotate"} /\ Persist(c)
        /\ ~ Rotating(ident'[c]) /\ attestations' = attestations
    BY <1>6, <1>15 DEF SaveAgent, At
  <2>2. NewRow(c).revokedAt = NULL /\ NewRow(c).publicKey = ident[c].minted
    BY DEF NewRow
  <2>3. /\ ident[c].minted \notin Saved /\ Saved' = Saved \cup {ident[c].minted} /\ Dead' = Dead
        /\ ident[c].minted \in AgentId /\ ident[c].req.target \in AgentId
    BY <2>1, <2>2, <1>0, <1>1, InsertShows DEF Persist, Held
  <2>4. CASE ident[c].req.op = "create"
    <3>1. ~ Rotating(ident[c]) /\ UNCHANGED rotations
      BY <2>1, <2>4 DEF Persist, Rotating
    <3>2. QED
      BY <2>1, <2>3, <3>1, <1>4, StillLinks, IdentityAdmits, RegisterKept
  <2>5. CASE ident[c].req.op = "rotate"
    <3>1. Rotating(ident[c])
      BY <2>1, <2>5 DEF Rotating
    <3>2. rotations' = rotations \cup {Lineage(c)}
      BY <2>1, <2>5 DEF Persist, InsertRotation
    <3>3. Lineage(c).old = ident[c].req.target /\ Lineage(c).new = ident[c].minted
      BY DEF Lineage
    <3>4. Links' = Links \cup {<<ident[c].req.target, ident[c].minted>>}
      BY <3>2, <3>3 DEF Links
    <3>5. /\ <<c, ident[c].req.target>> \in Admitted
          /\ Admitted' = Admitted \ {<<c, ident[c].req.target>>}
      BY <2>1, <3>1, <1>4, IdentityAdmits
    <3>6. QED
      BY <2>1, <2>3, <3>4, <3>5, <1>5, SucceedKept
  <2>6. QED
    BY <2>1, <2>4, <2>5
<1>16. QED
  BY <1>8, <1>9, <1>10, <1>11, <1>12, <1>13, <1>14, <1>15 DEF IdStart, IdContinue

LEMMA AttestingStepKept ==
  ASSUME ShapeInv, WrittenInTime, NEW c \in AttCall, AttStart(c) \/ AttContinue(c), UNCHANGED ident
  PROVE  Kept
<1>0. /\ work[c] \in AttCallState /\ AttHeld(work[c]) /\ \A s : Becomes(c, s) => work'[c] = s
  BY DEF ShapeInv, AttestingInv, AttTypeOK, AttestingHeld, Becomes
<1>1. work[c].pc # "idle" => work[c].req.agent \in AgentId
  BY <1>0, AttRequestAssumption DEF AttHeld, AttRequestType
<1>2. UNCHANGED <<agents, rotations>>
  BY AttestingStepKeeps DEF ShapeInv
<1>3. UNCHANGED <<Saved, Dead, Links>>
  BY <1>2, StillShows, StillLinks
<1>4. \A d \in AttCall \ {c} : work'[d] = work[d]
  BY OthersWait
<1>5. c \in IdCall \cup AttCall
  OBVIOUS
<1>6. ASSUME NEW code, NEW row, Fail(c, code) \/ Deliver(c, row)
      PROVE  ~ Signing(work'[c])
  BY <1>0, <1>6 DEF Fail, Deliver, AttCallState, Signing
<1>7. ASSUME NEW pc, Proceed(c, pc)
      PROVE  work'[c].pc = pc /\ work'[c].req = work[c].req
  BY <1>0, <1>7 DEF Proceed, AttCallState
<1>8. CASE AttStart(c) \/ VerifyGate(c)
  <2>1. ~ Signing(work[c]) /\ UNCHANGED attestations
    BY <1>8 DEF AttStart, AttestStart, IngestStart, VerifyStart, VerifyGate, Signing, tables
  <2>2. ASSUME NEW q, NEW e, Becomes(c, Opened(q, e))
        PROVE  ~ Signing(work'[c])
    BY <1>0, <2>2 DEF Opened, IdleWork, Signing
  <2>3. ASSUME NEW q, NEW code, Becomes(c, [IdleWork EXCEPT !.pc = "done", !.req = q, !.result = code])
        PROVE  ~ Signing(work'[c])
    BY <1>0, <2>3 DEF IdleWork, Signing
  <2>4. ASSUME Becomes(c, [work[c] EXCEPT !.pc = "done", !.result = "ok"])
        PROVE  ~ Signing(work'[c])
    BY <1>0, <2>4 DEF AttCallState, Signing
  <2>5. ~ Signing(work'[c])
    BY <1>6, <1>8, <2>2, <2>3, <2>4 DEF AttStart, AttestStart, IngestStart, VerifyStart, VerifyGate
  <2>6. QED
    BY <2>1, <2>5, <1>3, <1>4, AttestingAdmits, StutterKept
<1>9. CASE Gate(c)
  <2>1. ~ Signing(work[c]) /\ UNCHANGED attestations /\ work[c].pc = "gate"
    BY <1>9 DEF Gate, Signing, tables
  <2> DEFINE a == work[c].req.agent
  <2>2. \/ \E code : Fail(c, code)
        \/ /\ GateRefusal(work[c].req, AgentRows(a)) = "none"
           /\ \E pc \in {"save", "lookup"} : Proceed(c, pc)
    BY <1>9 DEF Gate
  <2>3. CASE \E code : Fail(c, code)
    BY <2>1, <2>3, <1>3, <1>4, <1>6, AttestingAdmits, StutterKept
  <2>4. CASE /\ GateRefusal(work[c].req, AgentRows(a)) = "none"
             /\ \E pc \in {"save", "lookup"} : Proceed(c, pc)
    <3>1. AgentRows(a) # {} /\ \A r \in AgentRows(a) : r.revokedAt = NULL
      BY <2>4 DEF GateRefusal
    <3>2. a \in Saved /\ ~ Revoked(a)
      BY <3>1 DEF Saved, Revoked, AgentRows
    <3>3. Signing(work'[c]) /\ work'[c].req = work[c].req
      BY <2>4, <1>7 DEF Signing
    <3>4. (\A b : <<c, b>> \notin Admitted) /\ Admitted' = Admitted \cup {<<c, a>>}
      BY <2>1, <3>3, <1>4, AttestingAdmits
    <3>5. a \in AgentId
      BY <2>1, <1>1
    <3>6. QED
      BY <2>1, <3>2, <3>4, <3>5, <1>3, <1>5, AdmitKept
  <2>5. QED
    BY <2>2, <2>3, <2>4
<1>10. ASSUME Signing(work[c]), UNCHANGED attestations, ~ Signing(work'[c])
       PROVE  Kept
  <2>1. work[c].req.agent \in AgentId
    BY <1>1, <1>10 DEF Signing
  <2>2. /\ <<c, work[c].req.agent>> \in Admitted
        /\ Admitted' = Admitted \ {<<c, work[c].req.agent>>}
    BY <1>4, <1>10, AttestingAdmits
  <2>3. QED
    BY <2>1, <2>2, <1>3, <1>5, <1>10, DismissKept
<1>11. CASE Lookup(c) \/ Refetch(c) \/ SaveConflicts(c) \/ SaveAttestationFails(c)
  <2>1. Signing(work[c]) /\ UNCHANGED attestations
    BY <1>11 DEF Lookup, Refetch, SaveConflicts, SaveAttestationFails, Signing, tables
  <2>2. \/ \E code, row : Fail(c, code) \/ Deliver(c, row)
        \/ \E pc \in {"save", "refetch"} : Proceed(c, pc)
    BY <1>11 DEF Lookup, Refetch, SaveConflicts, SaveAttestationFails
  <2>3. CASE \E code, row : Fail(c, code) \/ Deliver(c, row)
    BY <2>1, <2>3, <1>6, <1>10
  <2>4. CASE \E pc \in {"save", "refetch"} : Proceed(c, pc)
    <3>1. Signing(work'[c]) /\ work'[c].req = work[c].req
      BY <2>4, <1>7 DEF Signing
    <3>2. QED
      BY <2>1, <3>1, <1>3, <1>4, AttestingAdmits, StutterKept
  <2>5. QED
    BY <2>2, <2>3, <2>4
<1>12. CASE SaveAttestation(c)
  <2> DEFINE e == NewAttestation(c)
  <2>1. /\ Signing(work[c]) /\ work[c].pc = "save" /\ ~ KeyConflict(e)
        /\ attestations' = attestations \cup {e}
    BY <1>12 DEF SaveAttestation, InsertAttestation, Signing
  <2>2. e \in AttestationRow
    BY <2>1, NewAttestationType DEF ShapeInv
  <2>3. e.agent = work[c].req.agent /\ e.id = c
    BY DEF NewAttestation
  <2> HIDE DEF e
  <2>4. e \notin attestations
    BY <2>1, <2>3 DEF WrittenInTime
  <2>5. ~ Signing(work'[c])
    BY <1>6, <1>12 DEF SaveAttestation
  <2>6. <<c, e.agent>> \in Admitted /\ Admitted' = Admitted \ {<<c, e.agent>>}
    BY <2>1, <2>3, <2>5, <1>4, AttestingAdmits
  <2>7. QED
    BY <2>1, <2>2, <2>4, <2>6, <1>3, <1>5, AppendKept
<1>13. QED
  BY <1>8, <1>9, <1>11, <1>12 DEF AttContinue

LEMMA InitKept == Init => Promise!Init
<1> SUFFICES ASSUME Init PROVE Promise!Init
  OBVIOUS
<1>1. Saved \subseteq AgentId
  BY SeedAssumption DEF Init, StoreInit, Saved, AgentRow
<1>2. Dead = {}
  BY SeedAssumption DEF Init, StoreInit, Dead, Revoked, AgentRows
<1>3. attestations = {} /\ Links = {}
  BY DEF Init, StoreInit, Links
<1>4. Admitted = {}
  <2>1. (\A c \in IdCall : ~ Rotating(ident[c])) /\ (\A c \in AttCall : ~ Signing(work[c]))
    BY DEF Init, IdInit, AttInit, IdleCall, IdleWork, Rotating, Signing
  <2>2. QED
    BY <2>1, AdmittedPairs
<1>5. QED
  BY <1>1, <1>2, <1>3, <1>4 DEF Promise!Init, Dead, Links

LEMMA NextKept == ShapeInv /\ LateStopped /\ [Next]_vars => Kept
<1> SUFFICES ASSUME ShapeInv, LateStopped, [Next]_vars PROVE Kept
  OBVIOUS
<1>1. CASE IdentityStep
  BY <1>1, IdentityStepKept DEF IdentityStep
<1>2. CASE AttestingStep
  BY <1>2, AttestingStepKept DEF AttestingStep, LateStopped
<1>3. CASE UNCHANGED vars
  <2>1. UNCHANGED <<Saved, Dead, attestations, Links>>
    BY <1>3, StillShows, StillLinks DEF vars
  <2>2. Admitted' = Admitted
    BY <1>3 DEF vars, Admitted
  <2>3. QED
    BY <2>1, <2>2, StutterKept
<1>4. QED
  BY <1>1, <1>2, <1>3 DEF Next

(* Whatever calls overlap, what the tables show is a behaviour of the       *)
(* append-only ledger: entries and successors come from calls admitted      *)
(* while their agent was live, once each, and a revocation is final.        *)
THEOREM PromiseIsKept == Spec => PromiseKept
<1>1. Spec => [](ShapeInv /\ LateStopped)
  BY LateInvariant
<1>2. ShapeInv /\ LateStopped /\ [Next]_vars => [Promise!Next]_(Promise!promised)
  BY NextKept DEF Kept
<1>3. QED
  BY InitKept, <1>1, <1>2, PTL DEF Spec, PromiseKept, Promise!Spec

----------------------------------------------------------------------------
(* Retry loops end.                                                         *)

(* How far a call still is from returning: the most steps it can take,      *)
(* whatever names and keys other calls take meanwhile.                      *)
IdLeft(s) ==
  IF s.pc = "idle" THEN 2 * MaxTries + 4
  ELSE IF s.pc = "read" THEN 2 * MaxTries + 3
  ELSE IF s.pc = "name" THEN 2 * (MaxTries - s.tries) + 2
  ELSE IF s.pc = "save" THEN 2 * (MaxTries - s.tries) + 1
  ELSE 0

AttLeft(s) ==
  IF s.pc = "idle" THEN 5
  ELSE IF s.pc = "gate" THEN 4
  ELSE IF s.pc = "lookup" THEN 3
  ELSE IF s.pc = "save" THEN 2
  ELSE IF s.pc = "refetch" THEN 1
  ELSE 0

(* A step of call c: c comes nearer its end and no other call moves.        *)
IdNearer(c) ==
  /\ IdLeft(ident'[c]) < IdLeft(ident[c])
  /\ \A d \in IdCall \ {c} : ident'[d] = ident[d]
  /\ UNCHANGED work

AttNearer(c) ==
  /\ AttLeft(work'[c]) < AttLeft(work[c])
  /\ \A d \in AttCall \ {c} : work'[d] = work[d]
  /\ UNCHANGED ident

LeftBounded ==
  /\ \A c \in IdCall : IdLeft(ident[c]) \in 0..(2 * MaxTries + 4)
  /\ \A c \in AttCall : AttLeft(work[c]) \in 0..5

LEMMA LeftIsBounded == ShapeInv => LeftBounded
<1> SUFFICES ASSUME ShapeInv PROVE LeftBounded
  OBVIOUS
<1>1. ASSUME NEW c \in IdCall
      PROVE  IdLeft(ident[c]) \in 0..(2 * MaxTries + 4)
  <2>1. ident[c].tries \in 0..MaxTries
    BY DEF ShapeInv, IdentityInv, IdTypeOK, IdCallState
  <2>2. QED
    BY <2>1, MaxTriesAssumption DEF IdLeft
<1>2. ASSUME NEW c \in AttCall
      PROVE  AttLeft(work[c]) \in 0..5
  BY DEF AttLeft
<1>3. QED
  BY <1>1, <1>2 DEF LeftBounded

(* The moves a call may make: to its end, past its gate, from a drawn name  *)
(* to the save, and from either back to the loop with an attempt spent.     *)
IdMoves(s, t) ==
  \/ s.pc # "done" /\ t.pc = "done"
  \/ s.pc = "idle" /\ t.pc \in {"read", "name", "save"}
  \/ s.pc = "read" /\ t.pc \in {"name", "save"}
  \/ s.pc = "name" /\ t.pc = "save" /\ t.tries = s.tries
  \/ s.pc \in {"name", "save"} /\ t.pc = "name" /\ t.tries = s.tries + 1

LEMMA IdLeftFalls ==
  ASSUME NEW s \in IdCallState, NEW t, t.tries \in Nat, IdMoves(s, t)
  PROVE  IdLeft(t) < IdLeft(s)
<1>1. s.tries \in 0..MaxTries /\ MaxTries \in Nat
  BY MaxTriesAssumption DEF IdCallState
<1>2. s.pc \in {"idle", "read", "name", "save", "done"}
  BY DEF IdCallState
<1>3. QED
  BY <1>1, <1>2 DEF IdMoves, IdLeft

LEMMA MovesNearer ==
  ASSUME IdTypeOK, UNCHANGED work, NEW c \in IdCall, NEW t, t.tries \in Nat,
         IdMoves(ident[c], t), Goto(c, t)
  PROVE  IdNearer(c)
<1>1. ident[c] \in IdCallState /\ ident'[c] = t /\ \A d \in IdCall \ {c} : ident'[d] = ident[d]
  BY DEF IdTypeOK, Goto
<1>2. QED
  BY <1>1, IdLeftFalls DEF IdNearer

LEMMA IdentityStepComesNearer ==
  ASSUME IdTypeOK, UNCHANGED work, NEW c \in IdCall, IdStart(c) \/ IdContinue(c)
  PROVE  IdNearer(c)
<1>a. ident[c] \in IdCallState /\ ident[c].tries \in Nat /\ IdleCall \in IdCallState /\ IdleCall.tries = 0
  BY IdleIsState, MaxTriesAssumption DEF IdTypeOK, IdCallState, IdleCall
<1>b. ASSUME NEW code, Return(c, code), ident[c].pc # "done"
      PROVE  IdNearer(c)
  <2> DEFINE t == [ident[c] EXCEPT !.pc = "done", !.result = code]
  <2>1. t.tries = ident[c].tries /\ t.pc = "done" /\ Goto(c, t)
    BY <1>a, <1>b DEF Return, IdCallState
  <2> HIDE DEF t
  <2>2. QED
    BY <1>a, <1>b, <2>1, MovesNearer DEF IdMoves
<1>c. ASSUME NEW q, NEW code, ReturnAtOnce(c, q, code), ident[c].pc = "idle"
      PROVE  IdNearer(c)
  <2> DEFINE t == [IdleCall EXCEPT !.pc = "done", !.req = q, !.result = code]
  <2>1. t.tries = 0 /\ t.pc = "done" /\ Goto(c, t)
    BY <1>a, <1>c DEF ReturnAtOnce, IdCallState
  <2> HIDE DEF t
  <2>2. QED
    BY <1>c, <2>1, MovesNearer DEF IdMoves
<1>d. ASSUME Goto(c, NextTry(c)), ident[c].pc \in {"name", "save"}
      PROVE  IdNearer(c)
  <2>1. NextTry(c).pc = "name" /\ NextTry(c).tries = ident[c].tries + 1
    BY <1>a DEF NextTry, IdCallState
  <2>2. QED
    BY <1>a, <1>d, <2>1, MovesNearer DEF IdMoves
<1>1. ASSUME NEW q \in IdRequest, CreateStart(c, q)
      PROVE  IdNearer(c)
  <2> DEFINE t(a) == [IdleCall EXCEPT !.pc = IF q.name = NULL THEN "name" ELSE "save",
                                      !.req = q, !.minted = a, !.name = q.name]
  <2>1. ident[c].pc = "idle"
    BY <1>1 DEF CreateStart
  <2>2. CASE ReturnAtOnce(c, q, "KEY_GENERATION_FAILED")
    BY <2>1, <2>2, <1>c
  <2>3. ASSUME NEW a \in AgentId, Goto(c, t(a))
        PROVE  IdNearer(c)
    <3>1. t(a).tries = 0 /\ t(a).pc \in {"name", "save"}
      BY DEF IdleCall
    <3> HIDE DEF t
    <3>2. QED
      BY <2>1, <2>3, <3>1, MovesNearer DEF IdMoves
  <2>4. QED
    BY <1>1, <2>2, <2>3 DEF CreateStart
<1>2. ASSUME NEW q \in IdRequest, RequestStart(c, q)
      PROVE  IdNearer(c)
  <2> DEFINE t == [IdleCall EXCEPT !.pc = "read", !.req = q, !.late = Revoked(q.target)]
  <2>1. t.tries = 0 /\ t.pc = "read"
    BY DEF IdleCall
  <2>2. ident[c].pc = "idle" /\ Goto(c, t)
    BY <1>2 DEF RequestStart
  <2> HIDE DEF t
  <2>3. QED
    BY <2>1, <2>2, MovesNearer DEF IdMoves
<1>3. ASSUME NEW q \in IdRequest, SetVisibility(c, q)
      PROVE  IdNearer(c)
  <2>1. ident[c].pc = "idle" /\ \E code : ReturnAtOnce(c, q, code)
    BY <1>3 DEF SetVisibility
  <2>2. QED
    BY <2>1, <1>c
<1>4. CASE ReadFails(c)
  <2>1. ident[c].pc = "read" /\ \E code : Return(c, code)
    BY <1>4 DEF ReadFails, At
  <2>2. QED
    BY <2>1, <1>b
<1>5. ASSUME NEW row, Goto(c, [ident[c] EXCEPT !.pc = "save", !.seen = row]), ident[c].pc = "read"
      PROVE  IdNearer(c)
  <2> DEFINE t == [ident[c] EXCEPT !.pc = "save", !.seen = row]
  <2>1. t.tries = ident[c].tries /\ t.pc = "save" /\ Goto(c, t)
    BY <1>a, <1>5 DEF IdCallState
  <2> HIDE DEF t
  <2>2. QED
    BY <1>a, <1>5, <2>1, MovesNearer DEF IdMoves
<1>6. CASE RevokeRead(c)
  <2>1. ident[c].pc = "read"
    BY <1>6 DEF RevokeRead, At
  <2>2. \/ \E code : Return(c, code)
        \/ \E row : Goto(c, [ident[c] EXCEPT !.pc = "save", !.seen = row])
    BY <1>6 DEF RevokeRead
  <2>3. QED
    BY <2>1, <2>2, <1>b, <1>5
<1>7. CASE RevokeWrite(c) \/ SaveAgent(c) \/ SaveAgentFails(c)
  <2>1. ident[c].pc = "save" /\ \E code : Return(c, code)
    BY <1>7 DEF RevokeWrite, SaveAgent, SaveAgentFails, At
  <2>2. QED
    BY <2>1, <1>b
<1>8. CASE RotateRead(c)
  <2> DEFINE t(row, a) == [ident[c] EXCEPT !.pc = "name", !.seen = row, !.minted = a]
  <2>1. ident[c].pc = "read"
    BY <1>8 DEF RotateRead, At
  <2>2. (\E code : Return(c, code)) \/ (\E row, a : Goto(c, t(row, a)))
    BY <1>8 DEF RotateRead
  <2>3. ASSUME NEW row, NEW a, Goto(c, t(row, a))
        PROVE  IdNearer(c)
    <3>1. t(row, a).tries = ident[c].tries /\ t(row, a).pc = "name"
      BY <1>a DEF IdCallState
    <3> HIDE DEF t
    <3>2. QED
      BY <1>a, <2>1, <2>3, <3>1, MovesNearer DEF IdMoves
  <2> HIDE DEF t
  <2>4. QED
    BY <2>1, <2>2, <2>3, <1>b
<1>9. ASSUME NEW n \in Name, DrawName(c, n)
      PROVE  IdNearer(c)
  <2> DEFINE t == [ident[c] EXCEPT !.pc = "save", !.name = n]
  <2>1. t.tries = ident[c].tries /\ t.pc = "save"
    BY <1>a DEF IdCallState
  <2>2. ident[c].pc = "name" /\ (Goto(c, NextTry(c)) \/ Goto(c, t))
    BY <1>9 DEF DrawName, At
  <2> HIDE DEF t
  <2>3. QED
    BY <1>a, <1>d, <2>1, <2>2, MovesNearer DEF IdMoves
<1>10. CASE NamesExhausted(c)
  BY <1>10, <1>b DEF NamesExhausted, At
<1>11. CASE NameConflict(c)
  <2>1. ident[c].pc = "save" /\ (Return(c, "DUPLICATE_NAME") \/ Goto(c, NextTry(c)))
    BY <1>11 DEF NameConflict, At
  <2>2. QED
    BY <2>1, <1>b, <1>d
<1>12. QED
  BY <1>1, <1>2, <1>3, <1>4, <1>6, <1>7, <1>8, <1>9, <1>10, <1>11 DEF IdStart, IdContinue

LEMMA AttestingStepComesNearer ==
  ASSUME AttTypeOK, UNCHANGED ident, NEW c \in AttCall, AttStart(c) \/ AttContinue(c)
  PROVE  AttNearer(c)
<1>a. work[c] \in AttCallState
  BY DEF AttTypeOK
<1>b. ASSUME NEW t, Becomes(c, t), AttLeft(t) < AttLeft(work[c])
      PROVE  AttNearer(c)
  BY <1>b DEF Becomes, AttNearer, AttTypeOK
<1>c. ASSUME work[c].pc # "done",
             (\E code : Fail(c, code)) \/ (\E row : Deliver(c, row))
      PROVE  AttNearer(c)
  <2>1. \/ \E code : Becomes(c, [work[c] EXCEPT !.pc = "done", !.result = code])
        \/ \E row : Becomes(c, [work[c] EXCEPT !.pc = "done", !.result = "ok", !.got = row])
    BY <1>c DEF Fail, Deliver
  <2>2. \A code, row : /\ [work[c] EXCEPT !.pc = "done", !.result = code].pc = "done"
                       /\ [work[c] EXCEPT !.pc = "done", !.result = "ok", !.got = row].pc = "done"
    BY <1>a DEF AttCallState
  <2>3. PICK t : Becomes(c, t) /\ t.pc = "done"
    BY <2>1, <2>2, Zenon
  <2>4. AttLeft(t) < AttLeft(work[c])
    BY <1>a, <1>c, <2>3 DEF AttLeft, AttCallState
  <2>5. QED
    BY <2>3, <2>4, <1>b
<1>d. ASSUME NEW pc, Proceed(c, pc),
             \/ work[c].pc = "gate" /\ pc \in {"lookup", "save"}
             \/ work[c].pc = "lookup" /\ pc = "save"
             \/ work[c].pc = "save" /\ pc = "refetch"
      PROVE  AttNearer(c)
  <2>1. PICK t : Becomes(c, t) /\ t.pc = pc
    BY <1>a, <1>d DEF Proceed, AttCallState
  <2>2. AttLeft(t) < AttLeft(work[c])
    BY <1>d, <2>1 DEF AttLeft
  <2>3. QED
    BY <2>1, <2>2, <1>b
<1>1. ASSUME NEW q, NEW e, Becomes(c, Opened(q, e)), work[c].pc = "idle"
      PROVE  AttNearer(c)
  <2>1. Opened(q, e).pc = "gate"
    BY DEF Opened, IdleWork
  <2>2. AttLeft(Opened(q, e)) < AttLeft(work[c])
    BY <1>1, <2>1 DEF AttLeft
  <2>3. QED
    BY <1>1, <2>2, <1>b
<1>2. ASSUME NEW q \in AttRequest, AttestStart(c, q) \/ VerifyStart(c, q)
      PROVE  AttNearer(c)
  BY <1>2, <1>1 DEF AttestStart, VerifyStart
<1>3. ASSUME NEW q \in AttRequest, IngestStart(c, q)
      PROVE  AttNearer(c)
  <2> DEFINE t(code) == [IdleWork EXCEPT !.pc = "done", !.req = q, !.result = code]
  <2>1. work[c].pc = "idle" /\ ((\E code : Becomes(c, t(code))) \/ (\E e : Becomes(c, Opened(q, e))))
    BY <1>3 DEF IngestStart
  <2>2. ASSUME NEW code, Becomes(c, t(code))
        PROVE  AttNearer(c)
    <3>1. t(code).pc = "done"
      BY DEF IdleWork
    <3> HIDE DEF t
    <3>2. AttLeft(t(code)) < AttLeft(work[c])
      BY <2>1, <3>1 DEF AttLeft
    <3>3. QED
      BY <2>2, <3>2, <1>b
  <2> HIDE DEF t
  <2>3. QED
    BY <2>1, <2>2, <1>1
<1>4. CASE Gate(c)
  <2>1. /\ work[c].pc = "gate"
        /\ (\E code : Fail(c, code)) \/ (\E pc \in {"save", "lookup"} : Proceed(c, pc))
    BY <1>4 DEF Gate
  <2>2. QED
    BY <2>1, <1>c, <1>d
<1>5. CASE Lookup(c)
  <2>1. work[c].pc = "lookup" /\ (Proceed(c, "save") \/ \E row : Deliver(c, row))
    BY <1>5 DEF Lookup
  <2>2. QED
    BY <2>1, <1>c, <1>d
<1>6. CASE SaveAttestation(c) \/ SaveAttestationFails(c) \/ Refetch(c)
  <2>1. work[c].pc # "done" /\ ((\E code : Fail(c, code)) \/ (\E row : Deliver(c, row)))
    BY <1>6 DEF SaveAttestation, SaveAttestationFails, Refetch
  <2>2. QED
    BY <2>1, <1>c
<1>7. CASE SaveConflicts(c)
  BY <1>7, <1>d DEF SaveConflicts
<1>8. CASE VerifyGate(c)
  <2>1. work[c].pc = "gate"
    BY <1>8 DEF VerifyGate
  <2>2. CASE \E code : Fail(c, code)
    BY <2>1, <2>2, <1>c
  <2>3. CASE Becomes(c, [work[c] EXCEPT !.pc = "done", !.result = "ok"])
    <3> DEFINE t == [work[c] EXCEPT !.pc = "done", !.result = "ok"]
    <3>1. t.pc = "done"
      BY <1>a DEF AttCallState
    <3> HIDE DEF t
    <3>2. AttLeft(t) < AttLeft(work[c])
      BY <2>1, <3>1 DEF AttLeft
    <3>3. Becomes(c, t)
      BY <2>3 DEF t
    <3>4. QED
      BY <3>2, <3>3, <1>b
  <2>4. QED
    BY <1>8, <2>2, <2>3 DEF VerifyGate
<1>9. QED
  BY <1>2, <1>3, <1>4, <1>5, <1>6, <1>7, <1>8 DEF AttStart, AttContinue

(* Every step brings one call nearer its return and delays no other: the    *)
(* name loop makes at most MaxTries attempts however many of its names      *)
(* other calls take first, a lost insert race is looked up once and never   *)
(* retried, and a call takes at most 2 * MaxTries + 4 steps (createAgent,   *)
(* rotateAgent and signAndPersistAttestation).                              *)
THEOREM CallsAreBounded ==
  Spec => /\ []LeftBounded
          /\ [][(\E c \in IdCall : IdNearer(c)) \/ (\E c \in AttCall : AttNearer(c))]_vars
<1>1. ShapeInv /\ [Next]_vars => [(\E c \in IdCall : IdNearer(c)) \/ (\E c \in AttCall : AttNearer(c))]_vars
  <2> SUFFICES ASSUME ShapeInv, Next
               PROVE  (\E c \in IdCall : IdNearer(c)) \/ (\E c \in AttCall : AttNearer(c))
    OBVIOUS
  <2>1. IdTypeOK /\ AttTypeOK
    BY DEF ShapeInv, IdentityInv, AttestingInv
  <2>2. CASE IdentityStep
    BY <2>1, <2>2, IdentityStepComesNearer DEF IdentityStep
  <2>3. CASE AttestingStep
    BY <2>1, <2>3, AttestingStepComesNearer DEF AttestingStep
  <2>4. QED
    BY <2>2, <2>3 DEF Next
<1>2. QED
  BY ShapeInvariant, LeftIsBounded, <1>1, PTL DEF Spec

============================================================================
