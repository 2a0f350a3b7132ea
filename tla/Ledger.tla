------------------------------- MODULE Ledger -------------------------------
(***************************************************************************)
(* The SDK over one store: identity calls and attestation calls running    *)
(* concurrently, in one process or in several (the CLI and the web app     *)
(* share a database).                                                      *)
(***************************************************************************)
EXTENDS Identity, Attesting

ASSUME CallAssumption == IdCall \cap AttCall = {}

vars == <<agents, rotations, attestations, ident, work>>

Init == StoreInit /\ IdInit /\ AttInit

IdentityStep == UNCHANGED work /\ \E c \in IdCall : IdStart(c) \/ IdContinue(c)

AttestingStep == UNCHANGED ident /\ \E c \in AttCall : AttStart(c) \/ AttContinue(c)

Next == IdentityStep \/ AttestingStep

Spec == Init /\ [][Next]_vars

(* The event loop resumes every call whose storage call has settled, and    *)
(* the drivers settle every call: a begun call keeps taking steps.          *)
Fairness ==
  /\ \A c \in IdCall : WF_vars(UNCHANGED work /\ IdContinue(c))
  /\ \A c \in AttCall : WF_vars(UNCHANGED ident /\ AttContinue(c))

FairSpec == Spec /\ Fairness

----------------------------------------------------------------------------
TypeOK == StoreTypeOK /\ IdTypeOK /\ AttTypeOK

OkCalls(ops) == {c \in IdCall : ident[c].result = "ok" /\ ident[c].req.op \in ops}

Written == {c \in AttCall : work[c].result = "ok" /\ work[c].req.op \in {"attest", "ingest"}}

(* A create or rotate that reported success owns its name: the name         *)
(* resolves to the agent it returned and to nothing else, however many      *)
(* calls drew the same name (createAgent and rotateAgent, the name loop).   *)
NameResolves ==
  \A c \in OkCalls({"create", "rotate"}) :
    {r.publicKey : r \in {s \in agents : s.name = ident[c].name}} = {ident[c].minted}

(* A revocation that reported success is in the store, including the one    *)
(* that wrote nothing because it found the agent revoked (revokeAgent).     *)
RevokeOkIsDurable ==
  \A c \in OkCalls({"revoke"}) : Revoked(ident[c].req.target)

(* The kill switch survives rotation: both ends of a link answer to the     *)
(* owner key that signed it (rotateAgent keeps ownerPublicKey).             *)
KillSwitchInherited ==
  \A l \in rotations, r, s \in agents :
    r.publicKey = l.old /\ s.publicKey = l.new => r.owner = l.signedBy /\ s.owner = l.signedBy

(* Lineage is a forest: rotations of one agent may fork its line, but no    *)
(* agent succeeds two and no line runs into itself (rotateAgent).           *)
LineageIsForest ==
  /\ \A l, m \in rotations : l.new = m.new => l = m
  /\ \A S \in SUBSET rotations : S # {} => ~ ({l.old : l \in S} \subseteq {l.new : l \in S})

(* A call made after an agent's revocation gets nothing: no attestation,    *)
(* not even one an idempotency key would find, no valid verdict, no         *)
(* successor and no second revocation write (the gates of attest, ingest,   *)
(* verify, rotateAgent and revokeAgent).                                    *)
LateCallsRefused ==
  /\ \A c \in AttCall : work[c].late => work[c].result # "ok" /\ \A r \in attestations : r.id # c
  /\ \A c \in IdCall : ident[c].late => \A r \in agents : ident[c].minted # r.publicKey /\ c # r.revokedAt

(* Retries collapse: all calls that succeed under one idempotency key of an *)
(* agent hold the same, stored attestation (signAndPersistAttestation).     *)
RetriesCollapse ==
  \A c, d \in Written :
    /\ work[c].got \in attestations
    /\ /\ work[c].req.key # NULL
       /\ work[c].req.key = work[d].req.key
       /\ work[c].req.agent = work[d].req.agent
       => work[c].got = work[d].got

(* Every row is signed by the agent it is about, and external evidence      *)
(* never passes for native work (ingest and the key correspondence check).  *)
EntriesAccountable ==
  \A r \in attestations :
    /\ r.signedBy = r.agent
    /\ r.source = "native" <=> r.evidence = NULL

(* No step forgets a row or rewrites what was signed: an agent keeps its    *)
(* name and owner, and a revoked one stays revoked (the store has no        *)
(* delete, and setVisibility, revokeAgent and rotateAgent race on rows).    *)
HistoryKept ==
  [][/\ rotations \subseteq rotations'
     /\ attestations \subseteq attestations'
     /\ \A r \in agents : \E s \in agents' :
          /\ s.publicKey = r.publicKey /\ s.name = r.name /\ s.owner = r.owner
          /\ r.revokedAt # NULL => s.revokedAt # NULL]_vars

(* Every call returns: the retry loops are bounded and nothing waits.       *)
EveryCallReturns ==
  /\ \A c \in IdCall : ident[c].pc # "idle" ~> ident[c].pc = "done"
  /\ \A c \in AttCall : work[c].pc # "idle" ~> work[c].pc = "done"

----------------------------------------------------------------------------
(* The strengthening the proofs of module LedgerProofs use. *)

(* What a call in state s holds at each await, over the agents rows.        *)
Held(s, rows) ==
  /\ s.pc # "idle" => s.req \in IdRequest
  /\ s.pc = "read" => s.req.op \in {"rotate", "revoke"}
  /\ s.pc = "name" => s.req.op \in {"create", "rotate"}
  /\ s.pc \in {"name", "save"} /\ s.req.op \in {"create", "rotate"} => s.minted \in AgentId
  /\ s.pc = "save" /\ s.req.op \in {"create", "rotate"} => s.name \in Name /\ s.tries < MaxTries
  /\ s.pc \in {"name", "save"} /\ s.req.op = "rotate" =>
       /\ s.seen \in AgentRow /\ s.seen.owner \in AgentId
       /\ \E r \in rows : r.publicKey = s.req.target /\ r.owner = s.seen.owner

IdentityHeld == \A c \in IdCall : Held(ident[c], agents)

AttHeld(s) ==
  /\ s.pc # "idle" => s.req \in AttRequest
  /\ s.pc # "done" => s.result = "none"
  /\ s.pc \in {"lookup", "save", "refetch"} => s.req.op \in {"attest", "ingest"} /\ s.req.signer = s.req.agent

AttestingHeld == \A c \in AttCall : AttHeld(work[c])

(* The unique columns. *)
UniqueRows ==
  \A r, s \in agents : r.publicKey = s.publicKey \/ r.name = s.name => r = s

(* The composite unique index, and what a successful call was handed.      *)
UniqueKeys ==
  \A r, s \in attestations : r.agent = s.agent /\ r.key = s.key /\ r.key # NULL => r = s

DeliveredIsStored ==
  \A c \in Written :
    work[c].got \in attestations /\ work[c].got.agent = work[c].req.agent /\ work[c].got.key = work[c].req.key

(* A late call met a revoked agent at its gate and went no further; what is *)
(* written was written by calls that were not late.                         *)
IdentityLate(c) ==
  ident[c].late =>
    /\ Revoked(ident[c].req.target)
    /\ ident[c].pc \in {"read", "done"} /\ ident[c].minted = NULL

AttestingLate(c) ==
  work[c].late =>
    /\ Revoked(work[c].req.agent)
    /\ work[c].pc \in {"gate", "done"} /\ work[c].result # "ok"

WrittenInTime ==
  /\ \A r \in attestations : work[r.id].pc = "done" /\ ~ work[r.id].late
  /\ \A r \in agents : r.revokedAt # NULL =>
       ident[r.revokedAt].pc = "done" /\ ~ ident[r.revokedAt].late

LateStopped ==
  /\ \A c \in IdCall : IdentityLate(c)
  /\ \A c \in AttCall : AttestingLate(c)
  /\ WrittenInTime

----------------------------------------------------------------------------
(* A claim the interleavings refute. *)

(* rotation.ts:122-123: "rotation must never bring a revoked agent back to  *)
(* life under a new id".                                                    *)
NoRevival ==
  [][\A l \in rotations' \ rotations : ~ Revoked(l.old)]_vars

----------------------------------------------------------------------------
(* The promise the calls implement.  A call is admitted from its gate until *)
(* it returns.                                                              *)

Admitted ==
  {<<c, ident[c].req.target>> :
     c \in {d \in IdCall : ident[d].pc \in {"name", "save"} /\ ident[d].req.op = "rotate"}}
  \cup
  {<<c, work[c].req.agent>> : c \in {d \in AttCall : work[d].pc \in {"lookup", "save", "refetch"}}}

Promise ==
  INSTANCE LedgerPromise WITH
    Agent    <- AgentId,
    Call     <- IdCall \cup AttCall,
    Entry    <- AttestationRow,
    NoKey    <- NULL,
    known    <- Saved,
    revoked  <- {a \in AgentId : Revoked(a)},
    entries  <- attestations,
    lineage  <- {<<l.old, l.new>> : l \in rotations},
    admitted <- Admitted

(* Every behaviour of the calls is one the promise allows.                  *)
PromiseKept == Promise!Spec

============================================================================
