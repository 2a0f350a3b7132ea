------------------------------ MODULE Attesting ------------------------------
(***************************************************************************)
(* The calls that write and check the ledger's evidence: attest and        *)
(* ingest, which share signAndPersistAttestation, and verifyAttestation    *)
(* and verifyManifest, which share the revocation gate.                    *)
(*                                                                         *)
(*   idle -> gate -> lookup -> save -> refetch -> done                     *)
(* "gate" is the getAgent read of the revocation state, "lookup" the       *)
(* optimistic idempotency read, "save" the insert and "refetch" the read   *)
(* after a lost insert race.                                               *)
(***************************************************************************)
EXTENDS Store

CONSTANT AttRequest (* the arguments calls are made with *)

VARIABLE work       (* the state of every call           *)

AttOp == {"attest", "ingest", "verify"}

(* key is the idempotency key, signer the agent whose private key is passed *)
(* and source the adapter's name (NULL for attest).                         *)
AttRequestType == [op      : AttOp,
                   agent   : AgentId,
                   signer  : AgentId,
                   key     : IdemKey \cup {NULL},
                   content : Content,
                   source  : Source \cup {"native"}]

ASSUME AttRequestAssumption ==
  /\ AttRequest \subseteq AttRequestType
  /\ \A q \in AttRequest : q.op = "attest" => q.source = "native"

AttFailure == {"AGENT_NOT_FOUND", "AGENT_REVOKED", "DUPLICATE_IDEMPOTENCY_KEY",
               "EXTERNAL_ATTESTATION_INVALID", "INVALID_SOURCE", "KEY_MISMATCH",
               "MALFORMED_EXTERNAL_ATTESTATION", "STORAGE_WRITE_FAILED", "invalid"}

(* got is the attestation handed back.  late records that the agent was     *)
(* revoked before the call began.                                           *)
AttCallState == [pc       : {"idle", "gate", "lookup", "save", "refetch", "done"},
                 req      : AttRequest \cup {NULL},
                 evidence : {"checked", "unchecked", NULL},
                 result   : AttFailure \cup {"none", "ok"},
                 got      : AttestationRow \cup {NULL},
                 late     : BOOLEAN]

IdleWork == [pc |-> "idle", req |-> NULL, evidence |-> NULL, result |-> "none",
             got |-> NULL, late |-> FALSE]

----------------------------------------------------------------------------
Becomes(c, changed) == work' = [work EXCEPT ![c] = changed]

Fail(c, code) == Becomes(c, [work[c] EXCEPT !.pc = "done", !.result = code])

Deliver(c, row) == Becomes(c, [work[c] EXCEPT !.pc = "done", !.result = "ok", !.got = row])

Proceed(c, pc) == Becomes(c, [work[c] EXCEPT !.pc = pc])

Opened(q, evidence) ==
  [IdleWork EXCEPT !.pc = "gate", !.req = q, !.evidence = evidence, !.late = Revoked(q.agent)]

AttestStart(c, q) ==
  /\ work[c].pc = "idle" /\ q.op = "attest"
  /\ Becomes(c, Opened(q, NULL))
  /\ UNCHANGED tables

(***************************************************************************)
(* ingest before the shared core.  The native source is refused; a record  *)
(* of another platform or one that does not normalize is malformed; an     *)
(* adapter's validate can block the record but never authorizes it, and    *)
(* without one the record is marked unchecked.                             *)
(***************************************************************************)
IngestRefusals(q) ==
  IF q.source = "native" THEN {"INVALID_SOURCE"}
  ELSE {"MALFORMED_EXTERNAL_ATTESTATION", "EXTERNAL_ATTESTATION_INVALID"}

IngestStart(c, q) ==
  /\ work[c].pc = "idle" /\ q.op = "ingest"
  /\ \/ \E code \in IngestRefusals(q) :
          Becomes(c, [IdleWork EXCEPT !.pc = "done", !.req = q, !.result = code])
     \/ /\ q.source # "native"
        /\ \E evidence \in {"checked", "unchecked"} : Becomes(c, Opened(q, evidence))
  /\ UNCHANGED tables

FaultyGateRefusal(q, rows) ==  \* the revocation gate left out
  IF rows = {} THEN "AGENT_NOT_FOUND"
  ELSE IF q.signer # q.agent THEN "KEY_MISMATCH"
  ELSE "none"

FaultyKeyGate(q, rows) ==  \* the key correspondence check left out
  IF rows = {} THEN "AGENT_NOT_FOUND"
  ELSE IF \E r \in rows : r.revokedAt # NULL THEN "AGENT_REVOKED"
  ELSE "none"

(***************************************************************************)
(* The gates of signAndPersistAttestation on the record getAgent returns,  *)
(* in the code's order: known, live, signed with the agent's own key.      *)
(***************************************************************************)
GateRefusal(q, rows) ==
  IF rows = {} THEN "AGENT_NOT_FOUND"
  ELSE IF \E r \in rows : r.revokedAt # NULL THEN "AGENT_REVOKED"
  ELSE IF q.signer # q.agent THEN "KEY_MISMATCH"
  ELSE "none"

Gate(c) ==
  /\ work[c].pc = "gate" /\ work[c].req.op \in {"attest", "ingest"}
  /\ LET refusal == GateRefusal(work[c].req, AgentRows(work[c].req.agent)) IN
       \/ Fail(c, "STORAGE_WRITE_FAILED")
       \/ refusal # "none" /\ Fail(c, refusal)
       \/ refusal = "none" /\ Proceed(c, IF work[c].req.key = NULL THEN "save" ELSE "lookup")
  /\ UNCHANGED tables

(* The optimistic read.  A failing read counts as a miss. *)
Lookup(c) ==
  /\ work[c].pc = "lookup"
  /\ \/ Proceed(c, "save")
     \/ \E row \in Keyed(work[c].req.agent, work[c].req.key) : Deliver(c, row)
  /\ UNCHANGED tables

NewAttestation(c) ==
  LET q == work[c].req IN
  [id       |-> c,
   agent    |-> q.agent,
   signedBy |-> q.signer,
   key      |-> q.key,
   content  |-> q.content,
   source   |-> q.source,
   evidence |-> work[c].evidence]

SaveAttestation(c) ==
  /\ work[c].pc = "save"
  /\ InsertAttestation(NewAttestation(c))
  /\ Deliver(c, NewAttestation(c)) \/ Fail(c, "STORAGE_WRITE_FAILED")
  /\ UNCHANGED <<agents, rotations>>

SaveAttestationFails(c) ==
  /\ work[c].pc = "save"
  /\ Fail(c, "STORAGE_WRITE_FAILED")
  /\ UNCHANGED tables

(* The unique index refused the insert: another call owns the key. *)
SaveConflicts(c) ==
  /\ work[c].pc = "save"
  /\ KeyConflict(NewAttestation(c))
  /\ Proceed(c, "refetch")
  /\ UNCHANGED tables

Refetch(c) ==
  /\ work[c].pc = "refetch"
  /\ \/ \E row \in Keyed(work[c].req.agent, work[c].req.key) : Deliver(c, row)
     \/ Fail(c, "DUPLICATE_IDEMPOTENCY_KEY")
  /\ UNCHANGED tables

----------------------------------------------------------------------------
(***************************************************************************)
(* verifyAttestation and verifyManifest: the gate on the stored row, then  *)
(* hash and signature, which the object's own bytes decide (intact).       *)
(***************************************************************************)
VerifyStart(c, q) ==
  /\ work[c].pc = "idle" /\ q.op = "verify"
  /\ Becomes(c, Opened(q, NULL))
  /\ UNCHANGED tables

VerifyGate(c) ==
  /\ work[c].pc = "gate" /\ work[c].req.op = "verify"
  /\ LET rows   == AgentRows(work[c].req.agent)
         intact == work[c].req.signer = work[c].req.agent IN
       \/ Fail(c, "invalid")
       \/ /\ rows # {} /\ intact
          /\ \A r \in rows : r.revokedAt = NULL
          /\ Becomes(c, [work[c] EXCEPT !.pc = "done", !.result = "ok"])
  /\ UNCHANGED tables

----------------------------------------------------------------------------
AttStart(c) ==
  \E q \in AttRequest : AttestStart(c, q) \/ IngestStart(c, q) \/ VerifyStart(c, q)

AttContinue(c) ==
  \/ Gate(c)
  \/ Lookup(c)
  \/ SaveAttestation(c)
  \/ SaveAttestationFails(c)
  \/ SaveConflicts(c)
  \/ Refetch(c)
  \/ VerifyGate(c)

AttInit == work = [c \in AttCall |-> IdleWork]

AttTypeOK == work \in [AttCall -> AttCallState]

============================================================================
