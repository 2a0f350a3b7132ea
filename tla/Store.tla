------------------------------- MODULE Store -------------------------------
(***************************************************************************)
(* The ledger tables behind the StorageAdapter interface and the adapter   *)
(* methods the SDK calls on them.  A table is a set of rows; a method is   *)
(* one SQL statement (or, for rotateAgent, one transaction), so it is      *)
(* atomic here.                                                            *)
(*                                                                         *)
(* Keys are names: the identity key pair a is the agent id a, and the      *)
(* owner key pair generated together with it is also called a.  A          *)
(* rotation keeps the owner key, so a successor's owner is the root of     *)
(* its line.                                                               *)
(***************************************************************************)
EXTENDS Naturals, FiniteSets

CONSTANTS
  AgentId,   (* identity public keys, the agent ids                         *)
  Name,      (* human readable agent names                                  *)
  IdemKey,   (* idempotency keys                                            *)
  Content,   (* what an attestation says: task, output and tools            *)
  Source,    (* external source names                                       *)
  IdCall,    (* calls of createAgent, rotateAgent, revokeAgent and setVisibility *)
  AttCall,   (* calls of attest, ingest and the verify functions            *)
  NULL,      (* an absent column                                            *)
  Seed       (* the agents rows a behaviour starts with                     *)

VARIABLES
  agents,       (* table agents                                             *)
  rotations,    (* table key_rotations                                      *)
  attestations  (* table attestations                                       *)

tables == <<agents, rotations, attestations>>

Visibility == {"public", "private"}

(* revoked_at holds a time stamp; a stamp is named by the call that wrote it. *)
AgentRow == [publicKey  : AgentId,
             name       : Name,
             owner      : AgentId \cup {NULL},
             revokedAt  : IdCall \cup {NULL},
             visibility : Visibility]

RotationRow == [old : AgentId, new : AgentId, signedBy : AgentId]

(* id is a fresh uuid per call, so the call names it.  evidence is the      *)
(* external_verification column: NULL for native rows.                      *)
AttestationRow == [id       : AttCall,
                   agent    : AgentId,
                   signedBy : AgentId,
                   key      : IdemKey \cup {NULL},
                   content  : Content,
                   source   : Source \cup {"native"},
                   evidence : {"checked", "unchecked", NULL}]

ASSUME NullAssumption ==
  NULL \notin AgentId \cup Name \cup IdemKey \cup Content \cup IdCall \cup AttCall

ASSUME EvidenceAssumption == NULL \notin {"checked", "unchecked"}

ASSUME SourceAssumption == "native" \notin Source

ASSUME SeedAssumption ==
  /\ Seed \subseteq AgentRow
  /\ \A r \in Seed : r.revokedAt = NULL
  /\ \A r, s \in Seed : r.name = s.name \/ r.publicKey = s.publicKey => r = s

----------------------------------------------------------------------------
(* Reads *)

AgentRows(a) == {r \in agents : r.publicKey = a}

Saved == {r.publicKey : r \in agents}

NamesTaken == {r.name : r \in agents}

Revoked(a) == \E r \in AgentRows(a) : r.revokedAt # NULL

Keyed(a, k) == {r \in attestations : r.agent = a /\ r.key = k}

----------------------------------------------------------------------------
(* Writes.  Each is a whole statement; the constraints are the schema's.    *)
(* A definition named Faulty... is a plausible mistake in the one below it; *)
(* no specification uses it, mutation runs put it in that one's place.      *)

FaultyInsertAgent(row) ==  \* agents.name without its unique constraint
  /\ row.publicKey \notin Saved
  /\ agents' = agents \cup {row}

InsertAgent(row) ==
  /\ row.name \notin NamesTaken
  /\ row.publicKey \notin Saved
  /\ agents' = agents \cup {row}

(* Both ends reference agents, after the insert of the same transaction.    *)
InsertRotation(row) ==
  /\ {row.old, row.new} \subseteq Saved'
  /\ rotations' = rotations \cup {row}

SetRevokedAt(a, stamp) ==
  agents' = {IF r.publicKey = a THEN [r EXCEPT !.revokedAt = stamp] ELSE r : r \in agents}

FaultySetVisibilityOf(a, v) ==  \* the whole record rewritten, as at creation
  agents' = {IF r.publicKey = a THEN [r EXCEPT !.visibility = v, !.revokedAt = NULL] ELSE r : r \in agents}

SetVisibilityOf(a, v) ==
  agents' = {IF r.publicKey = a THEN [r EXCEPT !.visibility = v] ELSE r : r \in agents}

FaultyKeyConflict(row) == FALSE  \* no composite unique index

(* unique (agent_id, idempotency_key): NULL keys never conflict. *)
KeyConflict(row) == row.key # NULL /\ Keyed(row.agent, row.key) # {}

InsertAttestation(row) ==
  /\ row.agent \in Saved
  /\ ~ KeyConflict(row)
  /\ attestations' = attestations \cup {row}

----------------------------------------------------------------------------
StoreTypeOK ==
  /\ agents \subseteq AgentRow
  /\ rotations \subseteq RotationRow
  /\ attestations \subseteq AttestationRow

StoreInit ==
  /\ agents = Seed
  /\ rotations = {}
  /\ attestations = {}

============================================================================
