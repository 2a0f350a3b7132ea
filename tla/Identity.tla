------------------------------ MODULE Identity ------------------------------
(***************************************************************************)
(* The calls that change who the agents are: createAgent, rotateAgent,     *)
(* revokeAgent and setVisibility of packages/sdk/src.  Every call runs     *)
(* concurrently with the others and yields at each await, so a step below  *)
(* runs from one storage call to the next.                                 *)
(*                                                                         *)
(* A call moves through pc:                                                *)
(*   idle -> read -> name -> save -> done                                  *)
(* "read" is the getAgent that authorizes, "name" the bounded name loop,   *)
(* "save" the one write.  A storage call may fail; a failing write may     *)
(* still have been applied (the response of a remote database is lost).    *)
(***************************************************************************)
EXTENDS Store

CONSTANTS
  IdRequest, (* the arguments calls are made with                           *)
  MaxTries   (* NAME_GENERATION_MAX_ATTEMPTS                                *)

VARIABLE ident  (* the state of every call                                  *)

IdOp == {"create", "rotate", "revoke", "visibility"}

(* target and signer: the agent acted on and the owner key the request was  *)
(* signed with.  name = NULL asks createAgent to generate one.              *)
IdRequestType == [op     : IdOp,
                  target : AgentId,
                  signer : AgentId,
                  name   : Name \cup {NULL},
                  vis    : Visibility]

ASSUME IdRequestAssumption == IdRequest \subseteq IdRequestType
ASSUME MaxTriesAssumption == MaxTries \in Nat \ {0}

Failure == {"AGENT_NOT_FOUND", "AGENT_REVOKED", "DUPLICATE_NAME", "KEY_GENERATION_FAILED",
            "NAME_GENERATION_EXHAUSTED", "OWNER_KEY_MISSING", "STALE_REQUEST",
            "STORAGE_WRITE_FAILED", "UNAUTHORIZED"}

(* seen is the row getAgent returned; minted and name what the save writes. *)
(* late records that the target was revoked before the call began.          *)
IdCallState == [pc     : {"idle", "read", "name", "save", "done"},
                req    : IdRequest \cup {NULL},
                seen   : AgentRow \cup {NULL},
                minted : AgentId \cup {NULL},
                name   : Name \cup {NULL},
                tries  : 0..MaxTries,
                result : Failure \cup {"none", "ok"},
                late   : BOOLEAN]

IdleCall == [pc |-> "idle", req |-> NULL, seen |-> NULL, minted |-> NULL, name |-> NULL,
             tries |-> 0, result |-> "none", late |-> FALSE]

----------------------------------------------------------------------------
Goto(c, changed) == ident' = [ident EXCEPT ![c] = changed]

Return(c, code) == Goto(c, [ident[c] EXCEPT !.pc = "done", !.result = code])

ReturnAtOnce(c, q, code) == Goto(c, [IdleCall EXCEPT !.pc = "done", !.req = q, !.result = code])

At(c, pc, ops) == ident[c].pc = pc /\ ident[c].req.op \in ops

(* keygenAsync: a key pair nobody holds. *)
Unused(a) == a \notin Saved /\ \A d \in IdCall : ident[d].minted # a

(***************************************************************************)
(* createAgent: validate, generate the key pairs, then either save once    *)
(* under the caller's name or enter the name loop.                         *)
(***************************************************************************)
CreateStart(c, q) ==
  /\ ident[c].pc = "idle" /\ q.op = "create"
  /\ \/ ReturnAtOnce(c, q, "KEY_GENERATION_FAILED")
     \/ \E a \in AgentId :
          /\ Unused(a)
          /\ Goto(c, [IdleCall EXCEPT !.pc = IF q.name = NULL THEN "name" ELSE "save",
                                      !.req = q, !.minted = a, !.name = q.name])
  /\ UNCHANGED tables

(* rotateAgent and revokeAgent, up to their getAgent. *)
RequestStart(c, q) ==
  /\ ident[c].pc = "idle" /\ q.op \in {"rotate", "revoke"}
  /\ Goto(c, [IdleCall EXCEPT !.pc = "read", !.req = q, !.late = Revoked(q.target)])
  /\ UNCHANGED tables

(***************************************************************************)
(* The authorization rotateAgent and revokeAgent share, on the row read:   *)
(* the owner key must exist and must have signed the request, and the      *)
(* request must be inside the replay window.                               *)
(***************************************************************************)
Refusals(q, row) ==
  IF row.owner = NULL THEN {"OWNER_KEY_MISSING"}
  ELSE IF row.owner # q.signer THEN {"UNAUTHORIZED"}
  ELSE {"STALE_REQUEST"}

Authorized(q, row) == row.owner = q.signer

ReadFails(c) ==
  /\ At(c, "read", {"rotate", "revoke"})
  /\ \/ Return(c, "STORAGE_WRITE_FAILED")
     \/ /\ AgentRows(ident[c].req.target) = {}
        /\ Return(c, "AGENT_NOT_FOUND")
     \/ \E row \in AgentRows(ident[c].req.target), code \in Failure :
          /\ code \in Refusals(ident[c].req, row)
          /\ Return(c, code)
  /\ UNCHANGED tables

(* An agent already revoked: success without a write. *)
RevokeRead(c) ==
  /\ At(c, "read", {"revoke"})
  /\ \E row \in AgentRows(ident[c].req.target) :
       /\ Authorized(ident[c].req, row)
       /\ IF row.revokedAt # NULL
            THEN Return(c, "ok")
            ELSE Goto(c, [ident[c] EXCEPT !.pc = "save", !.seen = row])
  /\ UNCHANGED tables

FaultyRevokeWrite(c) ==  \* a failing write reported as success
  /\ At(c, "save", {"revoke"})
  /\ \/ SetRevokedAt(ident[c].req.target, c) /\ Return(c, "ok")
     \/ UNCHANGED agents /\ Return(c, "ok")
  /\ UNCHANGED <<rotations, attestations>>

RevokeWrite(c) ==
  /\ At(c, "save", {"revoke"})
  /\ \/ /\ SetRevokedAt(ident[c].req.target, c)
        /\ \E code \in {"ok", "STORAGE_WRITE_FAILED"} : Return(c, code)
     \/ UNCHANGED agents /\ Return(c, "STORAGE_WRITE_FAILED")
  /\ UNCHANGED <<rotations, attestations>>

(* The resurrection gate, then a fresh identity key. *)
RotateRead(c) ==
  /\ At(c, "read", {"rotate"})
  /\ \E row \in AgentRows(ident[c].req.target) :
       /\ Authorized(ident[c].req, row)
       /\ IF row.revokedAt # NULL
            THEN Return(c, "AGENT_REVOKED")
            ELSE \/ Return(c, "KEY_GENERATION_FAILED")
                 \/ \E a \in AgentId :
                      /\ Unused(a)
                      /\ Goto(c, [ident[c] EXCEPT !.pc = "name", !.seen = row, !.minted = a])
  /\ UNCHANGED tables

----------------------------------------------------------------------------
(***************************************************************************)
(* The name loop of createAgent and rotateAgent.  An attempt draws a name  *)
(* and skips it if the optimistic read finds it taken; a failing read      *)
(* counts as free.                                                         *)
(***************************************************************************)
FaultyNextTry(c) == [ident[c] EXCEPT !.pc = "name", !.name = NULL]  \* attempts not counted

NextTry(c) == [ident[c] EXCEPT !.pc = "name", !.name = NULL, !.tries = @ + 1]

FaultyDrawName(c, n) ==  \* one attempt too many
  /\ At(c, "name", {"create", "rotate"}) /\ ident[c].tries <= MaxTries
  /\ \/ n \in NamesTaken /\ Goto(c, NextTry(c))
     \/ Goto(c, [ident[c] EXCEPT !.pc = "save", !.name = n])
  /\ UNCHANGED tables

DrawName(c, n) ==
  /\ At(c, "name", {"create", "rotate"}) /\ ident[c].tries < MaxTries
  /\ \/ n \in NamesTaken /\ Goto(c, NextTry(c))
     \/ Goto(c, [ident[c] EXCEPT !.pc = "save", !.name = n])
  /\ UNCHANGED tables

NamesExhausted(c) ==
  /\ At(c, "name", {"create", "rotate"}) /\ ident[c].tries = MaxTries
  /\ Return(c, "NAME_GENERATION_EXHAUSTED")
  /\ UNCHANGED tables

FaultyNewRow(c) ==  \* a rotation that replaces the owner key too
  LET q == ident[c].req IN
  [publicKey  |-> ident[c].minted,
   name       |-> ident[c].name,
   owner      |-> ident[c].minted,
   revokedAt  |-> NULL,
   visibility |-> IF q.op = "create" THEN q.vis ELSE ident[c].seen.visibility]

(* A created agent's owner key is generated with it; a successor inherits   *)
(* the owner key and the visibility of the row read.                        *)
NewRow(c) ==
  LET q == ident[c].req IN
  [publicKey  |-> ident[c].minted,
   name       |-> ident[c].name,
   owner      |-> IF q.op = "create" THEN ident[c].minted ELSE ident[c].seen.owner,
   revokedAt  |-> NULL,
   visibility |-> IF q.op = "create" THEN q.vis ELSE ident[c].seen.visibility]

FaultyLineage(c) ==  \* the ends swapped
  [old |-> ident[c].minted, new |-> ident[c].req.target, signedBy |-> ident[c].seen.owner]

Lineage(c) == [old |-> ident[c].req.target, new |-> ident[c].minted, signedBy |-> ident[c].seen.owner]

FaultyPersist(c) == InsertAgent(NewRow(c)) /\ UNCHANGED rotations  \* the link lost

(* saveAgent, or storage.rotateAgent: both rows in one transaction. *)
Persist(c) ==
  /\ InsertAgent(NewRow(c))
  /\ IF ident[c].req.op = "rotate" THEN InsertRotation(Lineage(c)) ELSE UNCHANGED rotations

SaveAgent(c) ==
  /\ At(c, "save", {"create", "rotate"})
  /\ Persist(c) /\ \E code \in {"ok", "STORAGE_WRITE_FAILED"} : Return(c, code)
  /\ UNCHANGED attestations

SaveAgentFails(c) ==
  /\ At(c, "save", {"create", "rotate"})
  /\ Return(c, "STORAGE_WRITE_FAILED")
  /\ UNCHANGED tables

(* DUPLICATE_NAME is final for a caller's name, another attempt otherwise. *)
NameConflict(c) ==
  /\ At(c, "save", {"create", "rotate"})
  /\ ident[c].name \in NamesTaken
  /\ IF ident[c].req.op = "create" /\ ident[c].req.name # NULL
       THEN Return(c, "DUPLICATE_NAME")
       ELSE Goto(c, NextTry(c))
  /\ UNCHANGED tables

(* setVisibility: one UPDATE. *)
SetVisibility(c, q) ==
  /\ ident[c].pc = "idle" /\ q.op = "visibility"
  /\ \/ /\ q.target \in Saved
        /\ SetVisibilityOf(q.target, q.vis)
        /\ \E code \in {"ok", "STORAGE_WRITE_FAILED"} : ReturnAtOnce(c, q, code)
     \/ UNCHANGED agents /\ ReturnAtOnce(c, q, "STORAGE_WRITE_FAILED")
     \/ q.target \notin Saved /\ UNCHANGED agents /\ ReturnAtOnce(c, q, "AGENT_NOT_FOUND")
  /\ UNCHANGED <<rotations, attestations>>

----------------------------------------------------------------------------
IdStart(c) ==
  \E q \in IdRequest : CreateStart(c, q) \/ RequestStart(c, q) \/ SetVisibility(c, q)

IdContinue(c) ==
  \/ ReadFails(c)
  \/ RevokeRead(c)
  \/ RevokeWrite(c)
  \/ RotateRead(c)
  \/ \E n \in Name : DrawName(c, n)
  \/ NamesExhausted(c)
  \/ SaveAgent(c)
  \/ SaveAgentFails(c)
  \/ NameConflict(c)

IdInit == ident = [c \in IdCall |-> IdleCall]

IdTypeOK == ident \in [IdCall -> IdCallState]

============================================================================
