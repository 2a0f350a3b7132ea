------------------------------ MODULE MCLedger ------------------------------
(***************************************************************************)
(* Small instances of Ledger.  Agent a1 exists, owned by its own owner     *)
(* key; a2 is a legacy row without one; the other ids are what keygen can  *)
(* draw.                                                                   *)
(***************************************************************************)
EXTENDS Ledger, TLC

CONSTANTS a1, a2, n1, n2, k1, x1

MCSeed ==
  {[publicKey |-> a1, name |-> n1, owner |-> a1, revokedAt |-> NULL, visibility |-> "public"]}

MCLegacySeed ==
  MCSeed \cup
  {[publicKey |-> a2, name |-> n2, owner |-> NULL, revokedAt |-> NULL, visibility |-> "public"]}

Req(op, target, signer, name, vis) ==
  [op |-> op, target |-> target, signer |-> signer, name |-> name, vis |-> vis]

Rotate(a)  == Req("rotate", a, a1, NULL, "public")
Revoke(a)  == Req("revoke", a, a1, NULL, "public")
Create(n)  == Req("create", a1, a1, n, "public")
Hide(a)    == Req("visibility", a, a1, NULL, "private")

Att(op, a, signer, key, source) ==
  [op |-> op, agent |-> a, signer |-> signer, key |-> key, content |-> x1, source |-> source]

(* Identity calls alone: every operation on a live, a legacy, a successor   *)
(* and an unknown agent.                                                    *)
MCIdentityRequests ==
  {Create(NULL), Create(n2)}
    \cup {Rotate(a) : a \in AgentId} \cup {Revoke(a) : a \in AgentId} \cup {Hide(a1)}

MCRevokeRequests == {Revoke(a1), Rotate(a1), Hide(a1)}

MCAttestRequests ==
  {Att("attest", a1, a1, k1, "native"), Att("attest", a1, a1, NULL, "native"),
   Att("attest", a2, a1, k1, "native"), Att("ingest", a1, a1, k1, "hub"),
   Att("ingest", a1, a1, NULL, "native"), Att("verify", a1, a1, NULL, "native")}

MCNoRequests == {}

(* Calls are interchangeable, and so are the keys and names no request or   *)
(* seed row mentions.                                                       *)
Symmetry ==
  Permutations(IdCall) \cup Permutations(AttCall)
    \cup Permutations(AgentId \ {a1, a2}) \cup Permutations(Name \ {n1, n2})

============================================================================
