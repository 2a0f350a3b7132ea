--------------------------- MODULE LedgerPromise ---------------------------
(***************************************************************************)
(* What the SDK promises of the ledger, without its calls' steps.          *)
(*                                                                         *)
(* The ledger is append-only: agents are registered and revoked, never     *)
(* removed or revived, and attestations are appended, never changed.  An   *)
(* attestation or a successor appears only through a call that was         *)
(* admitted while its agent was live; a revocation stops further           *)
(* admissions, and what was admitted before it may still land.  That is    *)
(* the window README.md:137 records ("a revoke landing in between would    *)
(* not be observed").  An idempotency key names at most one attestation of *)
(* an agent, and a lineage link appears with its successor or not at all.  *)
(***************************************************************************)
CONSTANTS
  Agent, Call,
  Entry,  (* attestations: records with at least the fields agent and key   *)
  NoKey   (* the key of an entry written without one                        *)

VARIABLES
  known,    (* registered agents                                            *)
  revoked,  (* the revoked ones                                             *)
  entries,  (* attestations                                                 *)
  lineage,  (* pairs <<old, new>>                                           *)
  admitted  (* pairs <<call, agent>>: calls past the gate, not yet returned *)

promised == <<known, revoked, entries, lineage, admitted>>

Init ==
  /\ known \subseteq Agent
  /\ revoked = {} /\ entries = {} /\ lineage = {} /\ admitted = {}

Register(a) ==
  /\ a \notin known
  /\ known' = known \cup {a}
  /\ UNCHANGED <<revoked, entries, lineage, admitted>>

Revoke(a) ==
  /\ a \in known
  /\ revoked' = revoked \cup {a}
  /\ UNCHANGED <<known, entries, lineage, admitted>>

Admit(c, a) ==
  /\ a \in known \ revoked
  /\ \A b \in Agent : <<c, b>> \notin admitted
  /\ admitted' = admitted \cup {<<c, a>>}
  /\ UNCHANGED <<known, revoked, entries, lineage>>

Dismiss(c, a) ==
  /\ <<c, a>> \in admitted
  /\ admitted' = admitted \ {<<c, a>>}
  /\ UNCHANGED <<known, revoked, entries, lineage>>

Append(c, e) ==
  /\ <<c, e.agent>> \in admitted
  /\ e \notin entries
  /\ e.key = NoKey \/ \A f \in entries : f.agent # e.agent \/ f.key # e.key
  /\ entries' = entries \cup {e}
  /\ admitted' = admitted \ {<<c, e.agent>>}
  /\ UNCHANGED <<known, revoked, lineage>>

Succeed(c, old, new) ==
  /\ <<c, old>> \in admitted
  /\ new \notin known
  /\ known' = known \cup {new}
  /\ lineage' = lineage \cup {<<old, new>>}
  /\ admitted' = admitted \ {<<c, old>>}
  /\ UNCHANGED <<revoked, entries>>

Next ==
  \/ \E a \in Agent : Register(a) \/ Revoke(a)
  \/ \E c \in Call, a \in Agent : Admit(c, a) \/ Dismiss(c, a)
  \/ \E c \in Call, e \in Entry : Append(c, e)
  \/ \E c \in Call, a, b \in Agent : Succeed(c, a, b)

Spec == Init /\ [][Next]_promised

============================================================================
