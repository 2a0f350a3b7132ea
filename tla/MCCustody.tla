----------------------------- MODULE MCCustody -----------------------------
(* Small instances of Custody. *)
EXTENDS Custody, TLC

Symmetry == Permutations(Agent) \cup Permutations(Passphrase)

============================================================================
