----------------------------- MODULE SessionKeys -----------------------------
(***************************************************************************)
(* The web app's custody of agent keys: table session_keys and the         *)
(* DurableSessionKeyStore over it.  A row is an encrypted key, held for    *)
(* one (agent, owner) pair until its expiry; the envelope itself never     *)
(* changes, so a row is the pair and the expiry.  Every operation is one   *)
(* statement.  The store judges expiry with the process's clock, not in    *)
(* the statement, which is why a read and what it decides are apart.       *)
(*                                                                         *)
(* delete() and clearExpired() have no caller in the repository.           *)
(***************************************************************************)
EXTENDS Naturals

CONSTANTS
  Agent,    (* agent ids                                                    *)
  Guest,    (* user ids of session cookies                                  *)
  Account,  (* user ids of signed in accounts                               *)
  Window,   (* the session window, in ticks                                 *)
  MaxTime   (* bound on the clock                                           *)

VARIABLES
  now,      (* Date.now()                                                   *)
  keys      (* table session_keys                                           *)

ASSUME WindowAssumption == Window \in Nat \ {0} /\ MaxTime \in Nat
ASSUME OwnerAssumption == Guest \cap Account = {}

Owner == Guest \cup Account

KeyRow == [agent : Agent, owner : Owner, expires : 0..(MaxTime + Window)]

FaultyKeyOf(a, o) == {k \in keys : k.agent = a}  \* the read not scoped by owner

KeyOf(a, o) == {k \in keys : k.agent = a /\ k.owner = o}

FaultyExpired(k) == k.expires >= now  \* the comparison turned round

Expired(k) == k.expires <= now

Slide(k) == now + Window

(* setSessionKey: an upsert on the pair. *)
SetKey(a, o, e) ==
  keys' = (keys \ KeyOf(a, o)) \cup {[agent |-> a, owner |-> o, expires |-> e]}

FaultyTouchKey(a, o, e) ==  \* the touch an upsert too
  keys' = (keys \ KeyOf(a, o)) \cup {[agent |-> a, owner |-> o, expires |-> e]}

(* touchSessionKey: an update, so a row that is gone stays gone. *)
TouchKey(a, o, e) ==
  keys' = (keys \ KeyOf(a, o)) \cup {[k EXCEPT !.expires = e] : k \in KeyOf(a, o)}

(* deleteSessionKey: whatever the row's expiry is by now. *)
DeleteKey(a, o) == keys' = keys \ KeyOf(a, o)

(* mergeOwner's first statement and the UNIQUE (agent, owner) it can hit. *)
MoveKeys(from, to) ==
  keys' = {IF k.owner = from THEN [k EXCEPT !.owner = to] ELSE k : k \in keys}

KeysCollide(from, to) == \E k \in keys : k.owner = from /\ KeyOf(k.agent, to) # {}

Tick ==
  /\ now < MaxTime
  /\ now' = now + 1
  /\ UNCHANGED keys

KeysTypeOK == now \in 0..MaxTime /\ keys \subseteq KeyRow

KeysInit == now = 0 /\ keys = {}

============================================================================
