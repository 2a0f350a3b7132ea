------------------------------- MODULE Custody -------------------------------
(***************************************************************************)
(* Where the CLI keeps secrets: the chain of stores (the OS keychain, then *)
(* an encrypted file) that takes a new agent's two keys or a provider key  *)
(* and gives them back.  A process is one invocation of the program, the   *)
(* interactive one included; processes share the stores and nothing else.  *)
(*                                                                         *)
(* Storing moves through  idle -> keychain -> file -> seal -> idle  and    *)
(* resolving through  idle -> lookup -> open -> idle.  "seal" stands apart *)
(* from "file" because the file is read before the passphrase is typed.    *)
(***************************************************************************)
EXTENDS Naturals, FiniteSets, Sequences

CONSTANTS
  Agent,       (* agents that can be created; an agent names its two keys   *)
  ApiKey,      (* provider keys a user can save                             *)
  Passphrase,  (* what can be typed at the prompt                           *)
  Proc,        (* invocations                                               *)
  MaxOpen,     (* how many of them may overlap                              *)
  NULL

VARIABLES
  registered,  (* agents with a row in the ledger                           *)
  keychain,    (* the OS keychain                                           *)
  file,        (* credentials.enc                                           *)
  cli,         (* the state of every process                                *)
  created      (* history: the store that took a created agent's keys       *)

vars == <<registered, keychain, file, cli, created>>

ASSUME CustodyAssumption ==
  /\ NULL \notin Agent \cup ApiKey \cup Passphrase \cup {"keychain", "file"}
  /\ MaxOpen \in Nat

(* The accounts: <publicKey>.identity, <publicKey>.owner and apikey/groq. *)
ApiAccount == <<NULL, "apikey">>

Account == (Agent \X {"identity", "owner"}) \cup {ApiAccount}

Secret == Agent \cup ApiKey

Records == [Account -> Secret \cup {NULL}]

NoRecords == [a \in Account |-> NULL]

(* A torn file is one whose write did not complete. *)
FileState ==
  [is : {"absent", "torn"}, pass : {NULL}, records : {NoRecords}]
    \cup [is : {"sealed"}, pass : Passphrase, records : Records]

Absent == [is |-> "absent", pass |-> NULL, records |-> NoRecords]

Torn == [is |-> "torn", pass |-> NULL, records |-> NoRecords]

Item == [account : Account, secret : Secret]

(* items: all there is to store, left: what the current store still lacks.  *)
(* owed records that the account resolved was one of a created agent.       *)
ProcState == [pc      : {"closed", "idle", "keychain", "file", "seal", "lookup", "open"},
              agent   : Agent \cup {NULL},
              items   : Seq(Item),
              left    : Seq(Item),
              account : Account \cup {NULL},
              cached  : Passphrase \cup {NULL},
              seen    : FileState,
              noted   : BOOLEAN,
              owed    : BOOLEAN,
              result  : {"none", "ok", "found", "missing", "STORAGE_WRITE_FAILED"}]

Closed == [pc |-> "closed", agent |-> NULL, items |-> << >>, left |-> << >>, account |-> NULL,
           cached |-> NULL, seen |-> Absent, noted |-> FALSE, owed |-> FALSE, result |-> "none"]

----------------------------------------------------------------------------
At(p, pc) == cli[p].pc = pc

Step(p, s) == cli' = [cli EXCEPT ![p] = s]

(* Between operations a process remembers the passphrase and nothing else.  *)
Idle(p) == [Closed EXCEPT !.pc = "idle", !.cached = cli[p].cached]

Return(p, s, code) == Step(p, [s EXCEPT !.pc = "idle", !.result = code, !.items = << >>, !.left = << >>,
                                        !.seen = Absent, !.agent = NULL, !.account = NULL])

Open(p) ==
  /\ At(p, "closed") /\ Cardinality({q \in Proc : ~ At(q, "closed")}) < MaxOpen
  /\ Step(p, [Closed EXCEPT !.pc = "idle"])
  /\ UNCHANGED <<registered, keychain, file, created>>

(* The program ends, or is killed anywhere outside a write. *)
Exit(p) ==
  /\ ~ At(p, "closed")
  /\ Step(p, Closed)
  /\ UNCHANGED <<registered, keychain, file, created>>

(***************************************************************************)
(* Storing.  runCreateAgent commits the agent first, then storeAgentKeys   *)
(* stores both keys; storeApiKey stores one.  A store takes every item or  *)
(* the next store starts over with all of them.                            *)
(***************************************************************************)
Pair(a) == << [account |-> <<a, "identity">>, secret |-> a], [account |-> <<a, "owner">>, secret |-> a] >>

RunCreateAgent(p, a) ==
  /\ At(p, "idle") /\ a \notin registered
  /\ registered' = registered \cup {a}
  /\ Step(p, [Idle(p) EXCEPT !.pc = "keychain", !.agent = a, !.items = Pair(a), !.left = Pair(a)])
  /\ UNCHANGED <<keychain, file, created>>

StoreApiKey(p, k) ==
  LET items == << [account |-> ApiAccount, secret |-> k] >> IN
  /\ At(p, "idle")
  /\ Step(p, [Idle(p) EXCEPT !.pc = "keychain", !.items = items, !.left = items])
  /\ UNCHANGED <<registered, keychain, file, created>>

FaultyWith(records, item) == [NoRecords EXCEPT ![item.account] = item.secret]  \* the others not loaded

With(records, item) == [records EXCEPT ![item.account] = item.secret]

(* A store has taken the next item of s. *)
Took(p, s, store) ==
  IF Len(s.left) > 1
    THEN Step(p, [s EXCEPT !.pc = store, !.left = Tail(@)]) /\ UNCHANGED created
    ELSE /\ Return(p, s, "ok")
         /\ created' = [a \in Agent |-> IF a = s.agent THEN store ELSE created[a]]

(* The tool stores the item, or fails, having stored it or not.             *)
SetInKeychain(p) ==
  /\ At(p, "keychain")
  /\ LET stored == With(keychain, Head(cli[p].left)) IN
       \/ keychain' = stored /\ Took(p, cli[p], "keychain")
       \/ /\ keychain' \in {keychain, stored}
          /\ Step(p, [cli[p] EXCEPT !.pc = "file", !.left = cli[p].items])
          /\ UNCHANGED created
  /\ UNCHANGED <<registered, file>>

ReadFile(p) ==
  /\ At(p, "file")
  /\ \/ file.is # "torn" /\ Step(p, [cli[p] EXCEPT !.pc = "seal", !.seen = file])
     \/ Return(p, cli[p], "STORAGE_WRITE_FAILED")
  /\ UNCHANGED <<registered, keychain, file, created>>

(* The first answer to the prompt is the answer for the process's lifetime. *)
Typed(p) == IF cli[p].cached = NULL THEN Passphrase ELSE {cli[p].cached}

FaultyUnlocks(f, w) == TRUE  \* the authentication tag not checked

Unlocks(f, w) == f.is = "sealed" => w = f.pass

Sealed(f, w, item) == [is |-> "sealed", pass |-> w, records |-> With(f.records, item)]

(* The file is written in place: a write that fails may leave it torn.      *)
SealFile(p, w) ==
  LET s == [cli[p] EXCEPT !.cached = w] IN
  /\ At(p, "seal") /\ w \in Typed(p)
  /\ \/ /\ Unlocks(s.seen, w)
        /\ file' = Sealed(s.seen, w, Head(s.left))
        /\ Took(p, s, "file")
     \/ /\ file' \in IF Unlocks(s.seen, w) THEN {file, Torn} ELSE {file}
        /\ Return(p, s, "STORAGE_WRITE_FAILED")
        /\ UNCHANGED created
  /\ UNCHANGED <<registered, keychain>>

CrashInWrite(p) ==
  /\ At(p, "seal")
  /\ file' = Torn
  /\ Step(p, Closed)
  /\ UNCHANGED <<registered, keychain, created>>

----------------------------------------------------------------------------
(* Resolving, for attest, revoke and the chat.  A store that throws is      *)
(* passed over with a note.                                                 *)

Resolve(p, a) ==
  /\ At(p, "idle")
  /\ Step(p, [Idle(p) EXCEPT !.pc = "lookup", !.account = a,
                             !.owed = a # ApiAccount /\ created[a[1]] # NULL])
  /\ UNCHANGED <<registered, keychain, file, created>>

FaultyLookInKeychain(p) ==  \* a broken tool taken for a miss
  /\ At(p, "lookup")
  /\ \/ keychain[cli[p].account] # NULL /\ Return(p, cli[p], "found")
     \/ Step(p, [cli[p] EXCEPT !.pc = "open"])
  /\ UNCHANGED <<registered, keychain, file, created>>

LookInKeychain(p) ==
  /\ At(p, "lookup")
  /\ \/ keychain[cli[p].account] # NULL /\ Return(p, cli[p], "found")
     \/ keychain[cli[p].account] = NULL /\ Step(p, [cli[p] EXCEPT !.pc = "open"])
     \/ Step(p, [cli[p] EXCEPT !.pc = "open", !.noted = TRUE])
  /\ UNCHANGED <<registered, keychain, file, created>>

OpenFile(p) ==
  /\ At(p, "open")
  /\ \/ file.is = "absent" /\ Return(p, cli[p], "missing")
     \/ file.is # "absent" /\ Return(p, [cli[p] EXCEPT !.noted = TRUE], "missing")
     \/ \E w \in Typed(p) :
          /\ file.is = "sealed"
          /\ LET s == [cli[p] EXCEPT !.cached = w] IN
               IF ~ Unlocks(file, w) THEN Return(p, [s EXCEPT !.noted = TRUE], "missing")
               ELSE Return(p, s, IF file.records[s.account] # NULL THEN "found" ELSE "missing")
  /\ UNCHANGED <<registered, keychain, file, created>>

----------------------------------------------------------------------------
Init ==
  /\ registered = {} /\ keychain = NoRecords /\ file = Absent
  /\ cli = [p \in Proc |-> Closed]
  /\ created = [a \in Agent |-> NULL]

Next ==
  \E p \in Proc :
    \/ Open(p) \/ Exit(p)
    \/ \E a \in Agent : RunCreateAgent(p, a)
    \/ \E k \in ApiKey : StoreApiKey(p, k)
    \/ SetInKeychain(p) \/ ReadFile(p)
    \/ \E w \in Passphrase : SealFile(p, w)
    \/ CrashInWrite(p)
    \/ \E a \in Account : Resolve(p, a)
    \/ LookInKeychain(p) \/ OpenFile(p)

Spec == Init /\ [][Next]_vars

----------------------------------------------------------------------------
TypeOK ==
  /\ registered \subseteq Agent
  /\ keychain \in Records
  /\ file \in FileState
  /\ cli \in [Proc -> ProcState]
  /\ created \in [Agent -> {"keychain", "file", NULL}]

Holds(records, a) == records[<<a, "identity">>] = a /\ records[<<a, "owner">>] = a

(* A create that reported success left both keys in one store, where they   *)
(* stay whatever is stored later: the file loses them only to a torn write  *)
(* (encrypted-file.ts:143-145, "so multiple agents share one credentials    *)
(* file", and never "overwrite a valid store with a fresh one").            *)
CreatedKeysKept ==
  \A a \in Agent :
    /\ created[a] = "keychain" => Holds(keychain, a)
    /\ created[a] = "file" => file.is = "torn" \/ Holds(file.records, a)

(* No operation changes the passphrase of a file, so a mistyped one cannot  *)
(* lock the owner out (set refuses what it cannot decrypt).                 *)
PassphraseStays ==
  [][file.is = "sealed" /\ file'.is = "sealed" => file'.pass = file.pass]_vars

(* A created agent's key is never silently missing: if resolving it comes   *)
(* back empty, a store was passed over with a note (custody/index.ts:15-17, *)
(* "never silently").                                                       *)
MissingIsLoud ==
  \A p \in Proc : cli[p].owed /\ cli[p].result = "missing" => cli[p].noted

============================================================================
