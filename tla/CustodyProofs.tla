---------------------------- MODULE CustodyProofs ----------------------------
(***************************************************************************)
(* Proofs about Custody, for any agents, keys, passphrases and processes.  *)
(* What concerns the keychain holds however many processes overlap, for it *)
(* is written item by item; what concerns the file holds when no two do,   *)
(* for it is read before a passphrase is typed and written after.          *)
(***************************************************************************)
EXTENDS Custody, FiniteSetTheorems, TLAPS

----------------------------------------------------------------------------
(* Items *)

IdentityItem(a) == [account |-> <<a, "identity">>, secret |-> a]

OwnerItem(a) == [account |-> <<a, "owner">>, secret |-> a]

ApiItem(k) == [account |-> ApiAccount, secret |-> k]

LEMMA PairShape ==
  ASSUME NEW a
  PROVE  /\ Len(Pair(a)) = 2 /\ Head(Pair(a)) = IdentityItem(a) /\ Tail(Pair(a)) = << OwnerItem(a) >>
         /\ Pair(a) = << IdentityItem(a), OwnerItem(a) >>
  BY DEF Pair, IdentityItem, OwnerItem

LEMMA SingleShape ==
  ASSUME NEW x
  PROVE  Len(<< x >>) = 1 /\ Head(<< x >>) = x
  OBVIOUS

LEMMA ItemsTyped ==
  /\ \A a \in Agent : IdentityItem(a) \in Item /\ << OwnerItem(a) >> \in Seq(Item) /\ Pair(a) \in Seq(Item)
                      /\ OwnerItem(a) \in Item
  /\ \A k \in ApiKey : ApiItem(k) \in Item /\ << ApiItem(k) >> \in Seq(Item)
<1>1. ASSUME NEW a \in Agent PROVE IdentityItem(a) \in Item /\ OwnerItem(a) \in Item
  BY DEF IdentityItem, OwnerItem, Item, Account, Secret
<1>2. ASSUME NEW k \in ApiKey PROVE ApiItem(k) \in Item
  BY DEF ApiItem, Item, Account, Secret
<1>3. ASSUME NEW x \in Item, NEW y \in Item PROVE << x >> \in Seq(Item) /\ << x, y >> \in Seq(Item)
  OBVIOUS
<1>4. QED
  BY <1>1, <1>2, <1>3, PairShape

LEMMA ConstantsTyped ==
  /\ Closed \in ProcState /\ Absent \in FileState /\ Torn \in FileState /\ NoRecords \in Records
  /\ << >> \in Seq(Item)
<1>1. NoRecords \in Records
  BY DEF NoRecords, Records
<1>2. Absent \in FileState /\ Torn \in FileState
  BY <1>1 DEF Absent, Torn, FileState
<1>3. << >> \in Seq(Item)
  OBVIOUS
<1>4. QED
  BY <1>1, <1>2, <1>3 DEF Closed, ProcState

(* A store of one item changes that item's account and no other. *)
LEMMA WithTyped ==
  ASSUME NEW r \in Records, NEW i \in Item
  PROVE  /\ With(r, i) \in Records /\ With(r, i)[i.account] = i.secret
         /\ \A a \in Account : a # i.account => With(r, i)[a] = r[a]
  BY DEF With, Records, Item

----------------------------------------------------------------------------
(* What a process has in hand *)

Storing == {"keychain", "file", "seal"}

(* A new agent's two keys, or what is left of them; or a provider key. *)
PairInHand(s) ==
  /\ s.agent \in Agent /\ s.items = Pair(s.agent)
  /\ s.left = s.items \/ s.left = << OwnerItem(s.agent) >>

ApiKeyInHand(s) ==
  /\ s.agent = NULL
  /\ \E k \in ApiKey : s.items = << ApiItem(k) >> /\ s.left = s.items

InHand(s) == s.pc \in Storing => PairInHand(s) \/ ApiKeyInHand(s)

ShapeInv ==
  /\ TypeOK
  /\ \A p \in Proc : InHand(cli[p])
  /\ \A p \in Proc : cli[p].pc \in {"lookup", "open"} => cli[p].account \in Account

(* An item stores a key under its own account. *)
Proper(i) ==
  i \in Item /\ \A a \in Agent : i.account \in {<<a, "identity">>, <<a, "owner">>} => i.secret = a

LEMMA HeadProper ==
  ASSUME NEW s, PairInHand(s) \/ ApiKeyInHand(s)
  PROVE  /\ Proper(Head(s.left)) /\ Head(s.left) \in Item
         /\ Len(s.left) > 1 => /\ s.agent \in Agent /\ Head(s.left) = IdentityItem(s.agent)
                               /\ Tail(s.left) = << OwnerItem(s.agent) >>
         /\ ~ Len(s.left) > 1 /\ s.agent # NULL =>
              s.agent \in Agent /\ Head(s.left) = OwnerItem(s.agent) /\ s.left = << OwnerItem(s.agent) >>
<1>1. \A a \in Agent : Proper(IdentityItem(a)) /\ Proper(OwnerItem(a))
  BY ItemsTyped DEF Proper, IdentityItem, OwnerItem
<1>2. \A k \in ApiKey : Proper(ApiItem(k))
  BY ItemsTyped, CustodyAssumption DEF Proper, ApiItem, ApiAccount
<1>3. CASE PairInHand(s)
  <2>1. s.left = Pair(s.agent) \/ s.left = << OwnerItem(s.agent) >>
    BY <1>3 DEF PairInHand
  <2>2. /\ Len(Pair(s.agent)) = 2 /\ Head(Pair(s.agent)) = IdentityItem(s.agent)
        /\ Tail(Pair(s.agent)) = << OwnerItem(s.agent) >>
        /\ Len(<< OwnerItem(s.agent) >>) = 1 /\ Head(<< OwnerItem(s.agent) >>) = OwnerItem(s.agent)
    BY PairShape, SingleShape
  <2>3. s.agent \in Agent /\ IdentityItem(s.agent) \in Item /\ OwnerItem(s.agent) \in Item
    BY <1>3, ItemsTyped DEF PairInHand
  <2>4. CASE s.left = Pair(s.agent)
    BY <1>1, <2>2, <2>3, <2>4
  <2>5. CASE s.left = << OwnerItem(s.agent) >>
    BY <1>1, <2>2, <2>3, <2>5
  <2>6. QED
    BY <2>1, <2>4, <2>5
<1>4. CASE ApiKeyInHand(s)
  <2>1. PICK k \in ApiKey : s.left = << ApiItem(k) >>
    BY <1>4 DEF ApiKeyInHand
  <2>2. Len(s.left) = 1 /\ Head(s.left) = ApiItem(k)
    BY <2>1, SingleShape
  <2>3. QED
    BY <1>2, <1>4, <2>2 DEF ApiKeyInHand, Proper
<1>5. QED
  BY <1>3, <1>4


----------------------------------------------------------------------------
(* Steps of a process *)

LEMMA StepIsOwn ==
  ASSUME TypeOK, NEW p \in Proc, NEW s, Step(p, s)
  PROVE  cli'[p] = s /\ (\A q \in Proc \ {p} : cli'[q] = cli[q])
  BY DEF TypeOK, Step

LEMMA StepShaped ==
  ASSUME ShapeInv, NEW p \in Proc, NEW s \in ProcState, Step(p, s), InHand(s),
         s.pc \in {"lookup", "open"} => s.account \in Account
  PROVE  /\ cli' \in [Proc -> ProcState] /\ \A q \in Proc : InHand(cli'[q])
         /\ \A q \in Proc : cli'[q].pc \in {"lookup", "open"} => cli'[q].account \in Account
  BY StepIsOwn DEF ShapeInv, TypeOK, Step

LEMMA IdleShape ==
  ASSUME ShapeInv, NEW p \in Proc
  PROVE  /\ Idle(p) \in ProcState /\ Idle(p).pc = "idle" /\ Idle(p).owed = FALSE /\ Idle(p).noted = FALSE
         /\ Idle(p).result = "none" /\ Idle(p).agent = NULL /\ Idle(p).cached = cli[p].cached
<1>1. Closed \in ProcState /\ cli[p].cached \in Passphrase \cup {NULL}
  BY ConstantsTyped DEF ShapeInv, TypeOK, ProcState
<1>2. QED
  BY <1>1 DEF Idle, Closed, ProcState

ReturnOf(s, code) == [s EXCEPT !.pc = "idle", !.result = code, !.items = << >>, !.left = << >>,
                               !.seen = Absent, !.agent = NULL, !.account = NULL]

LEMMA ReturnShape ==
  ASSUME NEW s \in ProcState, NEW code \in {"ok", "found", "missing", "STORAGE_WRITE_FAILED"}
  PROVE  /\ ReturnOf(s, code) \in ProcState /\ ReturnOf(s, code).pc = "idle" /\ ReturnOf(s, code).result = code
         /\ ReturnOf(s, code).owed = s.owed /\ ReturnOf(s, code).noted = s.noted
         /\ InHand(ReturnOf(s, code))
<1>1. /\ ReturnOf(s, code) \in ProcState /\ ReturnOf(s, code).pc = "idle" /\ ReturnOf(s, code).result = code
      /\ ReturnOf(s, code).owed = s.owed /\ ReturnOf(s, code).noted = s.noted
  BY ConstantsTyped DEF ReturnOf, ProcState
<1>2. QED
  BY <1>1 DEF InHand, Storing

LEMMA ReturnTyped ==
  ASSUME ShapeInv, NEW p \in Proc, NEW s \in ProcState,
         NEW code \in {"ok", "found", "missing", "STORAGE_WRITE_FAILED"}, Return(p, s, code)
  PROVE  /\ cli' \in [Proc -> ProcState] /\ \A q \in Proc : InHand(cli'[q])
         /\ \A q \in Proc : cli'[q].pc \in {"lookup", "open"} => cli'[q].account \in Account
         /\ cli'[p] = ReturnOf(s, code)
<1>1. Step(p, ReturnOf(s, code))
  BY DEF Return, ReturnOf
<1>2. QED
  BY <1>1, ReturnShape, StepShaped, StepIsOwn DEF ShapeInv


(* A store takes the item at the head of what s lacks: the next one follows,  *)
(* or the operation returns.                                                 *)
LEMMA TookShape ==
  ASSUME ShapeInv, NEW p \in Proc, NEW s \in ProcState, PairInHand(s) \/ ApiKeyInHand(s),
         NEW store \in {"keychain", "file"}, Took(p, s, store)
  PROVE  /\ cli' \in [Proc -> ProcState] /\ \A q \in Proc : InHand(cli'[q])
         /\ \A q \in Proc : cli'[q].pc \in {"lookup", "open"} => cli'[q].account \in Account
         /\ created' \in [Agent -> {"keychain", "file", NULL}]
         /\ cli'[p].owed = s.owed /\ cli'[p].noted = s.noted
         /\ \/ /\ cli'[p].pc = store /\ s.agent \in Agent /\ cli'[p].agent = s.agent
               /\ cli'[p].left = << OwnerItem(s.agent) >> /\ Head(s.left) = IdentityItem(s.agent)
               /\ UNCHANGED created /\ cli'[p].result = s.result
            \/ /\ cli'[p].pc = "idle" /\ cli'[p].result = "ok"
               /\ created' = [a \in Agent |-> IF a = s.agent THEN store ELSE created[a]]
               /\ s.agent \in Agent => /\ s.left = << OwnerItem(s.agent) >>
                                       /\ Head(s.left) = OwnerItem(s.agent)
<1>1. CASE Len(s.left) > 1
  <2>1. /\ s.agent \in Agent /\ Tail(s.left) = << OwnerItem(s.agent) >> /\ Head(s.left) = IdentityItem(s.agent)
        /\ PairInHand(s)
    BY <1>1, HeadProper, CustodyAssumption, SingleShape DEF ApiKeyInHand
  <2> DEFINE t == [s EXCEPT !.pc = store, !.left = Tail(s.left)]
  <2>2. Step(p, t) /\ UNCHANGED created
    BY <1>1 DEF Took
  <2>3. << OwnerItem(s.agent) >> \in Seq(Item)
    BY <2>1, ItemsTyped
  <2>4. /\ t \in ProcState /\ t.pc = store /\ t.agent = s.agent /\ t.items = s.items
        /\ t.left = << OwnerItem(s.agent) >> /\ t.owed = s.owed /\ t.noted = s.noted /\ t.result = s.result
    BY <2>1, <2>3 DEF ProcState
  <2> HIDE DEF t
  <2>5. InHand(t)
    BY <2>1, <2>4 DEF InHand, PairInHand
  <2>6. /\ cli' \in [Proc -> ProcState] /\ \A q \in Proc : InHand(cli'[q])
        /\ \A q \in Proc : cli'[q].pc \in {"lookup", "open"} => cli'[q].account \in Account
    BY <2>2, <2>4, <2>5, StepShaped
  <2>7. cli'[p] = t
    BY <2>2, StepIsOwn DEF ShapeInv
  <2>8. QED
    BY <2>1, <2>2, <2>4, <2>6, <2>7 DEF ShapeInv, TypeOK
<1>2. CASE ~ Len(s.left) > 1
  <2>1. Return(p, s, "ok") /\ created' = [a \in Agent |-> IF a = s.agent THEN store ELSE created[a]]
    BY <1>2 DEF Took
  <2>2. created' \in [Agent -> {"keychain", "file", NULL}]
    BY <2>1 DEF ShapeInv, TypeOK
  <2>3. s.agent \in Agent => s.left = << OwnerItem(s.agent) >> /\ Head(s.left) = OwnerItem(s.agent)
    BY <1>2, HeadProper, CustodyAssumption
  <2>4. /\ cli' \in [Proc -> ProcState] /\ \A q \in Proc : InHand(cli'[q])
        /\ \A q \in Proc : cli'[q].pc \in {"lookup", "open"} => cli'[q].account \in Account
        /\ cli'[p] = ReturnOf(s, "ok")
    BY <2>1, ReturnTyped
  <2>5. QED
    BY <2>1, <2>2, <2>3, <2>4, ReturnShape
<1>3. QED
  BY <1>1, <1>2

SetFails(p) ==
  /\ At(p, "keychain") /\ keychain' \in {keychain, With(keychain, Head(cli[p].left))}
  /\ Step(p, [cli[p] EXCEPT !.pc = "file", !.left = cli[p].items])
  /\ UNCHANGED <<registered, file, created>>

(* Types, and what a process has in hand, are kept by every step. *)
LEMMA NextShape == ShapeInv /\ [Next]_vars => ShapeInv'
<1> SUFFICES ASSUME ShapeInv, [Next]_vars PROVE ShapeInv'
  OBVIOUS
<1> DEFINE CliShape == /\ cli' \in [Proc -> ProcState] /\ \A q \in Proc : InHand(cli'[q])
                       /\ \A q \in Proc : cli'[q].pc \in {"lookup", "open"} => cli'[q].account \in Account
<1>0. /\ TypeOK /\ registered \subseteq Agent /\ keychain \in Records /\ file \in FileState
      /\ created \in [Agent -> {"keychain", "file", NULL}] /\ \A p \in Proc : cli[p] \in ProcState
  BY DEF ShapeInv, TypeOK
<1>1. ASSUME CliShape, registered' \subseteq Agent, keychain' \in Records, file' \in FileState,
             created' \in [Agent -> {"keychain", "file", NULL}]
      PROVE  ShapeInv'
  BY <1>1 DEF ShapeInv, TypeOK
<1>2. ASSUME NEW p \in Proc, NEW s \in ProcState, Step(p, s), s.pc \in {"closed", "idle"}
      PROVE  CliShape
  BY <1>2, StepShaped DEF InHand, Storing
<1>3. ASSUME NEW p \in Proc, Open(p) \/ Exit(p) PROVE ShapeInv'
  <2>1. \E s \in ProcState : Step(p, s) /\ s.pc \in {"closed", "idle"}
    <3>1. Closed \in ProcState /\ Closed.pc = "closed"
      BY ConstantsTyped DEF Closed
    <3>2. [Closed EXCEPT !.pc = "idle"] \in ProcState /\ [Closed EXCEPT !.pc = "idle"].pc = "idle"
      BY <3>1 DEF ProcState
    <3>3. QED
      BY <1>3, <3>1, <3>2 DEF Open, Exit
  <2>2. UNCHANGED <<registered, keychain, file, created>>
    BY <1>3 DEF Open, Exit
  <2>3. QED
    BY <1>0, <1>1, <1>2, <2>1, <2>2
<1>4. ASSUME NEW p \in Proc, NEW a \in Agent, RunCreateAgent(p, a) PROVE ShapeInv'
  <2> DEFINE s == [Idle(p) EXCEPT !.pc = "keychain", !.agent = a, !.items = Pair(a), !.left = Pair(a)]
  <2>1. /\ s \in ProcState /\ s.pc = "keychain" /\ s.agent = a /\ s.items = Pair(a) /\ s.left = Pair(a)
    BY IdleShape, ItemsTyped DEF ProcState
  <2>2. Step(p, s)
    BY <1>4 DEF RunCreateAgent
  <2> HIDE DEF s
  <2>3. InHand(s)
    BY <2>1 DEF InHand, PairInHand
  <2>4. CliShape
    BY <2>1, <2>2, <2>3, StepShaped
  <2>5. QED
    BY <1>0, <1>1, <1>4, <2>4 DEF RunCreateAgent
<1>5. ASSUME NEW p \in Proc, NEW k \in ApiKey, StoreApiKey(p, k) PROVE ShapeInv'
  <2> DEFINE i == << ApiItem(k) >>
  <2> DEFINE s == [Idle(p) EXCEPT !.pc = "keychain", !.items = i, !.left = i]
  <2>1. i \in Seq(Item)
    BY ItemsTyped
  <2>2. /\ s \in ProcState /\ s.pc = "keychain" /\ s.agent = NULL /\ s.items = i /\ s.left = i
    BY <2>1, IdleShape DEF ProcState
  <2>3. Step(p, s)
    BY <1>5 DEF StoreApiKey, ApiItem
  <2> HIDE DEF s
  <2>4. InHand(s)
    BY <2>2 DEF InHand, ApiKeyInHand
  <2>5. CliShape
    BY <2>2, <2>3, <2>4, StepShaped
  <2>6. QED
    BY <1>0, <1>1, <1>5, <2>5 DEF StoreApiKey
<1>6. ASSUME NEW p \in Proc, SetInKeychain(p) PROVE ShapeInv'
  <2>1. /\ PairInHand(cli[p]) \/ ApiKeyInHand(cli[p])
        /\ Head(cli[p].left) \in Item
    BY <1>6, HeadProper DEF SetInKeychain, At, ShapeInv, InHand, Storing
  <2>2. With(keychain, Head(cli[p].left)) \in Records
    BY <1>0, <2>1, WithTyped
  <2>3. keychain' \in Records /\ registered' = registered /\ file' = file
    BY <1>0, <1>6, <2>2 DEF SetInKeychain
  <2>4. CASE Took(p, cli[p], "keychain")
    BY <1>0, <1>1, <2>1, <2>3, <2>4, TookShape
  <2>5. CASE SetFails(p)
    <3> DEFINE s == [cli[p] EXCEPT !.pc = "file", !.left = cli[p].items]
    <3>1. /\ s \in ProcState /\ s.pc = "file" /\ s.agent = cli[p].agent
          /\ s.items = cli[p].items /\ s.left = cli[p].items
      BY <1>0 DEF ProcState
    <3>2. Step(p, s) /\ created' = created
      BY <2>5 DEF SetFails
    <3> HIDE DEF s
    <3>3. InHand(s)
      BY <2>1, <3>1 DEF InHand, PairInHand, ApiKeyInHand
    <3>4. CliShape
      BY <3>1, <3>2, <3>3, StepShaped
    <3>5. QED
      BY <1>0, <1>1, <2>3, <3>2, <3>4
  <2>6. QED
    BY <1>6, <2>4, <2>5 DEF SetInKeychain, SetFails
<1>7. ASSUME NEW p \in Proc, ReadFile(p) PROVE ShapeInv'
  <2>1. CASE Step(p, [cli[p] EXCEPT !.pc = "seal", !.seen = file])
    <3> DEFINE s == [cli[p] EXCEPT !.pc = "seal", !.seen = file]
    <3>1. /\ s \in ProcState /\ s.pc = "seal" /\ s.agent = cli[p].agent
          /\ s.items = cli[p].items /\ s.left = cli[p].left
      BY <1>0 DEF ProcState
    <3>2. Step(p, s) /\ cli[p].pc = "file"
      BY <1>7, <2>1 DEF ReadFile, At
    <3> HIDE DEF s
    <3>3. InHand(s)
      BY <3>1, <3>2 DEF InHand, Storing, PairInHand, ApiKeyInHand, ShapeInv
    <3>4. CliShape
      BY <3>1, <3>2, <3>3, StepShaped
    <3>5. QED
      BY <1>0, <1>1, <1>7, <3>4 DEF ReadFile
  <2>2. CASE Return(p, cli[p], "STORAGE_WRITE_FAILED")
    BY <1>0, <1>1, <1>7, <2>2, ReturnTyped DEF ReadFile
  <2>3. QED
    BY <1>7, <2>1, <2>2 DEF ReadFile
<1>8. ASSUME NEW p \in Proc, NEW w \in Passphrase, SealFile(p, w) PROVE ShapeInv'
  <2> DEFINE s == [cli[p] EXCEPT !.cached = w]
  <2>1. /\ s \in ProcState /\ s.pc = "seal" /\ s.agent = cli[p].agent /\ s.items = cli[p].items
        /\ s.left = cli[p].left /\ s.seen = cli[p].seen /\ s.seen \in FileState
    BY <1>0, <1>8 DEF ProcState, SealFile, At
  <2>2. /\ PairInHand(s) \/ ApiKeyInHand(s)
    BY <2>1 DEF ShapeInv, InHand, PairInHand, ApiKeyInHand, Storing
  <2>3. Head(s.left) \in Item
    BY <2>2, HeadProper
  <2>4. s.seen.records \in Records
    BY <2>1, ConstantsTyped DEF FileState
  <2>5. Sealed(s.seen, w, Head(s.left)) \in FileState
    BY <2>3, <2>4, WithTyped DEF Sealed, FileState
  <2>6. registered' = registered /\ keychain' = keychain
    BY <1>8 DEF SealFile
  <2>7. CASE Took(p, s, "file") /\ file' = Sealed(s.seen, w, Head(s.left))
    <3> HIDE DEF s
    <3>1. QED
      BY <1>0, <1>1, <2>1, <2>2, <2>5, <2>6, <2>7, TookShape
  <2>8. CASE file' \in {file, Torn} /\ Return(p, s, "STORAGE_WRITE_FAILED") /\ UNCHANGED created
    <3> HIDE DEF s
    <3>1. QED
      BY <1>0, <1>1, <2>1, <2>6, <2>8, ReturnTyped, ConstantsTyped
  <2>9. QED
    BY <1>8, <2>7, <2>8 DEF SealFile
<1>9. ASSUME NEW p \in Proc, CrashInWrite(p) PROVE ShapeInv'
  <2>1. Closed \in ProcState /\ Closed.pc = "closed" /\ Torn \in FileState
    BY ConstantsTyped DEF Closed
  <2>2. QED
    BY <1>0, <1>1, <1>2, <1>9, <2>1 DEF CrashInWrite
<1>10. ASSUME NEW p \in Proc, NEW a \in Account, Resolve(p, a) PROVE ShapeInv'
  <2> DEFINE o == a # ApiAccount /\ created[a[1]] # NULL
  <2> DEFINE s == [Idle(p) EXCEPT !.pc = "lookup", !.account = a, !.owed = o]
  <2>1. Step(p, s) /\ o \in BOOLEAN
    BY <1>10 DEF Resolve
  <2> HIDE DEF o
  <2>2. s \in ProcState /\ s.pc = "lookup" /\ s.account = a
    BY <2>1, IdleShape DEF ProcState
  <2> HIDE DEF s
  <2>3. InHand(s)
    BY <2>2 DEF InHand, Storing
  <2>4. QED
    BY <1>0, <1>1, <1>10, <2>1, <2>2, <2>3, StepShaped DEF Resolve
<1>11. ASSUME NEW p \in Proc, LookInKeychain(p) PROVE ShapeInv'
  <2>1. CASE Return(p, cli[p], "found")
    BY <1>0, <1>1, <1>11, <2>1, ReturnTyped DEF LookInKeychain
  <2>2. CASE \E n \in BOOLEAN : Step(p, [cli[p] EXCEPT !.pc = "open", !.noted = n])
    <3>1. PICK n \in BOOLEAN : Step(p, [cli[p] EXCEPT !.pc = "open", !.noted = n])
      BY <2>2
    <3> DEFINE s == [cli[p] EXCEPT !.pc = "open", !.noted = n]
    <3>2. s \in ProcState /\ s.pc = "open" /\ s.account = cli[p].account /\ cli[p].account \in Account
      BY <1>0, <1>11 DEF ProcState, LookInKeychain, At, ShapeInv
    <3> HIDE DEF s
    <3>3. InHand(s)
      BY <3>2 DEF InHand, Storing
    <3>4. CliShape
      BY <3>1, <3>2, <3>3, StepShaped DEF s
    <3>5. QED
      BY <1>0, <1>1, <1>11, <3>4 DEF LookInKeychain
  <2>3. [cli[p] EXCEPT !.pc = "open"] = [cli[p] EXCEPT !.pc = "open", !.noted = cli[p].noted]
        /\ cli[p].noted \in BOOLEAN
    BY <1>0 DEF ProcState
  <2>4. QED
    BY <1>11, <2>1, <2>2, <2>3 DEF LookInKeychain
<1>12. ASSUME NEW p \in Proc, OpenFile(p) PROVE ShapeInv'
  <2>1. PICK s \in ProcState, code \in {"found", "missing"} : Return(p, s, code)
    <3>1. [cli[p] EXCEPT !.noted = TRUE] \in ProcState
      BY <1>0 DEF ProcState
    <3>2. ASSUME NEW w \in Typed(p)
          PROVE  /\ [cli[p] EXCEPT !.cached = w] \in ProcState
                 /\ [[cli[p] EXCEPT !.cached = w] EXCEPT !.noted = TRUE] \in ProcState
      BY <1>0, <3>2 DEF ProcState, Typed
    <3>3. QED
      BY <1>0, <1>12, <3>1, <3>2 DEF OpenFile
  <2>2. CliShape
    BY <2>1, ReturnTyped
  <2>3. QED
    BY <1>0, <1>1, <1>12, <2>2 DEF OpenFile
<1>13. CASE UNCHANGED vars
  BY <1>13 DEF vars, ShapeInv, TypeOK, InHand, PairInHand, ApiKeyInHand
<1>14. QED
  BY <1>3, <1>4, <1>5, <1>6, <1>7, <1>8, <1>9, <1>10, <1>11, <1>12, <1>13 DEF Next


LEMMA InitShape == Init => ShapeInv
<1> SUFFICES ASSUME Init PROVE ShapeInv
  OBVIOUS
<1>1. \A p \in Proc : cli[p] = Closed
  BY DEF Init
<1>2. Closed.pc = "closed"
  BY DEF Closed
<1>3. TypeOK
  BY ConstantsTyped DEF Init, TypeOK
<1>4. QED
  BY <1>1, <1>2, <1>3 DEF ShapeInv, InHand, Storing

THEOREM ShapeInvariant == Spec => []ShapeInv
<1>1. Init => ShapeInv
  BY InitShape
<1>2. ShapeInv /\ [Next]_vars => ShapeInv'
  BY NextShape
<1>3. QED
  BY <1>1, <1>2, PTL DEF Spec

(* Stores, the file and processes are always of their types: in particular  *)
(* a process only ever has in hand an agent's pair or one provider key.     *)
THEOREM CustodyTypeCorrect == Spec => []TypeOK
<1>1. ShapeInv => TypeOK
  BY DEF ShapeInv
<1>2. QED
  BY <1>1, ShapeInvariant, PTL

----------------------------------------------------------------------------
(* The keychain, however many processes overlap *)

HalfInKeychain(s) ==
  s.pc = "keychain" /\ s.agent \in Agent /\ s.left = << OwnerItem(s.agent) >>
    => keychain[<<s.agent, "identity">>] = s.agent

KeychainKept == \A a \in Agent : created[a] = "keychain" => Holds(keychain, a)

KeychainInv ==
  /\ KeychainKept
  /\ \A p \in Proc : HalfInKeychain(cli[p])

(* Storing an item under its own account disturbs no agent's key. *)
LEMMA WithKeeps ==
  ASSUME NEW r \in Records, NEW i, Proper(i), NEW a \in Agent, NEW x \in {"identity", "owner"},
         r[<<a, x>>] = a
  PROVE  With(r, i)[<<a, x>>] = a
<1>1. <<a, x>> \in Account
  BY DEF Account
<1>2. i \in Item /\ (i.account = <<a, x>> => i.secret = a)
  BY DEF Proper
<1>3. QED
  BY <1>1, <1>2, WithTyped

LEMMA KeychainGrows ==
  ASSUME ShapeInv, [Next]_vars, NEW a \in Agent, NEW x \in {"identity", "owner"}, keychain[<<a, x>>] = a
  PROVE  keychain'[<<a, x>>] = a
<1>1. ASSUME NEW p \in Proc, SetInKeychain(p) PROVE keychain'[<<a, x>>] = a
  <2>1. keychain' \in {keychain, With(keychain, Head(cli[p].left))}
    BY <1>1 DEF SetInKeychain
  <2>2. PairInHand(cli[p]) \/ ApiKeyInHand(cli[p])
    BY <1>1 DEF SetInKeychain, At, ShapeInv, InHand, Storing
  <2>3. Proper(Head(cli[p].left)) /\ keychain \in Records
    BY <2>2, HeadProper DEF ShapeInv, TypeOK
  <2>4. With(keychain, Head(cli[p].left))[<<a, x>>] = a
    BY <2>3, WithKeeps
  <2>5. QED
    BY <2>1, <2>4
<1>2. CASE UNCHANGED keychain
  BY <1>2
<1>3. (\E p \in Proc : SetInKeychain(p)) \/ UNCHANGED keychain
  BY DEF Next, vars, Open, Exit, RunCreateAgent, StoreApiKey, ReadFile, SealFile, CrashInWrite, Resolve,
         LookInKeychain, OpenFile
<1>4. QED
  BY <1>1, <1>2, <1>3

(* Only a store that takes an item changes the history of creates. *)
LEMMA CreatedSteps ==
  ASSUME ShapeInv, [Next]_vars
  PROVE  \/ UNCHANGED created
         \/ \E p \in Proc : SetInKeychain(p) /\ Took(p, cli[p], "keychain")
         \/ \E p \in Proc, w \in Passphrase : SealFile(p, w) /\ Took(p, [cli[p] EXCEPT !.cached = w], "file")
  BY DEF Next, vars, Open, Exit, RunCreateAgent, StoreApiKey, SetInKeychain, ReadFile, SealFile, CrashInWrite,
         Resolve, LookInKeychain, OpenFile


LEMMA TookKeychain ==
  ASSUME ShapeInv, ShapeInv', KeychainInv, NEW p \in Proc, SetInKeychain(p), Took(p, cli[p], "keychain"),
         keychain' = With(keychain, Head(cli[p].left)), [Next]_vars
  PROVE  KeychainInv'
<1> DEFINE s == cli[p]
<1>1. /\ PairInHand(s) \/ ApiKeyInHand(s)
      /\ s \in ProcState /\ s.pc = "keychain" /\ keychain \in Records
  BY DEF SetInKeychain, At, ShapeInv, TypeOK, InHand, Storing
<1>2. Head(s.left) \in Item
  BY <1>1, HeadProper
<1>3. \A a \in Agent : Holds(keychain, a) => Holds(keychain', a)
  BY KeychainGrows DEF Holds
<1>4. \A q \in Proc \ {p} : cli'[q] = cli[q]
  BY StepIsOwn DEF Took, Return, ShapeInv
<1>5. ASSUME NEW q \in Proc \ {p} PROVE HalfInKeychain(cli[q])'
  <2>1. cli'[q] = cli[q] /\ HalfInKeychain(cli[q])
    BY <1>4 DEF KeychainInv
  <2>2. QED
    BY <2>1, KeychainGrows DEF HalfInKeychain
<1> HIDE DEF s
<1>6. s = cli[p]
  BY DEF s
<1>7. CASE /\ cli'[p].pc = "keychain" /\ s.agent \in Agent /\ cli'[p].agent = s.agent
           /\ cli'[p].left = << OwnerItem(s.agent) >> /\ Head(s.left) = IdentityItem(s.agent)
           /\ UNCHANGED created
  <2>1. keychain'[<<s.agent, "identity">>] = s.agent
    BY <1>1, <1>2, <1>6, <1>7, WithTyped DEF IdentityItem
  <2>2. HalfInKeychain(cli[p])'
    BY <1>7, <2>1 DEF HalfInKeychain
  <2>3. KeychainKept'
    BY <1>3, <1>7 DEF KeychainInv, KeychainKept
  <2>4. QED
    BY <1>5, <2>2, <2>3 DEF KeychainInv
<1>8. CASE /\ cli'[p].pc = "idle"
           /\ created' = [a \in Agent |-> IF a = s.agent THEN "keychain" ELSE created[a]]
           /\ s.agent \in Agent => /\ s.left = << OwnerItem(s.agent) >>
                                   /\ Head(s.left) = OwnerItem(s.agent)
  <2>1. HalfInKeychain(cli[p])'
    BY <1>8 DEF HalfInKeychain
  <2>2. ASSUME s.agent \in Agent PROVE Holds(keychain', s.agent)
    <3>1. keychain[<<s.agent, "identity">>] = s.agent
      BY <1>1, <1>6, <1>8, <2>2 DEF KeychainInv, HalfInKeychain
    <3>2. keychain'[<<s.agent, "identity">>] = s.agent
      BY <2>2, <3>1, KeychainGrows
    <3>3. keychain'[<<s.agent, "owner">>] = s.agent
      BY <1>1, <1>2, <1>6, <1>8, <2>2, WithTyped DEF OwnerItem
    <3>4. QED
      BY <3>2, <3>3 DEF Holds
  <2>3. ASSUME NEW a \in Agent, created'[a] = "keychain" PROVE Holds(keychain', a)
    <3>1. CASE a = s.agent
      BY <2>2, <3>1
    <3>2. CASE a # s.agent
      <4>1. created[a] = "keychain"
        BY <1>8, <2>3, <3>2
      <4>2. QED
        BY <1>3, <4>1 DEF KeychainInv, KeychainKept
    <3>3. QED
      BY <3>1, <3>2
  <2>4. KeychainKept'
    BY <2>3 DEF KeychainKept, Holds
  <2>5. QED
    BY <1>5, <2>1, <2>4 DEF KeychainInv
<1>9. QED
  BY <1>1, <1>6, <1>7, <1>8, TookShape

LEMMA NextKeychain ==
  ASSUME ShapeInv, ShapeInv', KeychainInv, [Next]_vars
  PROVE  KeychainInv'
<1>1. ASSUME NEW p \in Proc, Took(p, cli[p], "keychain"), SetInKeychain(p),
             keychain' = With(keychain, Head(cli[p].left))
      PROVE  KeychainInv'
  BY <1>1, TookKeychain
<1>2. ASSUME NEW p \in Proc, cli'[p].pc \in {"closed", "idle", "file", "seal", "lookup", "open"}
             \/ cli'[p].left # << OwnerItem(cli'[p].agent) >> \/ cli'[p] = cli[p],
             \A q \in Proc \ {p} : cli'[q] = cli[q],
             \A a \in Agent : created'[a] = "keychain" => created[a] = "keychain"
      PROVE  KeychainInv'
  <2>1. \A q \in Proc : HalfInKeychain(cli[q])
    BY DEF KeychainInv
  <2>2. ASSUME NEW q \in Proc PROVE HalfInKeychain(cli[q])'
    <3>1. CASE cli'[q] = cli[q]
      BY <2>1, <3>1, KeychainGrows DEF HalfInKeychain
    <3>2. CASE cli'[q] # cli[q]
      BY <1>2, <3>2 DEF HalfInKeychain
    <3>3. QED
      BY <3>1, <3>2
  <2>3. KeychainKept'
    BY <1>2, KeychainGrows DEF KeychainInv, KeychainKept, Holds
  <2>4. QED
    BY <2>2, <2>3 DEF KeychainInv
<1>3. TypeOK /\ \A p \in Proc : cli[p] \in ProcState
  BY DEF ShapeInv, TypeOK
<1>4. ASSUME NEW p \in Proc, NEW s, Step(p, s), UNCHANGED created,
             s.pc \in {"closed", "idle", "file", "seal", "lookup", "open"} \/ s.left # << OwnerItem(s.agent) >>
      PROVE  KeychainInv'
  BY <1>2, <1>3, <1>4, StepIsOwn
<1>5. ASSUME NEW p \in Proc, Open(p) \/ Exit(p) \/ CrashInWrite(p) PROVE KeychainInv'
  <2>1. Closed.pc = "closed" /\ [Closed EXCEPT !.pc = "idle"].pc = "idle"
    BY DEF Closed
  <2>2. QED
    BY <1>4, <1>5, <2>1 DEF Open, Exit, CrashInWrite
<1>6. ASSUME NEW p \in Proc, NEW a \in Agent, RunCreateAgent(p, a) PROVE KeychainInv'
  <2> DEFINE s == [Idle(p) EXCEPT !.pc = "keychain", !.agent = a, !.items = Pair(a), !.left = Pair(a)]
  <2>1. s.left = Pair(a) /\ s.agent = a
    BY IdleShape DEF ProcState
  <2>2. Step(p, s) /\ UNCHANGED created
    BY <1>6 DEF RunCreateAgent
  <2> HIDE DEF s
  <2>3. s.left # << OwnerItem(s.agent) >>
    BY <2>1, PairShape, SingleShape
  <2>4. QED
    BY <1>4, <2>2, <2>3
<1>7. ASSUME NEW p \in Proc, NEW k \in ApiKey, StoreApiKey(p, k) PROVE KeychainInv'
  <2> DEFINE i == << ApiItem(k) >>
  <2> DEFINE s == [Idle(p) EXCEPT !.pc = "keychain", !.items = i, !.left = i]
  <2>1. s.left = i /\ s.agent = NULL
    BY IdleShape DEF ProcState
  <2>2. Step(p, s) /\ UNCHANGED created
    BY <1>7 DEF StoreApiKey, ApiItem
  <2> HIDE DEF s
  <2>3. Head(i) = ApiItem(k) /\ Head(<< OwnerItem(NULL) >>) = OwnerItem(NULL)
    BY SingleShape
  <2>4. ApiItem(k).account # OwnerItem(NULL).account
    BY DEF ApiItem, OwnerItem, ApiAccount
  <2>5. QED
    BY <1>4, <2>1, <2>2, <2>3, <2>4
<1>8. ASSUME NEW p \in Proc, SetInKeychain(p) PROVE KeychainInv'
  <2> DEFINE s == [cli[p] EXCEPT !.pc = "file", !.left = cli[p].items]
  <2>1. s.pc = "file"
    BY <1>3 DEF ProcState
  <2>2. CASE Step(p, s) /\ UNCHANGED created
    <3> HIDE DEF s
    <3>1. QED
      BY <1>4, <2>1, <2>2
  <2>3. CASE keychain' = With(keychain, Head(cli[p].left)) /\ Took(p, cli[p], "keychain")
    BY <1>1, <1>8, <2>3
  <2>4. QED
    BY <1>8, <2>2, <2>3 DEF SetInKeychain
<1>9. ASSUME NEW p \in Proc, NEW s \in ProcState, NEW code \in {"ok", "found", "missing", "STORAGE_WRITE_FAILED"},
             Return(p, s, code), UNCHANGED created
      PROVE  KeychainInv'
  <2>1. Step(p, ReturnOf(s, code))
    BY <1>9 DEF Return, ReturnOf
  <2>2. QED
    BY <1>4, <1>9, <2>1, ReturnShape
<1>10. ASSUME NEW p \in Proc, ReadFile(p) PROVE KeychainInv'
  <2>1. [cli[p] EXCEPT !.pc = "seal", !.seen = file].pc = "seal"
    BY <1>3 DEF ProcState
  <2>2. QED
    BY <1>3, <1>4, <1>9, <1>10, <2>1 DEF ReadFile
<1>11. ASSUME NEW p \in Proc, NEW w \in Passphrase, SealFile(p, w) PROVE KeychainInv'
  <2> DEFINE s == [cli[p] EXCEPT !.cached = w]
  <2>1. /\ s \in ProcState /\ s.pc = "seal" /\ s.agent = cli[p].agent /\ s.items = cli[p].items
        /\ s.left = cli[p].left /\ cli[p].pc = "seal"
    BY <1>3, <1>11 DEF ProcState, SealFile, At
  <2>2. PairInHand(s) \/ ApiKeyInHand(s)
    BY <2>1 DEF ShapeInv, InHand, PairInHand, ApiKeyInHand, Storing
  <2>3. CASE Return(p, s, "STORAGE_WRITE_FAILED") /\ UNCHANGED created
    <3> HIDE DEF s
    <3>1. QED
      BY <1>9, <2>1, <2>3
  <2>4. CASE Took(p, s, "file")
    <3>1. \A q \in Proc \ {p} : cli'[q] = cli[q]
      BY <1>3, <2>4, StepIsOwn DEF Took, Return
    <3> HIDE DEF s
    <3>2. cli'[p].pc \in {"file", "idle"} /\ \A a \in Agent : created'[a] \in {"file", created[a]}
      BY <2>1, <2>2, <2>4, TookShape
    <3>3. QED
      BY <1>2, <3>1, <3>2
  <2>5. QED
    BY <1>11, <2>3, <2>4 DEF SealFile
<1>12. ASSUME NEW p \in Proc, NEW a \in Account, Resolve(p, a) PROVE KeychainInv'
  <2> DEFINE o == a # ApiAccount /\ created[a[1]] # NULL
  <2> DEFINE s == [Idle(p) EXCEPT !.pc = "lookup", !.account = a, !.owed = o]
  <2>1. Step(p, s) /\ UNCHANGED created
    BY <1>12 DEF Resolve
  <2> HIDE DEF o
  <2>2. s.pc = "lookup"
    BY IdleShape DEF ProcState
  <2> HIDE DEF s
  <2>3. QED
    BY <1>4, <2>1, <2>2
<1>13. ASSUME NEW p \in Proc, LookInKeychain(p) PROVE KeychainInv'
  <2>1. /\ [cli[p] EXCEPT !.pc = "open"].pc = "open"
        /\ [cli[p] EXCEPT !.pc = "open", !.noted = TRUE].pc = "open"
    BY <1>3 DEF ProcState
  <2>2. QED
    BY <1>3, <1>4, <1>9, <1>13, <2>1 DEF LookInKeychain
<1>14. ASSUME NEW p \in Proc, OpenFile(p) PROVE KeychainInv'
  <2>1. PICK s \in ProcState, code \in {"found", "missing"} : Return(p, s, code)
    <3>1. [cli[p] EXCEPT !.noted = TRUE] \in ProcState
      BY <1>3 DEF ProcState
    <3>2. ASSUME NEW w \in Typed(p)
          PROVE  /\ [cli[p] EXCEPT !.cached = w] \in ProcState
                 /\ [[cli[p] EXCEPT !.cached = w] EXCEPT !.noted = TRUE] \in ProcState
      BY <1>3, <3>2 DEF ProcState, Typed
    <3>3. QED
      BY <1>3, <1>14, <3>1, <3>2 DEF OpenFile
  <2>2. QED
    BY <1>9, <1>14, <2>1 DEF OpenFile
<1>15. CASE UNCHANGED vars
  BY <1>15 DEF vars, KeychainInv, KeychainKept, HalfInKeychain
<1>16. QED
  BY <1>5, <1>6, <1>7, <1>8, <1>10, <1>11, <1>12, <1>13, <1>14, <1>15 DEF Next

LEMMA InitKeychain == Init => KeychainInv
<1> SUFFICES ASSUME Init PROVE KeychainInv
  OBVIOUS
<1>1. \A a \in Agent : created[a] # "keychain"
  BY CustodyAssumption DEF Init
<1>2. \A p \in Proc : cli[p].pc = "closed"
  BY DEF Init, Closed
<1>3. QED
  BY <1>1, <1>2 DEF KeychainInv, KeychainKept, HalfInKeychain

(* A pair the keychain took stays there, whatever any process stores later  *)
(* and however many processes overlap.                                      *)
THEOREM KeychainKeepsPairs == Spec => []KeychainKept
<1>1. Init => KeychainInv
  BY InitKeychain
<1>2. ShapeInv /\ ShapeInv' /\ KeychainInv /\ [Next]_vars => KeychainInv'
  BY NextKeychain
<1>3. KeychainInv => KeychainKept
  BY DEF KeychainInv
<1>4. QED
  BY <1>1, <1>2, <1>3, ShapeInvariant, PTL DEF Spec

----------------------------------------------------------------------------
(* The file, when no two processes overlap *)

OneOpen == \A p, q \in Proc : ~ At(p, "closed") /\ ~ At(q, "closed") => p = q

FileKept(f, c) == \A a \in Agent : c[a] = "file" => f.is = "torn" \/ Holds(f.records, a)

SeenIsCurrent(s, f) == s.pc = "seal" => f.is # "torn" /\ s.seen = f

HalfInFile(s, f) ==
  s.pc \in {"file", "seal"} /\ s.agent \in Agent /\ s.left = << OwnerItem(s.agent) >>
    => f.is = "torn" \/ f.records[<<s.agent, "identity">>] = s.agent

OwedIsCreated(s, c) ==
  s.owed /\ s.pc \in {"lookup", "open"} =>
    \E a \in Agent, x \in {"identity", "owner"} :
      /\ s.account = <<a, x>> /\ c[a] # NULL
      /\ s.pc = "open" /\ ~ s.noted => c[a] = "file"

Loud(s) == s.owed /\ s.result = "missing" => s.noted

Facts(s, f, c) == SeenIsCurrent(s, f) /\ HalfInFile(s, f) /\ OwedIsCreated(s, c) /\ Loud(s)

AloneInv ==
  /\ OneOpen
  /\ FileKept(file, created)
  /\ \A p \in Proc : Facts(cli[p], file, created)

(* With one process open, what its step keeps true of it is kept true.      *)
LEMMA AloneStep ==
  ASSUME AloneInv, NEW p \in Proc, \A q \in Proc \ {p} : cli'[q] = cli[q] /\ cli[q].pc = "closed",
         FileKept(file', created'), Facts(cli'[p], file', created')
  PROVE  AloneInv'
<1>1. \A q \in Proc \ {p} : Facts(cli'[q], file', created')
  BY DEF AloneInv, Facts, SeenIsCurrent, HalfInFile, OwedIsCreated, Loud
<1>2. OneOpen'
  BY DEF OneOpen, At
<1>3. \A q \in Proc : Facts(cli'[q], file', created')
  BY <1>1
<1>4. QED
  BY <1>2, <1>3 DEF AloneInv

LEMMA OthersClosed ==
  ASSUME AloneInv, TypeOK, NEW p \in Proc, ~ At(p, "closed") \/ Open(p), MaxOpen <= 1
  PROVE  \A q \in Proc \ {p} : cli[q].pc = "closed"
<1>1. CASE ~ At(p, "closed")
  BY <1>1 DEF AloneInv, OneOpen, At
<1>2. CASE Open(p)
  <2> DEFINE S == {q \in Proc : ~ At(q, "closed")}
  <2>1. Cardinality(S) < MaxOpen
    BY <1>2 DEF Open
  <2>2. ASSUME NEW q \in S PROVE FALSE
    <3>1. S = {q}
      BY DEF AloneInv, OneOpen
    <3>2. Cardinality(S) = 1
      BY <3>1, FS_Singleton
    <3>3. QED
      BY <2>1, <3>2, CustodyAssumption
  <2>3. QED
    BY <2>2 DEF At
<1>3. QED
  BY <1>1, <1>2

LEMMA SealedShape ==
  ASSUME NEW f \in FileState, NEW w \in Passphrase, NEW i \in Item
  PROVE  /\ f.records \in Records
         /\ Sealed(f, w, i).is = "sealed" /\ Sealed(f, w, i).pass = w
         /\ Sealed(f, w, i).records = With(f.records, i)
<1>1. f.records \in Records
  BY ConstantsTyped DEF FileState
<1>2. QED
  BY <1>1 DEF Sealed

LEMMA FileKeptWith ==
  ASSUME NEW f \in FileState, NEW w \in Passphrase, NEW i \in Item, Proper(i), NEW c,
         FileKept(f, c), f.is # "torn"
  PROVE  FileKept(Sealed(f, w, i), c)
<1>1. ASSUME NEW a \in Agent, Holds(f.records, a) PROVE Holds(With(f.records, i), a)
  <2>1. f.records[<<a, "identity">>] = a /\ f.records[<<a, "owner">>] = a
    BY <1>1 DEF Holds
  <2>2. With(f.records, i)[<<a, "identity">>] = a
    BY <2>1, SealedShape, WithKeeps
  <2>3. With(f.records, i)[<<a, "owner">>] = a
    BY <2>1, SealedShape, WithKeeps
  <2>4. QED
    BY <2>2, <2>3 DEF Holds
<1>2. QED
  BY <1>1, SealedShape DEF FileKept

LEMMA TookFile ==
  ASSUME ShapeInv, AloneInv, MaxOpen <= 1, NEW p \in Proc, NEW w \in Passphrase, SealFile(p, w),
         NEW s \in ProcState, s = [cli[p] EXCEPT !.cached = w], Took(p, s, "file"),
         file' = Sealed(s.seen, w, Head(s.left)), Unlocks(s.seen, w)
  PROVE  AloneInv'
<1>1. cli[p] \in ProcState /\ cli[p].pc = "seal" /\ file \in FileState
  BY DEF ShapeInv, TypeOK, SealFile, At
<1>2. /\ s.pc = "seal" /\ s.agent = cli[p].agent /\ s.items = cli[p].items
      /\ s.left = cli[p].left /\ s.seen = cli[p].seen /\ s.owed = cli[p].owed /\ s.noted = cli[p].noted
      /\ s.result = cli[p].result
  BY <1>1 DEF ProcState
<1>3. PairInHand(s) \/ ApiKeyInHand(s)
  BY <1>1, <1>2 DEF ShapeInv, InHand, PairInHand, ApiKeyInHand, Storing
<1>4. file.is # "torn" /\ s.seen = file /\ Facts(cli[p], file, created)
  BY <1>1, <1>2 DEF AloneInv, Facts, SeenIsCurrent
<1>5. Proper(Head(s.left)) /\ Head(s.left) \in Item
  BY <1>3, HeadProper
<1>6. /\ file'.is = "sealed" /\ file'.records = With(file.records, Head(s.left))
      /\ file.records \in Records
  BY <1>1, <1>4, <1>5, SealedShape
<1>7. FileKept(file', created)
  BY <1>1, <1>4, <1>5, FileKeptWith DEF AloneInv
<1>8. \A q \in Proc \ {p} : cli'[q] = cli[q] /\ cli[q].pc = "closed"
  <2>1. \A q \in Proc \ {p} : cli'[q] = cli[q]
    BY StepIsOwn DEF Took, Return, ShapeInv
  <2>2. QED
    BY <1>1, <2>1, OthersClosed DEF At, ShapeInv
<1>9. CASE /\ cli'[p].pc = "file" /\ s.agent \in Agent /\ cli'[p].agent = s.agent
           /\ cli'[p].left = << OwnerItem(s.agent) >> /\ Head(s.left) = IdentityItem(s.agent)
           /\ UNCHANGED created /\ cli'[p].result = s.result
           /\ cli'[p].owed = s.owed /\ cli'[p].noted = s.noted
  <2>1. file'.records[<<s.agent, "identity">>] = s.agent
    <3>1. With(file.records, Head(s.left))[Head(s.left).account] = Head(s.left).secret
      BY <1>5, <1>6, WithTyped
    <3>2. QED
      BY <1>6, <1>9, <3>1 DEF IdentityItem
  <2>2. Facts(cli'[p], file', created')
    BY <1>2, <1>4, <1>9, <2>1 DEF Facts, SeenIsCurrent, HalfInFile, OwedIsCreated, Loud
  <2>3. QED
    BY <1>7, <1>8, <1>9, <2>2, AloneStep
<1>10. CASE /\ cli'[p].pc = "idle" /\ cli'[p].result = "ok"
            /\ created' = [a \in Agent |-> IF a = s.agent THEN "file" ELSE created[a]]
            /\ s.agent \in Agent => /\ s.left = << OwnerItem(s.agent) >>
                                    /\ Head(s.left) = OwnerItem(s.agent)
  <2>1. Facts(cli'[p], file', created')
    BY <1>10 DEF Facts, SeenIsCurrent, HalfInFile, OwedIsCreated, Loud
  <2>2. ASSUME s.agent \in Agent PROVE Holds(file'.records, s.agent)
    <3>1. file.records[<<s.agent, "identity">>] = s.agent
      BY <1>2, <1>4, <1>10, <2>2 DEF Facts, HalfInFile
    <3>2. file'.records[<<s.agent, "identity">>] = s.agent
      <4>1. With(file.records, Head(s.left))[<<s.agent, "identity">>] = s.agent
        BY <1>5, <1>6, <2>2, <3>1, WithKeeps
      <4>2. QED
        BY <1>6, <4>1
    <3>3. file'.records[<<s.agent, "owner">>] = s.agent
      BY <1>5, <1>6, <1>10, <2>2, WithTyped DEF OwnerItem
    <3>4. QED
      BY <3>2, <3>3 DEF Holds
  <2>3. FileKept(file', created')
    BY <1>7, <1>10, <2>2 DEF FileKept
  <2>4. QED
    BY <1>8, <2>1, <2>3, AloneStep
<1>11. QED
  BY <1>2, <1>3, <1>9, <1>10, TookShape


LEMMA NextAlone ==
  ASSUME ShapeInv, KeychainInv, AloneInv, [Next]_vars, MaxOpen <= 1
  PROVE  AloneInv'
<1> USE DEF SeenIsCurrent, HalfInFile, Loud
<1>1. /\ TypeOK /\ (\A p \in Proc : cli[p] \in ProcState /\ Facts(cli[p], file, created))
      /\ FileKept(file, created) /\ file \in FileState /\ created \in [Agent -> {"keychain", "file", NULL}]
  BY DEF ShapeInv, TypeOK, AloneInv
<1>2. ASSUME NEW p \in Proc, NEW s, Step(p, s), ~ At(p, "closed") \/ Open(p),
             FileKept(file', created'), Facts(s, file', created')
      PROVE  AloneInv'
  BY <1>1, <1>2, AloneStep, OthersClosed, StepIsOwn
<1>3. ASSUME NEW p \in Proc, NEW s \in ProcState, s.owed = cli[p].owed, s.noted \in {cli[p].noted, TRUE},
             NEW code \in {"ok", "found", "missing", "STORAGE_WRITE_FAILED"},
             code = "missing" /\ s.owed => s.noted, Return(p, s, code), ~ At(p, "closed"),
             FileKept(file', created')
      PROVE  AloneInv'
  <2>1. Step(p, ReturnOf(s, code))
    BY <1>3 DEF Return, ReturnOf
  <2>2. Facts(ReturnOf(s, code), file', created')
    BY <1>3, ReturnShape DEF Facts, OwedIsCreated
  <2>3. QED
    BY <1>2, <1>3, <2>1, <2>2
<1>4. ASSUME NEW p \in Proc, Open(p) PROVE AloneInv'
  <2> DEFINE s == [Closed EXCEPT !.pc = "idle"]
  <2>1. Step(p, s) /\ UNCHANGED <<file, created>>
    BY <1>4 DEF Open
  <2>2. s.pc = "idle" /\ s.owed = FALSE
    BY DEF Closed
  <2> HIDE DEF s
  <2>3. Facts(s, file', created')
    BY <2>2 DEF Facts, OwedIsCreated
  <2>4. QED
    BY <1>1, <1>2, <1>4, <2>1, <2>3
<1>5. ASSUME NEW p \in Proc, Exit(p) \/ CrashInWrite(p) PROVE AloneInv'
  <2>1. Facts(Closed, file', created')
    BY DEF Closed, Facts, OwedIsCreated
  <2>2. Step(p, Closed) /\ ~ At(p, "closed") /\ created' = created /\ file' \in {file, Torn}
    BY <1>5 DEF Exit, CrashInWrite, At
  <2>3. FileKept(file', created')
    BY <1>1, <2>2 DEF FileKept, Torn
  <2>4. QED
    BY <1>2, <2>1, <2>2, <2>3
<1>6. ASSUME NEW p \in Proc, NEW a \in Agent, RunCreateAgent(p, a) PROVE AloneInv'
  <2> DEFINE s == [Idle(p) EXCEPT !.pc = "keychain", !.agent = a, !.items = Pair(a), !.left = Pair(a)]
  <2>1. s.pc = "keychain" /\ s.owed = FALSE
    BY <1>1, IdleShape DEF ProcState
  <2>2. Step(p, s) /\ UNCHANGED <<file, created>> /\ ~ At(p, "closed")
    BY <1>6 DEF RunCreateAgent, At
  <2> HIDE DEF s
  <2>3. Facts(s, file', created')
    BY <2>1 DEF Facts, OwedIsCreated
  <2>4. QED
    BY <1>1, <1>2, <2>2, <2>3
<1>7. ASSUME NEW p \in Proc, NEW k \in ApiKey, StoreApiKey(p, k) PROVE AloneInv'
  <2> DEFINE i == << ApiItem(k) >>
  <2> DEFINE s == [Idle(p) EXCEPT !.pc = "keychain", !.items = i, !.left = i]
  <2>1. s.pc = "keychain" /\ s.owed = FALSE
    BY <1>1, IdleShape DEF ProcState
  <2>2. Step(p, s) /\ UNCHANGED <<file, created>> /\ ~ At(p, "closed")
    BY <1>7 DEF StoreApiKey, At, ApiItem
  <2> HIDE DEF s
  <2>3. Facts(s, file', created')
    BY <2>1 DEF Facts, OwedIsCreated
  <2>4. QED
    BY <1>1, <1>2, <2>2, <2>3
<1>8. ASSUME NEW p \in Proc, SetInKeychain(p) PROVE AloneInv'
  <2>1. /\ PairInHand(cli[p]) \/ ApiKeyInHand(cli[p])
        /\ ~ At(p, "closed") /\ file' = file
    BY <1>8 DEF SetInKeychain, At, ShapeInv, InHand, Storing
  <2>2. CASE Took(p, cli[p], "keychain")
    <3>1. \A q \in Proc \ {p} : cli'[q] = cli[q] /\ cli[q].pc = "closed"
      <4>1. \A q \in Proc \ {p} : cli'[q] = cli[q]
        BY <1>1, <2>2, StepIsOwn DEF Took, Return
      <4>2. QED
        BY <1>1, <2>1, <4>1, OthersClosed
    <3>2. /\ cli'[p].pc \in {"keychain", "idle"} /\ cli'[p].result \in {"ok", cli[p].result}
          /\ cli'[p].owed = cli[p].owed /\ cli'[p].noted = cli[p].noted
          /\ \A a \in Agent : created'[a] \in {"keychain", created[a]}
      BY <1>1, <2>1, <2>2, TookShape
    <3>3. Facts(cli'[p], file', created')
      BY <1>1, <3>2 DEF Facts, OwedIsCreated
    <3>4. FileKept(file', created')
      BY <1>1, <2>1, <3>2 DEF FileKept
    <3>5. QED
      BY <3>1, <3>3, <3>4, AloneStep
  <2>3. CASE Step(p, [cli[p] EXCEPT !.pc = "file", !.left = cli[p].items]) /\ UNCHANGED created
    <3> DEFINE s == [cli[p] EXCEPT !.pc = "file", !.left = cli[p].items]
    <3>1. /\ s.pc = "file" /\ s.agent = cli[p].agent /\ s.left = cli[p].items /\ s.owed = cli[p].owed
          /\ s.noted = cli[p].noted /\ s.result = cli[p].result
      BY <1>1 DEF ProcState
    <3>2. Step(p, s)
      BY <2>3
    <3> HIDE DEF s
    <3>3. s.agent \in Agent => s.left # << OwnerItem(s.agent) >>
      <4>1. SUFFICES ASSUME s.agent \in Agent PROVE Pair(s.agent) # << OwnerItem(s.agent) >>
        BY <2>1, <3>1, CustodyAssumption DEF PairInHand, ApiKeyInHand
      <4>2. QED
        BY PairShape, SingleShape
    <3>4. Facts(s, file', created')
      BY <1>1, <3>1, <3>3 DEF Facts, OwedIsCreated
    <3>5. QED
      BY <1>1, <1>2, <2>1, <2>3, <3>2, <3>4
  <2>4. QED
    BY <1>8, <2>2, <2>3 DEF SetInKeychain
<1>9. ASSUME NEW p \in Proc, ReadFile(p) PROVE AloneInv'
  <2>1. ~ At(p, "closed") /\ UNCHANGED <<file, created>> /\ cli[p].pc = "file"
    BY <1>9 DEF ReadFile, At
  <2>2. CASE file.is # "torn" /\ Step(p, [cli[p] EXCEPT !.pc = "seal", !.seen = file])
    <3> DEFINE s == [cli[p] EXCEPT !.pc = "seal", !.seen = file]
    <3>1. /\ s.pc = "seal" /\ s.seen = file /\ s.agent = cli[p].agent /\ s.left = cli[p].left
          /\ s.owed = cli[p].owed /\ s.noted = cli[p].noted /\ s.result = cli[p].result
      BY <1>1 DEF ProcState
    <3>2. Step(p, s)
      BY <2>2
    <3> HIDE DEF s
    <3>3. Facts(s, file', created')
      BY <1>1, <2>1, <2>2, <3>1 DEF Facts, OwedIsCreated
    <3>4. QED
      BY <1>1, <1>2, <2>1, <3>2, <3>3
  <2>3. CASE Return(p, cli[p], "STORAGE_WRITE_FAILED")
    BY <1>1, <1>3, <2>1, <2>3
  <2>4. QED
    BY <1>9, <2>2, <2>3 DEF ReadFile
<1>10. ASSUME NEW p \in Proc, NEW w \in Passphrase, SealFile(p, w) PROVE AloneInv'
  <2> DEFINE s == [cli[p] EXCEPT !.cached = w]
  <2>1. s \in ProcState /\ s.owed = cli[p].owed /\ s.noted = cli[p].noted /\ ~ At(p, "closed")
    BY <1>1, <1>10 DEF ProcState, SealFile, At
  <2>2. CASE /\ Unlocks(s.seen, w) /\ file' = Sealed(s.seen, w, Head(s.left)) /\ Took(p, s, "file")
    <3>1. s = [cli[p] EXCEPT !.cached = w]
      OBVIOUS
    <3> HIDE DEF s
    <3>2. QED
      BY <1>10, <2>1, <2>2, <3>1, TookFile
  <2>3. CASE file' \in {file, Torn} /\ Return(p, s, "STORAGE_WRITE_FAILED") /\ UNCHANGED created
    <3>1. FileKept(file', created')
      BY <1>1, <2>3 DEF FileKept, Torn
    <3> HIDE DEF s
    <3>2. QED
      BY <1>3, <2>1, <2>3, <3>1
  <2>4. QED
    BY <1>10, <2>2, <2>3 DEF SealFile
<1>11. ASSUME NEW p \in Proc, NEW a \in Account, Resolve(p, a) PROVE AloneInv'
  <2> DEFINE o == a # ApiAccount /\ created[a[1]] # NULL
  <2> DEFINE s == [Idle(p) EXCEPT !.pc = "lookup", !.account = a, !.owed = o]
  <2>1. Step(p, s) /\ UNCHANGED <<file, created>> /\ ~ At(p, "closed")
    BY <1>11 DEF Resolve, At
  <2>2. o => \E b \in Agent, x \in {"identity", "owner"} : a = <<b, x>> /\ created[b] # NULL
    BY DEF Account
  <2> HIDE DEF o
  <2>3. s.pc = "lookup" /\ s.account = a /\ s.owed = o /\ s.result = "none"
    BY <1>1, IdleShape DEF ProcState
  <2> HIDE DEF s
  <2>4. Facts(s, file', created')
    BY <2>1, <2>2, <2>3 DEF Facts, OwedIsCreated
  <2>5. QED
    BY <1>1, <1>2, <2>1, <2>4
<1>12. ASSUME NEW p \in Proc, LookInKeychain(p) PROVE AloneInv'
  <2>1. ~ At(p, "closed") /\ UNCHANGED <<file, created>> /\ cli[p].pc = "lookup"
    BY <1>12 DEF LookInKeychain, At
  <2>2. CASE Return(p, cli[p], "found")
    BY <1>1, <1>3, <2>1, <2>2
  <2>3. ASSUME NEW n \in BOOLEAN, Step(p, [cli[p] EXCEPT !.pc = "open", !.noted = n]),
               n \/ (keychain[cli[p].account] = NULL /\ n = cli[p].noted)
        PROVE  AloneInv'
    <3> DEFINE s == [cli[p] EXCEPT !.pc = "open", !.noted = n]
    <3>1. /\ s.pc = "open" /\ s.account = cli[p].account /\ s.owed = cli[p].owed /\ s.noted = n
          /\ s.result = cli[p].result
      BY <1>1 DEF ProcState
    <3>2. Step(p, s)
      BY <2>3
    <3> HIDE DEF s
    <3>3. ASSUME NEW a \in Agent, NEW x \in {"identity", "owner"}, cli[p].account = <<a, x>>, created[a] # NULL,
                 ~ n
          PROVE  created[a] = "file"
      <4>1. keychain[<<a, x>>] = NULL /\ a # NULL
        BY <2>3, <3>3, CustodyAssumption
      <4>2. ~ Holds(keychain, a)
        BY <4>1 DEF Holds
      <4>3. QED
        BY <1>1, <3>3, <4>2 DEF KeychainInv, KeychainKept
    <3>4. OwedIsCreated(s, created)
      <4>1. CASE cli[p].owed
        <5>1. PICK a \in Agent, x \in {"identity", "owner"} : cli[p].account = <<a, x>> /\ created[a] # NULL
          BY <1>1, <2>1, <4>1 DEF Facts, OwedIsCreated
        <5>2. s.pc = "open" /\ ~ s.noted => created[a] = "file"
          BY <3>1, <3>3, <5>1
        <5>3. QED
          BY <3>1, <5>1, <5>2 DEF OwedIsCreated
      <4>2. CASE ~ cli[p].owed
        BY <3>1, <4>2 DEF OwedIsCreated
      <4>3. QED
        BY <4>1, <4>2
    <3>5. Facts(s, file', created')
      BY <1>1, <2>1, <2>3, <3>1, <3>4 DEF Facts
    <3>6. QED
      BY <1>1, <1>2, <2>1, <3>2, <3>5
  <2>4. [cli[p] EXCEPT !.pc = "open"] = [cli[p] EXCEPT !.pc = "open", !.noted = cli[p].noted]
        /\ cli[p].noted \in BOOLEAN
    BY <1>1 DEF ProcState
  <2>5. QED
    BY <1>12, <2>2, <2>3, <2>4 DEF LookInKeychain
<1>13. ASSUME NEW p \in Proc, OpenFile(p) PROVE AloneInv'
  <2>1. ~ At(p, "closed") /\ UNCHANGED <<file, created>> /\ cli[p].pc = "open" /\ FileKept(file', created')
    BY <1>1, <1>13 DEF OpenFile, At
  <2>2. ASSUME cli[p].owed, ~ cli[p].noted
        PROVE  \E a \in Agent, x \in {"identity", "owner"} :
                 cli[p].account = <<a, x>> /\ (file.is = "torn" \/ file.records[<<a, x>>] = a)
    <3>1. PICK a \in Agent, x \in {"identity", "owner"} : cli[p].account = <<a, x>> /\ created[a] = "file"
      BY <1>1, <2>1, <2>2 DEF Facts, OwedIsCreated
    <3>2. file.is = "torn" \/ file.records[<<a, x>>] = a
      BY <1>1, <3>1 DEF FileKept, Holds
    <3>3. QED
      BY <3>1, <3>2
  <2>3. CASE file.is = "absent" /\ Return(p, cli[p], "missing")
    <3>1. file.records = NoRecords
      BY <1>1, <2>3, ConstantsTyped DEF FileState
    <3>2. \A a \in Agent, x \in {"identity", "owner"} : NoRecords[<<a, x>>] # a
      BY CustodyAssumption DEF NoRecords, Account
    <3>3. cli[p].owed => cli[p].noted
      BY <2>2, <2>3, <3>1, <3>2
    <3>4. QED
      BY <1>1, <1>3, <2>1, <2>3, <3>3
  <2>4. CASE file.is # "absent" /\ Return(p, [cli[p] EXCEPT !.noted = TRUE], "missing")
    <3> DEFINE s == [cli[p] EXCEPT !.noted = TRUE]
    <3>1. s \in ProcState /\ s.owed = cli[p].owed /\ s.noted = TRUE
      BY <1>1 DEF ProcState
    <3>2. Return(p, s, "missing")
      BY <2>4
    <3> HIDE DEF s
    <3>3. QED
      BY <1>3, <2>1, <3>1, <3>2
  <2>5. ASSUME NEW w \in Typed(p), file.is = "sealed",
               LET s == [cli[p] EXCEPT !.cached = w] IN
                 IF ~ Unlocks(file, w) THEN Return(p, [s EXCEPT !.noted = TRUE], "missing")
                 ELSE Return(p, s, IF file.records[s.account] # NULL THEN "found" ELSE "missing")
        PROVE  AloneInv'
    <3> DEFINE s == [cli[p] EXCEPT !.cached = w]
    <3>1. s \in ProcState /\ s.owed = cli[p].owed /\ s.noted = cli[p].noted /\ s.account = cli[p].account
      BY <1>1 DEF ProcState, Typed
    <3>2. CASE Unlocks(file, w)
      <4> DEFINE code == IF file.records[s.account] # NULL THEN "found" ELSE "missing"
      <4>1. Return(p, s, code) /\ code \in {"found", "missing"}
        BY <2>5, <3>2
      <4> HIDE DEF s
      <4>2. code = "missing" /\ s.owed => s.noted
        BY <2>2, <2>5, <3>1, CustodyAssumption
      <4> HIDE DEF code
      <4>3. QED
        BY <1>3, <2>1, <3>1, <4>1, <4>2
    <3>3. CASE ~ Unlocks(file, w)
      <4> DEFINE t == [s EXCEPT !.noted = TRUE]
      <4>1. Return(p, t, "missing")
        BY <2>5, <3>3
      <4> HIDE DEF s
      <4>2. t \in ProcState /\ t.owed = cli[p].owed /\ t.noted = TRUE
        BY <3>1 DEF ProcState
      <4> HIDE DEF t
      <4>3. QED
        BY <1>3, <2>1, <4>1, <4>2
    <3>4. QED
      BY <3>2, <3>3
  <2>6. QED
    BY <1>13, <2>3, <2>4, <2>5 DEF OpenFile
<1>14. CASE UNCHANGED vars
  BY <1>14 DEF vars, AloneInv, OneOpen, At
<1>15. QED
  BY <1>4, <1>5, <1>6, <1>7, <1>8, <1>9, <1>10, <1>11, <1>12, <1>13, <1>14 DEF Next


LEMMA InitAlone == Init => AloneInv
<1> SUFFICES ASSUME Init PROVE AloneInv
  OBVIOUS
<1>1. \A p \in Proc : cli[p] = Closed
  BY DEF Init
<1>2. \A p \in Proc : Facts(cli[p], file, created)
  BY <1>1 DEF Closed, Facts, SeenIsCurrent, HalfInFile, OwedIsCreated, Loud
<1>3. FileKept(file, created)
  BY CustodyAssumption DEF Init, FileKept
<1>4. OneOpen
  BY <1>1 DEF OneOpen, At, Closed
<1>5. QED
  BY <1>2, <1>3, <1>4 DEF AloneInv

THEOREM AloneInvariant == ASSUME MaxOpen <= 1 PROVE Spec => [](ShapeInv /\ KeychainInv /\ AloneInv)
<1> DEFINE All == ShapeInv /\ KeychainInv /\ AloneInv
<1>1. Init => All
  BY InitShape, InitKeychain, InitAlone
<1>2. All /\ [Next]_vars => All'
  BY NextShape, NextKeychain, NextAlone
<1>3. QED
  BY <1>1, <1>2, PTL DEF Spec

(* When no two processes overlap, a create that reported success left both  *)
(* keys in one store, and they stay there.                                  *)
THEOREM KeysKept == ASSUME MaxOpen <= 1 PROVE Spec => []CreatedKeysKept
<1>1. KeychainInv /\ AloneInv => CreatedKeysKept
  BY DEF KeychainInv, KeychainKept, AloneInv, FileKept, CreatedKeysKept
<1>2. QED
  BY <1>1, AloneInvariant, PTL

(* When no two processes overlap, a created agent's key that cannot be      *)
(* found is never missing without a note.                                   *)
THEOREM MissesAreLoud == ASSUME MaxOpen <= 1 PROVE Spec => []MissingIsLoud
<1>1. AloneInv => MissingIsLoud
  BY DEF AloneInv, Facts, Loud, MissingIsLoud
<1>2. QED
  BY <1>1, AloneInvariant, PTL

LEMMA NextPassphrase ==
  ASSUME ShapeInv, AloneInv, [Next]_vars, file.is = "sealed", file'.is = "sealed"
  PROVE  file'.pass = file.pass
<1>1. (\E p \in Proc, w \in Passphrase : SealFile(p, w)) \/ file' \in {file, Torn}
  BY DEF Next, vars, Open, Exit, RunCreateAgent, StoreApiKey, SetInKeychain, ReadFile, CrashInWrite,
         Resolve, LookInKeychain, OpenFile
<1>2. ASSUME NEW p \in Proc, NEW w \in Passphrase, SealFile(p, w) PROVE file'.pass = file.pass
  <2>1. cli[p] \in ProcState /\ cli[p].pc = "seal"
    BY <1>2 DEF ShapeInv, TypeOK, SealFile, At
  <2>2. cli[p].seen = file
    BY <2>1 DEF AloneInv, Facts, SeenIsCurrent
  <2> DEFINE s == [cli[p] EXCEPT !.cached = w]
  <2>3. s.seen = file
    BY <2>1, <2>2 DEF ProcState
  <2>4. file' \in {file, Torn} \/ (Unlocks(s.seen, w) /\ file' = Sealed(s.seen, w, Head(s.left)))
    BY <1>2 DEF SealFile
  <2> HIDE DEF s
  <2>5. QED
    BY <2>3, <2>4 DEF Torn, Unlocks, Sealed
<1>3. QED
  BY <1>1, <1>2 DEF Torn

(* When no two processes overlap, no step changes the passphrase of a file. *)
THEOREM PassphraseKept == ASSUME MaxOpen <= 1 PROVE Spec => PassphraseStays
<1>1. ShapeInv /\ AloneInv /\ [Next]_vars
        => [file.is = "sealed" /\ file'.is = "sealed" => file'.pass = file.pass]_vars
  BY NextPassphrase
<1>2. QED
  BY <1>1, AloneInvariant, PTL DEF Spec, PassphraseStays

============================================================================
