---------------------------- MODULE UpgradeProofs ----------------------------
(***************************************************************************)
(* Proofs about Upgrade, for any openings, any number of retries and any   *)
(* database an older version may have left.  All of them are about openings *)
(* that run at once and stop anywhere: what a statement of the script may  *)
(* rely on is what the statements before it established, whoever ran them. *)
(***************************************************************************)
EXTENDS Upgrade, FiniteSetTheorems, SequenceTheorems, WellFoundedInduction, TLAPS

----------------------------------------------------------------------------
(* The script *)

Engine == {"sqlite", "libsql"}

LEMMA TablesAre == AllTables = {"agents", "attestations", "chat_messages", "accounts"}
<1>1. DOMAIN TableOrder = {1, 2, 3, 4}
  BY DEF TableOrder
<1>2. QED
  BY <1>1 DEF AllTables, TableOrder

LEMMA LateAre ==
  /\ LateColumns["agents"] = {"owner_public_key", "revoked_at", "visibility"}
  /\ LateColumns["attestations"] = {"idempotency_key", "external_verification"}
  /\ LateColumns["chat_messages"] = {"attestation_id"}
  /\ LateColumns["accounts"] = {}
  BY DEF LateColumns

LEMMA ColumnsAre ==
  AllColumns = {"owner_public_key", "revoked_at", "visibility", "idempotency_key",
                "external_verification", "attestation_id"}
  BY TablesAre, LateAre DEF AllColumns

LEMMA LateIsLate == \A t \in AllTables : LateColumns[t] \subseteq AllColumns
  BY DEF AllColumns

LEMMA UpgradesAre ==
  /\ Len(Upgrades) = 13
  /\ Upgrades[1] = [op |-> "look", of |-> "attestations"]
  /\ Upgrades[2] = [op |-> "alter", of |-> "idempotency_key"]
  /\ Upgrades[3] = [op |-> "index", of |-> "attestations"]
  /\ Upgrades[4] = [op |-> "look", of |-> "agents"]
  /\ Upgrades[5] = [op |-> "alter", of |-> "owner_public_key"]
  /\ Upgrades[6] = [op |-> "alter", of |-> "revoked_at"]
  /\ Upgrades[7] = [op |-> "look", of |-> "agents"]
  /\ Upgrades[8] = [op |-> "alter", of |-> "visibility"]
  /\ Upgrades[9] = [op |-> "look", of |-> "attestations"]
  /\ Upgrades[10] = [op |-> "alter", of |-> "external_verification"]
  /\ Upgrades[11] = [op |-> "look", of |-> "chat_messages"]
  /\ Upgrades[12] = [op |-> "alter", of |-> "attestation_id"]
  /\ Upgrades[13] = [op |-> "backfill", of |-> "chat_messages"]
  BY DEF Upgrades

LEMMA IsSequence ==
  ASSUME NEW n \in Nat, NEW S, NEW f \in [1..n -> S]
  PROVE  f \in Seq(S) /\ Len(f) = n
  OBVIOUS

(* The script is the creations followed by the upgrades. *)
LEMMA ScriptParts ==
  ASSUME engine \in Engine
  PROVE  /\ Len(Creations) \in {1, 4}
         /\ Len(Script) = Len(Creations) + 13 /\ DOMAIN Script = 1..Len(Script)
         /\ \A i \in 1..Len(Creations) : Script[i] = Creations[i]
         /\ \A i \in 1..13 : Script[Len(Creations) + i] = Upgrades[i]
<1> DEFINE S == {Creations[i] : i \in 1..4} \cup {Upgrades[i] : i \in 1..13}
<1>1. Len(Creations) \in {1, 4} /\ Creations \in Seq(S)
  <2>1. CASE engine = "libsql"
    <3>1. Creations = << [op |-> "create", of |-> AllTables] >>
      BY <2>1 DEF Creations
    <3>2. Len(Creations) = 1 /\ DOMAIN Creations = 1..1
      BY <3>1
    <3>3. Creations[1] \in S
      OBVIOUS
    <3>4. QED
      BY <3>1, <3>2, <3>3
  <2>2. CASE engine = "sqlite"
    <3>1. DOMAIN TableOrder = 1..4
      BY DEF TableOrder
    <3>2. Creations = [i \in 1..4 |-> [op |-> "create", of |-> {TableOrder[i]}]]
      BY <2>2, <3>1 DEF Creations
    <3>3. \A i \in 1..4 : Creations[i] \in S
      OBVIOUS
    <3> HIDE DEF S
    <3>4. Creations \in [1..4 -> S]
      BY <3>2, <3>3
    <3>5. Creations \in Seq(S) /\ Len(Creations) = 4
      BY <3>2, <3>4
    <3>6. QED
      BY <3>5
  <2>3. QED
    BY <2>1, <2>2 DEF Engine
<1>2. Upgrades \in Seq(S)
  <2>1. Upgrades \in [1..13 -> S]
    <3>1. \A i \in 1..13 : Upgrades[i] \in S
      OBVIOUS
    <3>2. DOMAIN Upgrades = 1..13 /\ Upgrades = [i \in DOMAIN Upgrades |-> Upgrades[i]]
      BY DEF Upgrades
    <3> HIDE DEF S
    <3>3. QED
      BY <3>1, <3>2
  <2> HIDE DEF S
  <2>2. 13 \in Nat
    OBVIOUS
  <2>3. QED
    BY <2>1, <2>2, IsSequence
<1> HIDE DEF S
<1>3. Script \in Seq(S) /\ Len(Script) = Len(Creations) + 13
      /\ \A i \in 1..Len(Creations) + 13 :
            Script[i] = IF i <= Len(Creations) THEN Creations[i] ELSE Upgrades[i - Len(Creations)]
  <2>1. Len(Upgrades) = 13
    BY UpgradesAre
  <2>2. Len(Creations \o Upgrades) = Len(Creations) + Len(Upgrades) /\ Creations \o Upgrades \in Seq(S)
        /\ \A i \in 1..Len(Creations) + Len(Upgrades) : (Creations \o Upgrades)[i] =
              IF i <= Len(Creations) THEN Creations[i] ELSE Upgrades[i - Len(Creations)]
    BY <1>1, <1>2, ConcatProperties
  <2>3. QED
    BY <2>1, <2>2 DEF Script
<1>4. DOMAIN Script = 1..Len(Script)
  BY <1>3, LenProperties
<1>5. \A i \in 1..Len(Creations) : Script[i] = Creations[i]
  BY <1>1, <1>3
<1>6. ASSUME NEW i \in 1..13 PROVE Script[Len(Creations) + i] = Upgrades[i]
  <2>1. Len(Creations) + i \in 1..Len(Creations) + 13 /\ ~ (Len(Creations) + i <= Len(Creations))
        /\ (Len(Creations) + i) - Len(Creations) = i
    BY <1>1
  <2>2. QED
    BY <1>3, <2>1
<1>7. QED
  BY <1>1, <1>3, <1>4, <1>5, <1>6

LEMMA CreationsAre ==
  ASSUME engine \in Engine
  PROVE  /\ \A i \in 1..Len(Creations) : Creations[i].op = "create" /\ Creations[i].of \subseteq AllTables
         /\ \A t \in AllTables : \E i \in 1..Len(Creations) : t \in Creations[i].of
<1>1. CASE engine = "libsql"
  <2>1. Creations = << [op |-> "create", of |-> AllTables] >>
    BY <1>1 DEF Creations
  <2>2. Len(Creations) = 1 /\ Creations[1] = [op |-> "create", of |-> AllTables]
    BY <2>1
  <2>3. \A i \in 1..Len(Creations) : i = 1
    BY <2>2
  <2>4. 1 \in 1..Len(Creations)
    BY <2>2
  <2>5. QED
    BY <2>2, <2>3, <2>4
<1>2. CASE engine = "sqlite"
  <2>1. DOMAIN TableOrder = 1..4
    BY DEF TableOrder
  <2>2. Creations = [i \in 1..4 |-> [op |-> "create", of |-> {TableOrder[i]}]]
    BY <1>2, <2>1 DEF Creations
  <2>3. Len(Creations) = 4
    BY <2>2
  <2>4. \A i \in 1..4 : Creations[i] = [op |-> "create", of |-> {TableOrder[i]}]
    BY <2>2
  <2>5. AllTables = {TableOrder[i] : i \in 1..4}
    BY <2>1 DEF AllTables
  <2>6. QED
    BY <2>3, <2>4, <2>5
<1>3. QED
  BY <1>1, <1>2 DEF Engine

LEMMA Position ==
  ASSUME engine \in Engine, NEW k \in DOMAIN Script
  PROVE  \/ k \in 1..Len(Creations) /\ Script[k] = Creations[k] /\ Script[k].op = "create"
         \/ \E i \in 1..13 : k = Len(Creations) + i /\ Script[k] = Upgrades[i]
<1>1. Len(Creations) \in {1, 4} /\ k \in 1..Len(Creations) + 13
  BY ScriptParts
<1>2. CASE k <= Len(Creations)
  <2>1. k \in 1..Len(Creations)
    BY <1>1, <1>2
  <2>2. QED
    BY <2>1, ScriptParts, CreationsAre
<1>3. CASE ~ (k <= Len(Creations))
  <2>1. k - Len(Creations) \in 1..13 /\ k = Len(Creations) + (k - Len(Creations))
    BY <1>1, <1>3
  <2>2. QED
    BY <2>1, ScriptParts
<1>4. QED
  BY <1>2, <1>3

LEMMA ScriptDomain ==
  ASSUME engine \in Engine
  PROVE  /\ DOMAIN Script = 1..Len(Script) /\ Len(Script) \in Nat /\ 1 \in DOMAIN Script
         /\ \A i \in 1..13 : Len(Creations) + i \in DOMAIN Script
<1>1. Len(Creations) \in {1, 4} /\ Len(Script) = Len(Creations) + 13 /\ DOMAIN Script = 1..Len(Script)
  BY ScriptParts
<1>2. QED
  BY <1>1

(* What a statement concerns. *)
ScriptTyped ==
  \A k \in DOMAIN Script :
    /\ Script[k].op = "create" => Script[k].of \subseteq AllTables
    /\ Script[k].op = "look" => Script[k].of \in AllTables
    /\ Script[k].op = "alter" => Script[k].of \in AllColumns

LEMMA ScriptIsTyped ==
  ASSUME engine \in Engine
  PROVE  ScriptTyped
<1> SUFFICES ASSUME NEW k \in DOMAIN Script
             PROVE  /\ Script[k].op = "create" => Script[k].of \subseteq AllTables
                    /\ Script[k].op = "look" => Script[k].of \in AllTables
                    /\ Script[k].op = "alter" => Script[k].of \in AllColumns
  BY DEF ScriptTyped
<1>1. CASE k \in 1..Len(Creations) /\ Script[k] = Creations[k] /\ Script[k].op = "create"
  BY <1>1, CreationsAre
<1>2. ASSUME NEW i \in 1..13, Script[k] = Upgrades[i]
      PROVE  /\ Script[k].op # "create"
             /\ Script[k].op = "look" => Script[k].of \in AllTables
             /\ Script[k].op = "alter" => Script[k].of \in AllColumns
  BY <1>2, UpgradesAre, TablesAre, ColumnsAre
<1>3. QED
  BY <1>1, <1>2, Position

(* The script leaves nothing out: every table, every late column, the index. *)
ScriptWhole ==
  /\ \A t \in AllTables : \E k \in DOMAIN Script : Script[k].op = "create" /\ t \in Script[k].of
  /\ \A c \in AllColumns : \E k \in DOMAIN Script : Script[k].op = "alter" /\ Script[k].of = c
  /\ \E k \in DOMAIN Script : Script[k].op = "index"

LEMMA ScriptIsWhole ==
  ASSUME engine \in Engine
  PROVE  ScriptWhole
<1>1. ASSUME NEW t \in AllTables
      PROVE  \E k \in DOMAIN Script : Script[k].op = "create" /\ t \in Script[k].of
  <2>1. PICK i \in 1..Len(Creations) : t \in Creations[i].of /\ Creations[i].op = "create"
    BY CreationsAre
  <2>2. Len(Creations) \in {1, 4} /\ DOMAIN Script = 1..Len(Creations) + 13
    BY ScriptParts
  <2>3. i \in DOMAIN Script
    BY <2>2
  <2>4. Script[i] = Creations[i]
    BY ScriptParts
  <2>5. QED
    BY <2>1, <2>3, <2>4
<1>2. ASSUME NEW c \in AllColumns
      PROVE  \E k \in DOMAIN Script : Script[k].op = "alter" /\ Script[k].of = c
  <2> DEFINE Is(i) == Upgrades[i] = [op |-> "alter", of |-> c]
  <2>1. Is(2) \/ Is(5) \/ Is(6) \/ Is(8) \/ Is(10) \/ Is(12)
    BY ColumnsAre, UpgradesAre
  <2>2. PICK i \in 1..13 : Is(i)
    <3> HIDE DEF Is
    <3>1. QED
      BY <2>1
  <2>3. Len(Creations) + i \in DOMAIN Script /\ Script[Len(Creations) + i] = Upgrades[i]
    BY ScriptDomain, ScriptParts
  <2>4. QED
    BY <2>2, <2>3
<1>3. \E k \in DOMAIN Script : Script[k].op = "index"
  <2>1. 3 \in 1..13
    OBVIOUS
  <2>2. Len(Creations) + 3 \in DOMAIN Script /\ Script[Len(Creations) + 3] = Upgrades[3]
    BY <2>1, ScriptDomain, ScriptParts
  <2>3. QED
    BY <2>2, UpgradesAre
<1>4. QED
  BY <1>1, <1>2, <1>3 DEF ScriptWhole

(* An ALTER follows the look at its own table, or another ALTER of the same *)
(* table that does.                                                         *)
AltersLook ==
  \A k \in DOMAIN Script : Script[k].op = "alter" =>
    /\ k # 1 /\ Script[k - 1].op \in {"look", "alter"}
    /\ \A t \in AllTables : Script[k].of \in LateColumns[t] =>
         IF Script[k - 1].op = "look" THEN Script[k - 1].of = t ELSE Script[k - 1].of \in LateColumns[t]

LEMMA AltersAreLooked ==
  ASSUME engine \in Engine
  PROVE  AltersLook
<1> SUFFICES ASSUME NEW k \in DOMAIN Script, Script[k].op = "alter"
             PROVE  /\ k # 1 /\ Script[k - 1].op \in {"look", "alter"}
                    /\ \A t \in AllTables : Script[k].of \in LateColumns[t] =>
                         IF Script[k - 1].op = "look" THEN Script[k - 1].of = t
                         ELSE Script[k - 1].of \in LateColumns[t]
  BY DEF AltersLook
<1>1. PICK i \in 1..13 : k = Len(Creations) + i /\ Script[k] = Upgrades[i]
  BY Position, Zenon
<1>2. i \in {2, 5, 6, 8, 10, 12}
  BY <1>1, UpgradesAre
<1>3. Len(Creations) \in {1, 4}
  BY ScriptParts
<1>4. i - 1 \in 1..13 /\ k - 1 = Len(Creations) + (i - 1) /\ k # 1
  BY <1>1, <1>2, <1>3
<1>5. Script[k - 1] = Upgrades[i - 1]
  BY <1>4, ScriptParts
<1>6. Upgrades[i - 1].op \in {"look", "alter"}
      /\ \A t \in AllTables : Upgrades[i].of \in LateColumns[t] =>
           IF Upgrades[i - 1].op = "look" THEN Upgrades[i - 1].of = t
           ELSE Upgrades[i - 1].of \in LateColumns[t]
  BY <1>2, UpgradesAre, TablesAre, LateAre
<1>7. QED
  BY <1>1, <1>4, <1>5, <1>6

----------------------------------------------------------------------------
(* Types *)

BootState ==
  [state : {"idle", "running", "failed", "booted"}, step : DOMAIN Script, saw : SUBSET AllColumns,
   retries : 0..MaxRetries]

LEMMA ScriptStays ==
  ASSUME engine' = engine
  PROVE  Script' = Script /\ BootState' = BootState
<1>1. Creations' = Creations
  BY DEF Creations
<1>2. Script' = Script
  BY <1>1 DEF Script
<1>3. QED
  BY <1>2 DEF BootState

(* An opening whose statement succeeded is at the next one, or done. *)
Forward(r, saw) ==
  IF r.step = Len(Script) THEN [r EXCEPT !.state = "booted", !.saw = {}]
  ELSE [r EXCEPT !.step = r.step + 1, !.saw = saw]

LEMMA ForwardShape ==
  ASSUME engine \in Engine, NEW r \in BootState, r.state = "running", NEW saw \in SUBSET AllColumns,
         NEW s, s = Forward(r, saw)
  PROVE  /\ s \in BootState /\ r.step \in DOMAIN Script
         /\ \/ r.step = Len(Script) /\ s.state = "booted" /\ s.saw = {}
            \/ r.step # Len(Script) /\ s.state = "running" /\ s.step = r.step + 1 /\ s.saw = saw
<1>1. DOMAIN Script = 1..Len(Script) /\ Len(Script) \in Nat
  BY ScriptDomain
<1>2. CASE r.step = Len(Script)
  <2>1. s = [r EXCEPT !.state = "booted", !.saw = {}]
    BY <1>2 DEF Forward
  <2>2. QED
    BY <1>2, <2>1 DEF BootState
<1>3. CASE r.step # Len(Script)
  <2>1. s = [r EXCEPT !.step = r.step + 1, !.saw = saw]
    BY <1>3 DEF Forward
  <2>2. r.step \in DOMAIN Script
    BY DEF BootState
  <2>3. r.step + 1 \in DOMAIN Script
    BY <1>1, <1>3, <2>2
  <2>4. QED
    BY <1>3, <2>1, <2>2, <2>3 DEF BootState
<1>4. QED
  BY <1>2, <1>3

Others(b) == \A o \in Boots : o # b => boot'[o] = boot[o]

LEMMA AdvanceIs ==
  ASSUME TypeOK, NEW b \in Boots, Running(b), NEW saw \in SUBSET AllColumns, Advance(b, saw)
  PROVE  boot' \in [Boots -> BootState] /\ Others(b) /\ boot'[b] = Forward(boot[b], saw)
<1>1. boot \in [Boots -> BootState] /\ engine \in Engine
  BY DEF TypeOK, BootState, Engine
<1>2. boot' = [boot EXCEPT ![b] = Forward(boot[b], saw)]
  BY DEF Advance, Forward
<1>3. boot[b] \in BootState /\ boot[b].state = "running"
  BY <1>1 DEF Running
<1>4. Forward(boot[b], saw) \in BootState
  BY <1>1, <1>3, ForwardShape
<1> HIDE DEF BootState
<1>5. QED
  BY <1>1, <1>2, <1>4 DEF Others

LEMMA FailIs ==
  ASSUME TypeOK, NEW b \in Boots, Fail(b)
  PROVE  boot' \in [Boots -> BootState] /\ Others(b) /\ boot'[b].state = "failed" /\ boot'[b].saw = {}
  BY DEF TypeOK, BootState, Fail, Others

LEMMA StartIs ==
  ASSUME TypeOK, NEW b \in Boots, Start(b)
  PROVE  /\ boot' \in [Boots -> BootState] /\ Others(b) /\ boot[b].state = "idle"
         /\ boot'[b].state = "running" /\ boot'[b].step = boot[b].step /\ boot'[b].saw = boot[b].saw
  BY DEF TypeOK, BootState, Start, Others

LEMMA RetryIs ==
  ASSUME TypeOK, NEW b \in Boots, Retry(b)
  PROVE  /\ boot' \in [Boots -> BootState] /\ Others(b) /\ boot'[b].state = "running"
         /\ boot'[b].step = 1 /\ boot'[b].saw = {}
<1>1. boot \in [Boots -> BootState] /\ 1 \in DOMAIN Script /\ MaxRetries \in Nat
  BY ScriptDomain, UpgradeAssumption DEF TypeOK, BootState, Engine
<1>2. boot[b] \in BootState /\ boot[b].retries \in 0..MaxRetries /\ boot[b].retries < MaxRetries
  BY <1>1 DEF Retry, BootState
<1>3. boot[b].retries + 1 \in 0..MaxRetries
  BY <1>1, <1>2
<1> DEFINE s == [state |-> "running", step |-> 1, saw |-> {}, retries |-> boot[b].retries + 1]
<1>4. boot' = [boot EXCEPT ![b] = s]
  BY DEF Retry
<1>5. s \in BootState /\ s.state = "running" /\ s.step = 1 /\ s.saw = {}
  BY <1>1, <1>3 DEF BootState
<1> HIDE DEF s
<1>6. QED
  BY <1>1, <1>4, <1>5 DEF Others

(* What no step takes back. *)
Grown ==
  /\ engine' = engine /\ missing' = missing
  /\ tables \subseteq tables' /\ columns \subseteq columns' /\ (indexed => indexed')

----------------------------------------------------------------------------
(* The row the backfill picks *)

LEMMA SmallestOf ==
  ASSUME NEW T \in SUBSET Nat, T # {}
  PROVE  \E x \in T : \A y \in T : x <= y
<1>1. PICK x \in T : \A y \in T : ~ (<<y, x>> \in OpToRel(<, Nat))
  BY NatLessThanWellFounded, WFMin
<1>2. \A y \in T : <<y, x>> \in Nat \X Nat /\ (y < x => <<y, x>> \in OpToRel(<, Nat))
  BY DEF OpToRel
<1>3. \A y \in T : x \in Nat /\ y \in Nat /\ ~ (y < x)
  BY <1>1, <1>2
<1>4. QED
  BY <1>3

LEMMA LargestOf ==
  ASSUME NEW T \in SUBSET Nat, T # {}, NEW n \in Nat, \A x \in T : x <= n
  PROVE  \E x \in T : \A y \in T : y <= x
<1> DEFINE U == {n - x : x \in T}
<1>1. U \in SUBSET Nat /\ U # {}
  OBVIOUS
<1>2. PICK u \in U : \A v \in U : u <= v
  <2> HIDE DEF U
  <2>1. QED
    BY <1>1, SmallestOf
<1>3. PICK x \in T : u = n - x
  BY <1>2
<1>4. ASSUME NEW y \in T PROVE y <= x
  <2>1. n - y \in U /\ x \in Nat /\ y \in Nat
    OBVIOUS
  <2>2. n - x <= n - y
    BY <1>2, <1>3, <2>1
  <2>3. QED
    BY <2>1, <2>2
<1>5. QED
  BY <1>4

LEMMA SecondTyped == \A t \in Nat : SecondOf(t) \in Nat
  BY DEF SecondOf

LEMMA RowTyped ==
  ASSUME ledger \in Seq(Attestation)
  PROVE  /\ DOMAIN ledger = 1..Len(ledger) /\ Len(ledger) \in Nat
         /\ \A i \in DOMAIN ledger : ledger[i] \in Attestation /\ SecondOf(ledger[i].time) \in Nat
<1>1. DOMAIN ledger = 1..Len(ledger) /\ Len(ledger) \in Nat /\ \A i \in DOMAIN ledger : ledger[i] \in Attestation
  OBVIOUS
<1>2. \A i \in DOMAIN ledger : ledger[i].time \in Nat
  BY <1>1 DEF Attestation
<1>3. QED
  BY <1>1, <1>2, SecondTyped

Newest(i, rows) ==
  \A j \in rows :
    \/ SecondOf(ledger[j].time) < SecondOf(ledger[i].time)
    \/ SecondOf(ledger[j].time) = SecondOf(ledger[i].time) /\ j <= i

LEMMA LatestIs ==
  ASSUME ledger \in Seq(Attestation), NEW rows \in SUBSET DOMAIN ledger, rows # {}, NEW n \in Nat,
         \A i \in rows : SecondOf(ledger[i].time) <= n
  PROVE  Latest(rows) \in rows /\ Newest(Latest(rows), rows)
<1> DEFINE Sec(i) == SecondOf(ledger[i].time)
           T == {Sec(i) : i \in rows}
<1>1. \A i \in rows : Sec(i) \in Nat /\ i \in Nat /\ i <= Len(ledger)
  BY RowTyped
<1>2. PICK s \in T : \A y \in T : y <= s
  <2>1. T \in SUBSET Nat /\ T # {} /\ \A x \in T : x <= n
    BY <1>1
  <2> HIDE DEF T
  <2>2. QED
    BY <2>1, LargestOf
<1>3. \A j \in rows : Sec(j) <= s
  BY <1>2
<1> DEFINE R == {i \in rows : Sec(i) = s}
<1>4. PICK i \in R : \A j \in R : j <= i
  <2>1. R \in SUBSET Nat /\ \A x \in R : x <= Len(ledger)
    BY <1>1
  <2>2. R # {}
    BY <1>2
  <2>3. Len(ledger) \in Nat
    BY RowTyped
  <2> HIDE DEF R
  <2>4. QED
    BY <2>1, <2>2, <2>3, LargestOf
<1>5. i \in rows /\ Newest(i, rows)
  <2>1. i \in rows /\ Sec(i) = s
    BY <1>4
  <2>2. ASSUME NEW j \in rows PROVE Sec(j) < Sec(i) \/ (Sec(j) = Sec(i) /\ j <= i)
    <3>1. CASE Sec(j) = s
      BY <1>4, <2>1, <3>1
    <3>2. CASE Sec(j) # s
      <4>1. Sec(j) \in Nat /\ s \in Nat /\ Sec(j) <= s
        BY <1>1, <1>3, <2>1
      <4>2. Sec(j) < s
        <5> HIDE DEF Sec, T
        <5>1. QED
          BY <3>2, <4>1
      <4>3. QED
        BY <2>1, <4>2
    <3>3. QED
      BY <3>1, <3>2
  <2>3. QED
    BY <2>1, <2>2 DEF Newest
<1>6. Latest(rows) = CHOOSE k \in rows : Newest(k, rows)
  BY DEF Latest, Newest
<1>7. QED
  BY <1>5, <1>6

LEMMA CandidatesLatest ==
  ASSUME ledger \in Seq(Attestation), NEW m \in Message, Candidates(m) # {}
  PROVE  /\ Latest(Candidates(m)) \in Candidates(m) /\ Latest(Candidates(m)) \in Nat
         /\ Newest(Latest(Candidates(m)), Candidates(m))
<1>1. Candidates(m) \in SUBSET DOMAIN ledger /\ SecondOf(m.time) \in Nat
      /\ \A i \in Candidates(m) : SecondOf(ledger[i].time) <= SecondOf(m.time)
  BY SecondTyped DEF Candidates, Message
<1>2. Latest(Candidates(m)) \in Candidates(m) /\ Newest(Latest(Candidates(m)), Candidates(m))
  BY <1>1, LatestIs
<1>3. QED
  BY <1>1, <1>2, RowTyped

(* Filling in a link changes nothing else, and only a reply without one. *)
LEMMA LinkedIs ==
  ASSUME ledger \in Seq(Attestation), NEW m \in Message
  PROVE  /\ Linked(m) \in Message
         /\ \/ Linked(m) = m
            \/ /\ m.link = NULL /\ Candidates(m) # {}
               /\ Linked(m) = [m EXCEPT !.link = Latest(Candidates(m))]
<1>1. CASE m.link = NULL /\ Candidates(m) # {}
  <2>1. Linked(m) = [m EXCEPT !.link = Latest(Candidates(m))]
    BY <1>1 DEF Linked
  <2>2. Latest(Candidates(m)) \in Nat
    BY <1>1, CandidatesLatest
  <2>3. [m EXCEPT !.link = Latest(Candidates(m))] \in Message
    BY <2>2 DEF Message
  <2>4. QED
    BY <1>1, <2>1, <2>3
<1>2. CASE ~ (m.link = NULL /\ Candidates(m) # {})
  BY <1>2 DEF Linked
<1>3. QED
  BY <1>1, <1>2

----------------------------------------------------------------------------
(* Type correctness *)

LEMMA TypeOKIs ==
  TypeOK <=> /\ engine \in Engine /\ tables \subseteq AllTables /\ columns \subseteq AllColumns
             /\ indexed \in BOOLEAN /\ ledger \in Seq(Attestation) /\ messages \in Seq(Message)
             /\ boot \in [Boots -> BootState] /\ lost \in [Boots -> Nat] /\ missing \subseteq AllColumns
  BY DEF TypeOK, BootState, Engine

LEMMA InitType == Init => TypeOK
<1> SUFFICES ASSUME Init PROVE TypeOK
  OBVIOUS
<1>1. PICK d \in Legacy :
        /\ tables = d.tables /\ columns = d.columns /\ indexed = ("idempotency_key" \in d.columns)
        /\ ledger = d.ledger /\ messages = d.messages /\ missing = AllColumns \ d.columns
  BY DEF Init
<1>2. engine \in Engine
  BY DEF Init, Engine
<1>3. boot \in [Boots -> BootState] /\ lost \in [Boots -> Nat]
  BY <1>2, ScriptDomain, UpgradeAssumption DEF Init, BootState
<1>4. indexed \in BOOLEAN /\ missing \subseteq AllColumns
  BY <1>1
<1>5. tables \subseteq AllTables /\ columns \subseteq AllColumns /\ ledger \in Seq(Attestation)
      /\ messages \in Seq(Message)
  BY <1>1, UpgradeAssumption
<1>6. QED
  BY <1>2, <1>3, <1>4, <1>5, TypeOKIs

(* A statement the opening succeeds with leaves it at the next one. *)
LEMMA StepTyped ==
  ASSUME TypeOK, NEW b \in Boots, Running(b)
  PROVE  /\ boot[b] \in BootState /\ boot[b].step \in DOMAIN Script /\ boot[b].saw \subseteq AllColumns
         /\ boot[b].step \in 1..Len(Script) /\ Len(Script) \in Nat
         /\ StepOf(b).op = "create" => StepOf(b).of \subseteq AllTables
         /\ StepOf(b).op = "look" => StepOf(b).of \in AllTables
         /\ StepOf(b).op = "alter" => StepOf(b).of \in AllColumns
<1>1. engine \in Engine /\ boot[b] \in BootState
  BY TypeOKIs
<1>2. boot[b].step \in DOMAIN Script /\ boot[b].saw \subseteq AllColumns
  BY <1>1 DEF BootState
<1>3. ScriptTyped
  BY <1>1, ScriptIsTyped
<1>4. QED
  BY <1>1, <1>2, <1>3, ScriptDomain DEF ScriptTyped, StepOf

LEMMA CreateGrows ==
  ASSUME TypeOK, NEW b \in Boots, Create(b)
  PROVE  /\ tables' = tables \cup StepOf(b).of /\ tables' \subseteq AllTables
         /\ columns \subseteq columns' /\ columns' \subseteq AllColumns
<1>1. StepOf(b).of \subseteq AllTables
  BY StepTyped DEF Create
<1>2. tables \subseteq AllTables /\ columns \subseteq AllColumns
  BY DEF TypeOK
<1> DEFINE new == StepOf(b).of \ tables
<1>3. tables' = tables \cup new /\ columns' = columns \cup UNION {LateColumns[t] : t \in new}
  BY DEF Create
<1>4. UNION {LateColumns[t] : t \in new} \subseteq AllColumns
  BY <1>1, LateIsLate
<1>5. QED
  BY <1>1, <1>2, <1>3, <1>4

LEMMA ReplyShape ==
  ASSUME TypeOK, NEW b \in Boots, NEW r \in Replies, Reply(b, r)
  PROVE  \E row \in Attestation, m \in Message :
           /\ ledger' = Append(ledger, row) /\ messages' = Append(messages, m)
           /\ m.new /\ m.link = Len(ledger) + 1 /\ m.own = Len(ledger) + 1
           /\ row.agent = m.agent /\ row.output = m.content /\ row.time = m.time
<1> DEFINE row == [agent |-> r.agent, output |-> r.text, time |-> Len(ledger) + 4]
           m == [agent |-> r.agent, content |-> r.text, time |-> Len(ledger) + 4,
                 link |-> Len(ledger) + 1, own |-> Len(ledger) + 1, new |-> TRUE]
<1>1. r.agent \in Agents /\ r.text \in Texts
  BY UpgradeAssumption
<1>2. Len(ledger) + 4 \in Nat /\ Len(ledger) + 1 \in Nat
  BY RowTyped DEF TypeOK
<1>3. row \in Attestation /\ m \in Message
  BY <1>1, <1>2 DEF Attestation, Message
<1>4. ledger' = Append(ledger, row) /\ messages' = Append(messages, m)
  BY DEF Reply
<1>5. /\ m.new /\ m.link = Len(ledger) + 1 /\ m.own = Len(ledger) + 1
      /\ row.agent = m.agent /\ row.output = m.content /\ row.time = m.time
  OBVIOUS
<1> HIDE DEF row, m
<1>6. QED
  BY <1>3, <1>4, <1>5

LEMMA NextType ==
  ASSUME TypeOK, [Next]_vars
  PROVE  TypeOK'
<1>1. /\ engine \in Engine /\ tables \subseteq AllTables /\ columns \subseteq AllColumns
      /\ indexed \in BOOLEAN /\ ledger \in Seq(Attestation) /\ messages \in Seq(Message)
      /\ boot \in [Boots -> BootState] /\ lost \in [Boots -> Nat] /\ missing \subseteq AllColumns
  BY TypeOKIs
<1> DEFINE Typed ==
      /\ engine' \in Engine /\ tables' \subseteq AllTables /\ columns' \subseteq AllColumns
      /\ indexed' \in BOOLEAN /\ ledger' \in Seq(Attestation) /\ messages' \in Seq(Message)
      /\ boot' \in [Boots -> BootState] /\ lost' \in [Boots -> Nat] /\ missing' \subseteq AllColumns
<1>2. engine' = engine /\ missing' = missing
  BY DEF Next, vars, Start, Retry, Create, Look, Alter, Index, Backfill, Break, Reply
<1>3. SUFFICES Typed
  <2>1. Script' = Script
    BY <1>2, ScriptStays
  <2>2. QED
    BY <2>1 DEF TypeOK, BootState, Engine
<1>4. CASE UNCHANGED vars
  BY <1>1, <1>4 DEF vars
<1>5. ASSUME NEW b \in Boots, Start(b) PROVE Typed
  BY <1>1, <1>2, <1>5, StartIs DEF Start
<1>6. ASSUME NEW b \in Boots, Retry(b) PROVE Typed
  BY <1>1, <1>2, <1>6, RetryIs DEF Retry
<1>7. ASSUME NEW b \in Boots, Create(b) PROVE Typed
  <2>1. boot' \in [Boots -> BootState]
    BY <1>7, AdvanceIs DEF Create
  <2>2. QED
    BY <1>1, <1>2, <1>7, <2>1, CreateGrows DEF Create
<1>8. ASSUME NEW b \in Boots, Look(b) PROVE Typed
  <2>1. boot' \in [Boots -> BootState]
    BY <1>1, <1>8, AdvanceIs DEF Look
  <2>2. QED
    BY <1>1, <1>2, <1>8, <2>1 DEF Look
<1>9. ASSUME NEW b \in Boots, Alter(b) PROVE Typed
  <2>1. boot' \in [Boots -> BootState]
    BY <1>9, StepTyped, AdvanceIs, FailIs DEF Alter
  <2>2. columns' \subseteq AllColumns
    BY <1>1, <1>9, StepTyped DEF Alter
  <2>3. lost' \in [Boots -> Nat]
    <3>1. lost' = lost \/ lost' = [lost EXCEPT ![b] = lost[b] + 1]
      BY <1>9 DEF Alter
    <3>2. QED
      BY <1>1, <3>1
  <2>4. QED
    BY <1>1, <1>2, <1>9, <2>1, <2>2, <2>3 DEF Alter
<1>10. ASSUME NEW b \in Boots, Index(b) PROVE Typed
  <2>1. boot' \in [Boots -> BootState]
    BY <1>10, AdvanceIs DEF Index
  <2>2. QED
    BY <1>1, <1>2, <1>10, <2>1 DEF Index
<1>11. ASSUME NEW b \in Boots, Backfill(b) PROVE Typed
  <2>1. boot' \in [Boots -> BootState]
    BY <1>11, AdvanceIs DEF Backfill
  <2>2. \A k \in DOMAIN messages : Linked(messages[k]) \in Message
    BY <1>1, LinkedIs
  <2>3. messages' \in Seq(Message)
    <3>1. DOMAIN messages = 1..Len(messages) /\ Len(messages) \in Nat
      BY <1>1
    <3>2. messages' = [k \in DOMAIN messages |-> Linked(messages[k])]
      BY <1>11 DEF Backfill
    <3>3. messages' \in [1..Len(messages) -> Message]
      BY <2>2, <3>1, <3>2
    <3>4. QED
      BY <3>1, <3>3, IsSequence
  <2>4. QED
    BY <1>1, <1>2, <1>11, <2>1, <2>3 DEF Backfill
<1>12. ASSUME NEW b \in Boots, Break(b) PROVE Typed
  BY <1>1, <1>2, <1>12, FailIs DEF Break
<1>13. ASSUME NEW b \in Boots, NEW r \in Replies, Reply(b, r) PROVE Typed
  <2>1. ledger' \in Seq(Attestation) /\ messages' \in Seq(Message)
    <3>1. PICK row \in Attestation, m \in Message :
            ledger' = Append(ledger, row) /\ messages' = Append(messages, m)
      BY <1>13, ReplyShape
    <3>2. QED
      BY <1>1, <3>1, AppendProperties
  <2>2. QED
    BY <1>1, <1>2, <1>13, <2>1 DEF Reply
<1>14. QED
  BY <1>4, <1>5, <1>6, <1>7, <1>8, <1>9, <1>10, <1>11, <1>12, <1>13 DEF Next

(* Every reachable state is typed. *)
THEOREM UpgradeTypeCorrect == Spec => []TypeOK
<1>1. TypeOK /\ [Next]_vars => TypeOK'
  BY NextType
<1>2. QED
  BY InitType, <1>1, PTL DEF Spec

----------------------------------------------------------------------------
(* Completeness: what a statement established is not undone, and an opening *)
(* is past a statement only when it holds.                                  *)

Established(x) ==
  /\ x.op = "create" => x.of \subseteq tables
  /\ x.op = "alter" => x.of \in columns
  /\ x.op = "index" => indexed

OpeningInv(b) ==
  /\ boot[b].saw \subseteq columns
  /\ boot[b].state = "idle" => boot[b].step = 1
  /\ Running(b) => \A k \in DOMAIN Script : k < boot[b].step => Established(Script[k])
  /\ Booted(b) => \A k \in DOMAIN Script : Established(Script[k])

OpeningsInv == \A b \in Boots : OpeningInv(b)

LEMMA NextGrown ==
  ASSUME TypeOK, [Next]_vars
  PROVE  Grown
<1>1. CASE UNCHANGED vars
  BY <1>1 DEF vars, Grown
<1>2. ASSUME NEW b \in Boots, Create(b) PROVE Grown
  BY <1>2, CreateGrows DEF Create, Grown
<1>3. ASSUME NEW b \in Boots, Alter(b) PROVE Grown
  BY <1>3 DEF Alter, Grown
<1>4. ASSUME NEW b \in Boots, Start(b) \/ Retry(b) \/ Look(b) \/ Index(b) \/ Backfill(b) \/ Break(b)
      PROVE  Grown
  BY <1>4 DEF Start, Retry, Look, Index, Backfill, Break, Grown
<1>5. ASSUME NEW b \in Boots, NEW r \in Replies, Reply(b, r) PROVE Grown
  BY <1>5 DEF Reply, Grown
<1>6. QED
  BY <1>1, <1>2, <1>3, <1>4, <1>5 DEF Next

LEMMA EstablishedStays ==
  ASSUME Grown
  PROVE  Script' = Script /\ \A k \in DOMAIN Script : Established(Script[k]) => Established(Script[k])'
<1>1. Script' = Script
  BY ScriptStays DEF Grown
<1>2. QED
  BY <1>1 DEF Grown, Established

LEMMA OpeningStays ==
  ASSUME OpeningsInv, Grown, NEW o \in Boots, boot'[o] = boot[o]
  PROVE  OpeningInv(o)'
<1>1. OpeningInv(o)
  BY DEF OpeningsInv
<1>2. Script' = Script /\ \A k \in DOMAIN Script : Established(Script[k]) => Established(Script[k])'
  BY EstablishedStays
<1>3. columns \subseteq columns'
  BY DEF Grown
<1>4. QED
  BY <1>1, <1>2, <1>3 DEF OpeningInv, Running, Booted

LEMMA AdvanceOpening ==
  ASSUME TypeOK, OpeningsInv, Grown, NEW b \in Boots, Running(b),
         NEW saw \in SUBSET AllColumns, saw \subseteq columns', Advance(b, saw),
         NEW k \in DOMAIN Script, k = boot[b].step, Established(Script[k])'
  PROVE  OpeningsInv'
<1>1. Script' = Script /\ \A j \in DOMAIN Script : Established(Script[j]) => Established(Script[j])'
  BY EstablishedStays
<1>2. boot[b] \in BootState /\ Len(Script) \in Nat /\ DOMAIN Script = 1..Len(Script) /\ engine \in Engine
  BY StepTyped, ScriptDomain, TypeOKIs
<1>3. Others(b) /\ boot'[b] = Forward(boot[b], saw)
  BY AdvanceIs
<1>4. \/ k = Len(Script) /\ boot'[b].state = "booted" /\ boot'[b].saw = {}
      \/ boot'[b].state = "running" /\ boot'[b].step = k + 1 /\ boot'[b].saw = saw
  BY <1>2, <1>3, ForwardShape DEF Running
<1>5. \A j \in DOMAIN Script : j < k => Established(Script[j])'
  BY <1>1 DEF OpeningsInv, OpeningInv
<1>6. \A j \in DOMAIN Script : j < k + 1 => Established(Script[j])'
  BY <1>2, <1>5
<1>7. OpeningInv(b)'
  <2>1. CASE k = Len(Script) /\ boot'[b].state = "booted" /\ boot'[b].saw = {}
    <3>1. \A j \in DOMAIN Script : Established(Script[j])'
      BY <1>2, <1>6, <2>1
    <3>2. QED
      BY <1>1, <2>1, <3>1 DEF OpeningInv, Running, Booted
  <2>2. CASE boot'[b].state = "running" /\ boot'[b].step = k + 1 /\ boot'[b].saw = saw
    BY <1>1, <1>6, <2>2 DEF OpeningInv, Running, Booted
  <2>3. QED
    BY <1>4, <2>1, <2>2
<1>8. ASSUME NEW o \in Boots PROVE OpeningInv(o)'
  BY <1>3, <1>7, OpeningStays DEF Others
<1>9. QED
  BY <1>8 DEF OpeningsInv

(* An opening that begins, or stops, is past nothing. *)
LEMMA BeginOpening ==
  ASSUME TypeOK, OpeningsInv, Grown, NEW b \in Boots, Others(b), boot' \in [Boots -> BootState],
         boot'[b].saw \subseteq columns, boot'[b].state = "failed" \/ (boot'[b].state = "running" /\ boot'[b].step = 1)
  PROVE  OpeningsInv'
<1>1. Script' = Script /\ columns \subseteq columns'
  BY EstablishedStays DEF Grown
<1>2. \A j \in DOMAIN Script : ~ (j < 1)
  BY ScriptDomain, TypeOKIs
<1>3. OpeningInv(b)'
  BY <1>1, <1>2 DEF OpeningInv, Running, Booted
<1>4. ASSUME NEW o \in Boots PROVE OpeningInv(o)'
  BY <1>3, OpeningStays DEF Others
<1>5. QED
  BY <1>4 DEF OpeningsInv

LEMMA InitOpenings == Init => OpeningsInv
  BY DEF Init, OpeningsInv, OpeningInv, Running, Booted

LEMMA NextOpenings ==
  ASSUME TypeOK, OpeningsInv, [Next]_vars
  PROVE  OpeningsInv'
<1>1. Grown /\ columns \subseteq AllColumns
  BY NextGrown, TypeOKIs
<1>2. Script' = Script
  BY <1>1, EstablishedStays
<1>3. CASE UNCHANGED vars
  <2>1. \A o \in Boots : boot'[o] = boot[o]
    BY <1>3 DEF vars
  <2>2. QED
    BY <1>1, <2>1, OpeningStays DEF OpeningsInv
<1>4. ASSUME NEW b \in Boots, Start(b) PROVE OpeningsInv'
  <2>1. boot'[b].step = 1 /\ boot'[b].saw \subseteq columns
    BY <1>4, StartIs DEF OpeningsInv, OpeningInv
  <2>2. QED
    BY <1>1, <1>4, <2>1, StartIs, BeginOpening
<1>5. ASSUME NEW b \in Boots, Retry(b) PROVE OpeningsInv'
  BY <1>1, <1>5, RetryIs, BeginOpening
<1>6. ASSUME NEW b \in Boots, Create(b) PROVE OpeningsInv'
  <2>1. PICK k \in DOMAIN Script : k = boot[b].step
    BY <1>6, StepTyped DEF Create
  <2>2. Running(b) /\ Script[k].op = "create" /\ Script[k].of \subseteq tables' /\ Advance(b, {})
    BY <1>6, <2>1, CreateGrows DEF Create, StepOf
  <2>3. Established(Script[k])'
    BY <1>2, <2>2 DEF Established
  <2>4. QED
    BY <1>1, <2>1, <2>2, <2>3, AdvanceOpening
<1>7. ASSUME NEW b \in Boots, Look(b) PROVE OpeningsInv'
  <2>1. PICK k \in DOMAIN Script : k = boot[b].step
    BY <1>7, StepTyped DEF Look
  <2> DEFINE saw == columns \cap LateColumns[StepOf(b).of]
  <2>2. Running(b) /\ Script[k].op = "look" /\ Advance(b, saw) /\ columns' = columns
    BY <1>7, <2>1 DEF Look, StepOf
  <2>3. Established(Script[k])'
    BY <1>2, <2>2 DEF Established
  <2>4. saw \in SUBSET AllColumns /\ saw \subseteq columns'
    BY <1>1, <2>2
  <2> HIDE DEF saw
  <2>5. QED
    BY <1>1, <2>1, <2>2, <2>3, <2>4, AdvanceOpening
<1>8. ASSUME NEW b \in Boots, Alter(b) PROVE OpeningsInv'
  <2>1. PICK k \in DOMAIN Script : k = boot[b].step
    BY <1>8, StepTyped DEF Alter
  <2>2. CASE Fail(b)
    <3>1. boot'[b].saw \subseteq columns /\ boot'[b].state = "failed" /\ Others(b) /\ boot' \in [Boots -> BootState]
      BY <2>2, FailIs
    <3>2. QED
      BY <1>1, <3>1, BeginOpening
  <2>3. CASE ~ Fail(b)
    <3>1. boot[b].saw \subseteq columns
      BY DEF OpeningsInv, OpeningInv
    <3>2. Running(b) /\ Script[k].op = "alter" /\ Script[k].of \in columns' /\ Advance(b, boot[b].saw)
      BY <1>8, <2>1, <2>3, <3>1 DEF Alter, StepOf
    <3>3. Established(Script[k])'
      BY <1>2, <3>2 DEF Established
    <3>4. boot[b].saw \in SUBSET AllColumns /\ boot[b].saw \subseteq columns'
      BY <1>1, <3>1 DEF Grown
    <3>5. QED
      BY <1>1, <2>1, <3>2, <3>3, <3>4, AdvanceOpening
  <2>4. QED
    BY <2>2, <2>3
<1>9. ASSUME NEW b \in Boots, Index(b) PROVE OpeningsInv'
  <2>1. PICK k \in DOMAIN Script : k = boot[b].step
    BY <1>9, StepTyped DEF Index
  <2>2. Running(b) /\ Script[k].op = "index" /\ indexed' /\ Advance(b, {})
    BY <1>9, <2>1 DEF Index, StepOf
  <2>3. Established(Script[k])'
    BY <1>2, <2>2 DEF Established
  <2>4. QED
    BY <1>1, <2>1, <2>2, <2>3, AdvanceOpening
<1>10. ASSUME NEW b \in Boots, Backfill(b) PROVE OpeningsInv'
  <2>1. PICK k \in DOMAIN Script : k = boot[b].step
    BY <1>10, StepTyped DEF Backfill
  <2>2. Running(b) /\ Script[k].op = "backfill" /\ Advance(b, {})
    BY <1>10, <2>1 DEF Backfill, StepOf
  <2>3. Established(Script[k])'
    BY <1>2, <2>2 DEF Established
  <2>4. QED
    BY <1>1, <2>1, <2>2, <2>3, AdvanceOpening
<1>11. ASSUME NEW b \in Boots, Break(b) PROVE OpeningsInv'
  <2>1. boot'[b].saw \subseteq columns /\ boot'[b].state = "failed" /\ Others(b) /\ boot' \in [Boots -> BootState]
    BY <1>11, FailIs DEF Break
  <2>2. QED
    BY <1>1, <2>1, BeginOpening
<1>12. ASSUME NEW b \in Boots, NEW r \in Replies, Reply(b, r) PROVE OpeningsInv'
  <2>1. \A o \in Boots : boot'[o] = boot[o]
    BY <1>12 DEF Reply
  <2>2. QED
    BY <1>1, <2>1, OpeningStays DEF OpeningsInv
<1>13. QED
  BY <1>3, <1>4, <1>5, <1>6, <1>7, <1>8, <1>9, <1>10, <1>11, <1>12 DEF Next

THEOREM OpeningsInvariant == Spec => [](TypeOK /\ OpeningsInv)
<1>1. Init => TypeOK /\ OpeningsInv
  BY InitType, InitOpenings
<1>2. TypeOK /\ OpeningsInv /\ [Next]_vars => (TypeOK /\ OpeningsInv)'
  BY NextType, NextOpenings
<1>3. QED
  BY <1>1, <1>2, PTL DEF Spec

(* Whichever openings built which part of the schema, and whichever stopped *)
(* half way, an adapter is handed out over the whole of it only.            *)
THEOREM HandedOutWhole == Spec => []BootedIsComplete
<1>1. TypeOK /\ OpeningsInv => BootedIsComplete
  <2> SUFFICES ASSUME TypeOK, OpeningsInv, NEW b \in Boots, Booted(b)
               PROVE  tables = AllTables /\ columns = AllColumns /\ indexed
    BY DEF BootedIsComplete
  <2>1. \A k \in DOMAIN Script : Established(Script[k])
    BY DEF OpeningsInv, OpeningInv
  <2>2. ScriptWhole
    BY ScriptIsWhole, TypeOKIs
  <2>3. AllTables \subseteq tables
    BY <2>1, <2>2 DEF ScriptWhole, Established
  <2>4. AllColumns \subseteq columns
    BY <2>1, <2>2 DEF ScriptWhole, Established
  <2>5. indexed
    BY <2>1, <2>2 DEF ScriptWhole, Established
  <2>6. QED
    BY <2>3, <2>4, <2>5, TypeOKIs
<1>2. QED
  BY <1>1, OpeningsInvariant, PTL

----------------------------------------------------------------------------
(* Races: a lost race costs an opening one column that it will find from    *)
(* then on.  S is what an opening has lost races for: its next look at the  *)
(* table shows those columns, so that it does not race for them again.      *)

LEMMA ColumnsFinite == IsFiniteSet(AllColumns)
<1>1. IsFiniteSet({"owner_public_key"} \cup {"revoked_at"} \cup {"visibility"})
  BY FS_Singleton, FS_Union
<1>2. IsFiniteSet({"idempotency_key"} \cup {"external_verification"} \cup {"attestation_id"})
  BY FS_Singleton, FS_Union
<1>3. AllColumns = ({"owner_public_key"} \cup {"revoked_at"} \cup {"visibility"})
                   \cup ({"idempotency_key"} \cup {"external_verification"} \cup {"attestation_id"})
  BY ColumnsAre
<1>4. QED
  BY <1>1, <1>2, <1>3, FS_Union

(* The columns an opening's next look at table t shows in any case. *)
Known(S, t) == LateColumns[t] \cap (S \cup (AllColumns \ missing))

SeenBy(saw, x, S) == \A t \in AllTables : x.of \in LateColumns[t] => Known(S, t) \subseteq saw

Spent(b, S) ==
  /\ S \subseteq missing \cap columns /\ Cardinality(S) = lost[b]
  /\ Running(b) /\ StepOf(b).op = "alter" => SeenBy(boot[b].saw, StepOf(b), S)

RacesInv ==
  /\ AllColumns \ missing \subseteq columns
  /\ \A b \in Boots : \E S : Spent(b, S)

LEMMA SpentStays ==
  ASSUME Grown, NEW o \in Boots, NEW S, Spent(o, S), boot'[o] = boot[o], lost'[o] = lost[o]
  PROVE  Spent(o, S)'
<1>1. Script' = Script
  BY EstablishedStays
<1>2. QED
  BY <1>1 DEF Spent, Grown, Running, StepOf, SeenBy, Known

LEMMA SpentUnlessAltering ==
  ASSUME Grown, NEW b \in Boots, NEW S, S \subseteq missing \cap columns, Cardinality(S) = lost'[b],
         boot'[b].state # "running" \/ Script[boot'[b].step].op # "alter"
  PROVE  Spent(b, S)'
<1>1. Script' = Script
  BY EstablishedStays
<1>2. QED
  BY <1>1 DEF Spent, Grown, Running, StepOf

LEMMA AdvanceSpent ==
  ASSUME TypeOK, Grown, NEW b \in Boots, Running(b), NEW saw \in SUBSET AllColumns, Advance(b, saw),
         NEW S, Spent(b, S), lost'[b] = lost[b], NEW k \in DOMAIN Script, k = boot[b].step,
         Script[k].op = "look" => Known(S, Script[k].of) \subseteq saw,
         Script[k].op = "alter" => SeenBy(saw, Script[k], S)
  PROVE  Spent(b, S)'
<1>1. Script' = Script
  BY EstablishedStays
<1>2. boot[b] \in BootState /\ Len(Script) \in Nat /\ DOMAIN Script = 1..Len(Script) /\ engine \in Engine
  BY StepTyped, ScriptDomain, TypeOKIs
<1>3. boot'[b] = Forward(boot[b], saw)
  BY AdvanceIs
<1>4. S \subseteq missing \cap columns /\ Cardinality(S) = lost'[b]
  BY DEF Spent
<1>5. \/ k = Len(Script) /\ boot'[b].state = "booted"
      \/ k # Len(Script) /\ boot'[b].state = "running" /\ boot'[b].step = k + 1 /\ boot'[b].saw = saw
  BY <1>2, <1>3, ForwardShape DEF Running
<1>6. CASE boot'[b].state # "running" \/ Script[boot'[b].step].op # "alter"
  BY <1>4, <1>6, SpentUnlessAltering
<1>7. CASE boot'[b].state = "running" /\ Script[boot'[b].step].op = "alter"
  <2>1. boot'[b].step = k + 1 /\ boot'[b].saw = saw /\ k # Len(Script)
    BY <1>5, <1>7
  <2>2. k + 1 \in DOMAIN Script /\ (k + 1) - 1 = k /\ Script[k + 1].op = "alter"
    BY <1>2, <1>7, <2>1
  <2>3. Script[k].op \in {"look", "alter"}
        /\ \A t \in AllTables : Script[k + 1].of \in LateColumns[t] =>
             IF Script[k].op = "look" THEN Script[k].of = t ELSE Script[k].of \in LateColumns[t]
    BY <1>2, <2>2, AltersAreLooked DEF AltersLook
  <2>4. SeenBy(saw, Script[k + 1], S)
    BY <2>3 DEF SeenBy
  <2>5. QED
    BY <1>1, <1>4, <2>1, <2>4 DEF Spent, Grown, Running, StepOf, SeenBy, Known
<1>8. QED
  BY <1>6, <1>7

(* The race: a column the opening had not seen and that is there.           *)
LEMMA LostSpent ==
  ASSUME TypeOK, Grown, RacesInv, NEW b \in Boots, NEW S, Spent(b, S), Running(b), StepOf(b).op = "alter",
         StepOf(b).of \notin boot[b].saw, StepOf(b).of \in columns,
         Fail(b), lost'[b] = lost[b] + 1
  PROVE  \E U : Spent(b, U)'
<1> DEFINE c == StepOf(b).of
<1>1. c \in AllColumns
  BY StepTyped
<1>2. PICK t \in AllTables : c \in LateColumns[t]
  BY <1>1 DEF AllColumns
<1>3. Known(S, t) \subseteq boot[b].saw
  BY <1>2 DEF Spent, SeenBy
<1>4. c \notin S /\ c \in missing
  BY <1>1, <1>2, <1>3 DEF Known
<1>5. S \subseteq missing \cap columns /\ Cardinality(S) = lost[b] /\ IsFiniteSet(S)
  BY ColumnsFinite, FS_Subset, TypeOKIs DEF Spent
<1> DEFINE U == S \cup {c}
<1>6. U \subseteq missing \cap columns
  BY <1>4, <1>5
<1>7. Cardinality(U) = lost'[b]
  BY <1>4, <1>5, FS_AddElement
<1>8. boot'[b].state # "running"
  BY FailIs
<1> HIDE DEF U, c
<1>9. QED
  BY <1>6, <1>7, <1>8, SpentUnlessAltering

LEMMA InitRaces == Init => RacesInv
<1> SUFFICES ASSUME Init PROVE RacesInv
  OBVIOUS
<1>1. AllColumns \ missing \subseteq columns
  BY DEF Init
<1>2. ASSUME NEW b \in Boots PROVE Spent(b, {})
  BY <1>2, FS_EmptySet DEF Init, Spent, Running
<1>3. QED
  BY <1>1, <1>2 DEF RacesInv

(* What is left to show of a step of opening b. *)
LEMMA RacesFrom ==
  ASSUME Grown, RacesInv, NEW b \in Boots, \A o \in Boots : o # b => boot'[o] = boot[o] /\ lost'[o] = lost[o],
         \E S : Spent(b, S)'
  PROVE  RacesInv'
<1>1. ASSUME NEW o \in Boots PROVE \E S : Spent(o, S)'
  <2>1. CASE o = b
    BY <2>1
  <2>2. CASE o # b
    <3>1. PICK S : Spent(o, S)
      BY DEF RacesInv
    <3>2. Spent(o, S)'
      BY <2>2, <3>1, SpentStays
    <3>3. QED
      BY <3>2
  <2>3. QED
    BY <2>1, <2>2
<1>2. (AllColumns \ missing)' \subseteq columns'
  BY DEF RacesInv, Grown
<1>3. QED
  BY <1>1, <1>2 DEF RacesInv

LEMMA NextRaces ==
  ASSUME TypeOK, OpeningsInv, RacesInv, [Next]_vars
  PROVE  RacesInv'
<1>1. Grown /\ columns \subseteq AllColumns /\ engine \in Engine
  BY NextGrown, TypeOKIs
<1>2. ASSUME \A o \in Boots : boot'[o] = boot[o], lost' = lost PROVE RacesInv'
  <2>1. ASSUME NEW o \in Boots PROVE \E S : Spent(o, S)'
    <3>1. PICK S : Spent(o, S)
      BY DEF RacesInv
    <3>2. Spent(o, S)'
      BY <1>1, <1>2, <3>1, SpentStays
    <3>3. QED
      BY <3>2
  <2>2. (AllColumns \ missing)' \subseteq columns'
    BY <1>1 DEF RacesInv, Grown
  <2>3. QED
    BY <2>1, <2>2 DEF RacesInv
<1>3. CASE UNCHANGED vars
  BY <1>2, <1>3 DEF vars
<1>4. ASSUME NEW b \in Boots, Others(b), lost' = lost,
             boot'[b].state # "running" \/ Script[boot'[b].step].op # "alter"
      PROVE  RacesInv'
  <2>1. PICK S : Spent(b, S)
    BY DEF RacesInv
  <2>2. Spent(b, S)'
    BY <1>1, <1>4, <2>1, SpentUnlessAltering DEF Spent
  <2>3. QED
    BY <1>1, <1>4, <2>2, RacesFrom DEF Others
<1>5. ASSUME NEW b \in Boots, Start(b) PROVE RacesInv'
  <2>1. boot'[b].step = 1 /\ Others(b) /\ lost' = lost
    BY <1>5, StartIs DEF OpeningsInv, OpeningInv, Start
  <2>2. Script[1].op # "alter"
    BY <1>1, AltersAreLooked, ScriptDomain DEF AltersLook
  <2>3. QED
    BY <1>4, <2>1, <2>2
<1>6. ASSUME NEW b \in Boots, Retry(b) PROVE RacesInv'
  <2>1. boot'[b].step = 1 /\ Others(b) /\ lost' = lost
    BY <1>6, RetryIs DEF Retry
  <2>2. Script[1].op # "alter"
    BY <1>1, AltersAreLooked, ScriptDomain DEF AltersLook
  <2>3. QED
    BY <1>4, <2>1, <2>2
<1>7. ASSUME NEW b \in Boots, Running(b), NEW saw \in SUBSET AllColumns, Advance(b, saw), lost' = lost,
             NEW k \in DOMAIN Script, k = boot[b].step,
             \A S : Spent(b, S) => /\ Script[k].op = "look" => Known(S, Script[k].of) \subseteq saw
                                   /\ Script[k].op = "alter" => SeenBy(saw, Script[k], S)
      PROVE  RacesInv'
  <2>1. PICK S : Spent(b, S)
    BY DEF RacesInv
  <2>2. Spent(b, S)'
    BY <1>1, <1>7, <2>1, AdvanceSpent
  <2>3. Others(b)
    BY <1>7, AdvanceIs
  <2>4. QED
    BY <1>1, <1>7, <2>2, <2>3, RacesFrom DEF Others
<1>8. ASSUME NEW b \in Boots, Create(b) \/ Index(b) \/ Backfill(b) PROVE RacesInv'
  <2>1. Running(b) /\ Advance(b, {}) /\ lost' = lost /\ StepOf(b).op \notin {"look", "alter"}
    BY <1>8 DEF Create, Index, Backfill
  <2>2. PICK k \in DOMAIN Script : k = boot[b].step
    BY <2>1, StepTyped
  <2>3. {} \in SUBSET AllColumns /\ Script[k].op # "look" /\ Script[k].op # "alter"
    BY <2>1, <2>2 DEF StepOf
  <2>4. QED
    BY <1>7, <2>1, <2>2, <2>3
<1>9. ASSUME NEW b \in Boots, Look(b) PROVE RacesInv'
  <2> DEFINE saw == columns \cap LateColumns[StepOf(b).of]
  <2>1. Running(b) /\ Advance(b, saw) /\ lost' = lost /\ StepOf(b).op = "look"
    BY <1>9 DEF Look
  <2>2. PICK k \in DOMAIN Script : k = boot[b].step
    BY <2>1, StepTyped
  <2>3. Script[k].op = "look" /\ saw = columns \cap LateColumns[Script[k].of]
    BY <2>1, <2>2 DEF StepOf
  <2>4. saw \in SUBSET AllColumns
    BY <1>1
  <2>5. ASSUME NEW S, Spent(b, S) PROVE Known(S, Script[k].of) \subseteq saw
    BY <2>3, <2>5 DEF Spent, Known, RacesInv
  <2> HIDE DEF saw
  <2>6. QED
    BY <1>7, <2>1, <2>2, <2>3, <2>4, <2>5
<1>10. ASSUME NEW b \in Boots, Alter(b) PROVE RacesInv'
  <2>1. Running(b) /\ StepOf(b).op = "alter" /\ boot[b].saw \in SUBSET AllColumns
    BY <1>10, StepTyped DEF Alter
  <2>2. PICK k \in DOMAIN Script : k = boot[b].step
    BY <2>1, StepTyped
  <2>3. Script[k].op = "alter"
    BY <2>1, <2>2 DEF StepOf
  <2>4. CASE Advance(b, boot[b].saw) /\ lost' = lost
    <3>1. ASSUME NEW S, Spent(b, S) PROVE SeenBy(boot[b].saw, Script[k], S)
      BY <2>1, <2>2, <3>1 DEF Spent, StepOf
    <3>2. QED
      BY <1>7, <2>1, <2>2, <2>3, <2>4, <3>1
  <2>5. CASE /\ StepOf(b).of \notin boot[b].saw /\ StepOf(b).of \in columns
             /\ lost' = [lost EXCEPT ![b] = lost[b] + 1] /\ Fail(b)
    <3>1. lost'[b] = lost[b] + 1 /\ \A o \in Boots : o # b => lost'[o] = lost[o]
      BY <2>5, TypeOKIs
    <3>2. PICK S : Spent(b, S)
      BY DEF RacesInv
    <3>3. \E U : Spent(b, U)'
      BY <1>1, <2>1, <2>5, <3>1, <3>2, LostSpent
    <3>4. Others(b)
      BY <2>5, FailIs
    <3>5. QED
      BY <1>1, <3>1, <3>3, <3>4, RacesFrom DEF Others
  <2>6. QED
    BY <1>10, <2>4, <2>5 DEF Alter
<1>11. ASSUME NEW b \in Boots, Break(b) PROVE RacesInv'
  BY <1>4, <1>11, FailIs DEF Break
<1>12. ASSUME NEW b \in Boots, NEW r \in Replies, Reply(b, r) PROVE RacesInv'
  BY <1>2, <1>12 DEF Reply
<1>13. QED
  BY <1>3, <1>5, <1>6, <1>8, <1>9, <1>10, <1>11, <1>12 DEF Next

THEOREM RacesInvariant == Spec => [](TypeOK /\ OpeningsInv /\ RacesInv)
<1>1. Init => TypeOK /\ OpeningsInv /\ RacesInv
  BY InitType, InitOpenings, InitRaces
<1>2. TypeOK /\ OpeningsInv /\ RacesInv /\ [Next]_vars => (TypeOK /\ OpeningsInv /\ RacesInv)'
  BY NextType, NextOpenings, NextRaces
<1>3. QED
  BY <1>1, <1>2, PTL DEF Spec

(* An opening fails of lost races at most once for each column that was     *)
(* missing: coming back that often gets through, whatever the others do.    *)
THEOREM RacesAreFinite == Spec => []RacesRunOut
<1>1. TypeOK /\ RacesInv => RacesRunOut
  <2> SUFFICES ASSUME TypeOK, RacesInv, NEW b \in Boots PROVE lost[b] <= Cardinality(missing)
    BY DEF RacesRunOut
  <2>1. PICK S : Spent(b, S)
    BY DEF RacesInv
  <2>2. S \in SUBSET missing /\ Cardinality(S) = lost[b] /\ IsFiniteSet(missing)
    BY <2>1, ColumnsFinite, FS_Subset, TypeOKIs DEF Spent
  <2>3. QED
    BY <2>2, FS_Subset
<1>2. QED
  BY <1>1, RacesInvariant, PTL

----------------------------------------------------------------------------
(* Links: what a message is linked to could be what it answered with.       *)

MessageInv(m, rows) == Matches(m, rows) /\ (m.new => m.link = m.own)

LinksInv == \A k \in DOMAIN messages : MessageInv(messages[k], ledger)

LEMMA LinkedMatches ==
  ASSUME ledger \in Seq(Attestation), NEW m \in Message, MessageInv(m, ledger)
  PROVE  MessageInv(Linked(m), ledger)
<1>1. CASE Linked(m) = m
  BY <1>1
<1>2. CASE m.link = NULL /\ Candidates(m) # {} /\ Linked(m) = [m EXCEPT !.link = Latest(Candidates(m))]
  <2> DEFINE i == Latest(Candidates(m))
  <2>1. i \in Candidates(m) /\ Newest(i, Candidates(m))
    BY <1>2, CandidatesLatest
  <2>2. /\ m.own \in DOMAIN ledger /\ ledger[m.own].agent = m.agent /\ ledger[m.own].output = m.content
        /\ SecondOf(ledger[m.own].time) <= SecondOf(m.time)
    BY DEF MessageInv, Matches
  <2>3. m.own \in Candidates(m)
    BY <2>2 DEF Candidates
  <2>4. i \in DOMAIN ledger /\ ledger[i].agent = m.agent /\ ledger[i].output = m.content
        /\ SecondOf(ledger[i].time) <= SecondOf(m.time)
    BY <2>1 DEF Candidates
  <2>5. SecondOf(ledger[m.own].time) <= SecondOf(ledger[i].time)
    <3>1. SecondOf(ledger[m.own].time) \in Nat /\ SecondOf(ledger[i].time) \in Nat
      BY <2>2, <2>4, RowTyped
    <3>2. SecondOf(ledger[m.own].time) < SecondOf(ledger[i].time)
          \/ SecondOf(ledger[m.own].time) = SecondOf(ledger[i].time)
      BY <2>1, <2>3 DEF Newest
    <3>3. QED
      BY <3>1, <3>2
  <2>6. m.own \in Nat /\ NULL \notin Nat
    BY UpgradeAssumption DEF Message
  <2>7. ~ m.new
    BY <1>2, <2>6 DEF MessageInv
  <2> DEFINE n == Linked(m)
  <2>8. n.link = i /\ n.own = m.own /\ n.agent = m.agent /\ n.content = m.content
        /\ n.time = m.time /\ n.new = m.new
    BY <1>2 DEF Message
  <2> HIDE DEF i, n
  <2>9. MessageInv(n, ledger)
    BY <2>2, <2>4, <2>5, <2>7, <2>8 DEF MessageInv, Matches
  <2>10. QED
    BY <2>9 DEF n
<1>3. QED
  BY <1>1, <1>2, LinkedIs

(* A ledger that grows takes nothing from a message. *)
LEMMA MatchesGrows ==
  ASSUME NEW rows \in Seq(Attestation), NEW row \in Attestation, NEW m, MessageInv(m, rows)
  PROVE  MessageInv(m, Append(rows, row))
<1> DEFINE more == Append(rows, row)
<1>1. DOMAIN rows = 1..Len(rows) /\ Len(rows) \in Nat
  OBVIOUS
<1>2. more \in Seq(Attestation) /\ Len(more) = Len(rows) + 1 /\ \A i \in 1..Len(rows) : more[i] = rows[i]
  BY AppendProperties
<1>3. DOMAIN more = 1..Len(rows) + 1
  BY <1>2
<1> HIDE DEF more
<1>4. \A i \in DOMAIN rows : i \in DOMAIN more /\ more[i] = rows[i]
  BY <1>1, <1>2, <1>3
<1>5. MessageInv(m, more)
  BY <1>4 DEF MessageInv, Matches
<1>6. QED
  BY <1>5 DEF more

LEMMA InitLinks == Init => LinksInv
<1> SUFFICES ASSUME Init PROVE LinksInv
  OBVIOUS
<1>1. PICK d \in Legacy : ledger = d.ledger /\ messages = d.messages
  BY DEF Init
<1>2. QED
  BY <1>1, UpgradeAssumption DEF LinksInv, MessageInv

LEMMA NextLinks ==
  ASSUME TypeOK, LinksInv, [Next]_vars
  PROVE  LinksInv'
<1>1. ledger \in Seq(Attestation) /\ messages \in Seq(Message)
  BY TypeOKIs
<1>2. CASE UNCHANGED <<ledger, messages>>
  BY <1>2 DEF LinksInv
<1>3. ASSUME NEW b \in Boots, Backfill(b) PROVE LinksInv'
  <2>1. ledger' = ledger /\ messages' = [k \in DOMAIN messages |-> Linked(messages[k])]
    BY <1>3 DEF Backfill
  <2>2. ASSUME NEW k \in DOMAIN messages PROVE MessageInv(messages'[k], ledger)
    <3>1. messages[k] \in Message /\ MessageInv(messages[k], ledger)
      BY <1>1 DEF LinksInv
    <3>2. MessageInv(Linked(messages[k]), ledger)
      BY <1>1, <3>1, LinkedMatches
    <3>3. QED
      BY <2>1, <3>2
  <2>3. DOMAIN messages' = DOMAIN messages
    BY <2>1
  <2>4. QED
    BY <2>1, <2>2, <2>3 DEF LinksInv
<1>4. ASSUME NEW b \in Boots, NEW r \in Replies, Reply(b, r) PROVE LinksInv'
  <2>1. PICK row \in Attestation, m \in Message :
          /\ ledger' = Append(ledger, row) /\ messages' = Append(messages, m)
          /\ m.new /\ m.link = Len(ledger) + 1 /\ m.own = Len(ledger) + 1
          /\ row.agent = m.agent /\ row.output = m.content /\ row.time = m.time
    BY <1>4, ReplyShape
  <2>2. MessageInv(m, ledger')
    <3>1. Len(ledger) \in Nat /\ ledger' \in Seq(Attestation) /\ Len(ledger') = Len(ledger) + 1
          /\ ledger'[Len(ledger) + 1] = row
      BY <1>1, <2>1, AppendProperties
    <3>2. Len(ledger) + 1 \in DOMAIN ledger'
      BY <3>1
    <3>3. SecondOf(row.time) = SecondOf(m.time) /\ SecondOf(m.time) \in Nat
      BY <2>1, SecondTyped DEF Message
    <3>4. QED
      BY <2>1, <3>1, <3>2, <3>3 DEF MessageInv, Matches
  <2>3. ASSUME NEW k \in DOMAIN messages' PROVE MessageInv(messages'[k], ledger')
    <3>1. Len(messages) \in Nat /\ DOMAIN messages = 1..Len(messages) /\ k \in 1..Len(messages) + 1
          /\ messages'[Len(messages) + 1] = m /\ \A i \in 1..Len(messages) : messages'[i] = messages[i]
      BY <1>1, <2>1, AppendProperties
    <3>2. CASE k = Len(messages) + 1
      BY <2>2, <3>1, <3>2
    <3>3. CASE k # Len(messages) + 1
      <4>1. k \in DOMAIN messages /\ messages'[k] = messages[k]
        BY <3>1, <3>3
      <4>2. MessageInv(messages[k], ledger)
        BY <4>1 DEF LinksInv
      <4>3. MessageInv(messages[k], ledger')
        BY <1>1, <2>1, <4>2, MatchesGrows
      <4>4. QED
        BY <4>1, <4>3
    <3>4. QED
      BY <3>2, <3>3
  <2>4. QED
    BY <2>3 DEF LinksInv
<1>5. QED
  BY <1>2, <1>3, <1>4 DEF Next, vars, Start, Retry, Create, Look, Alter, Index, Break

THEOREM LinksInvariant == Spec => [](TypeOK /\ LinksInv)
<1>1. Init => TypeOK /\ LinksInv
  BY InitType, InitLinks
<1>2. TypeOK /\ LinksInv /\ [Next]_vars => (TypeOK /\ LinksInv)'
  BY NextType, NextLinks
<1>3. QED
  BY <1>1, <1>2, PTL DEF Spec

(* A reply that was stored with its link keeps it, and one the backfill     *)
(* linked shows an attestation of its own agent and words, not earlier than *)
(* its own turn's and not later than itself.                                *)
THEOREM LinksAreRight == Spec => []LinksMatch
<1>1. LinksInv => LinksMatch
  BY DEF LinksInv, MessageInv, Matches, LinksMatch
<1>2. QED
  BY <1>1, LinksInvariant, PTL

(* No step takes a message away or gives it another link: of two openings   *)
(* that backfill at once, and of the turns stored meanwhile, none undoes    *)
(* another's link.                                                          *)
KeepsLinks ==
  \A k \in DOMAIN messages : messages[k].link # NULL =>
    k \in DOMAIN messages' /\ messages'[k].link = messages[k].link

LinksStay == [][KeepsLinks]_vars

LEMMA NextKeepsLinks ==
  ASSUME TypeOK, [Next]_vars
  PROVE  KeepsLinks
<1>1. ledger \in Seq(Attestation) /\ messages \in Seq(Message)
  BY TypeOKIs
<1>2. CASE messages' = messages
  BY <1>2 DEF KeepsLinks
<1>3. ASSUME NEW b \in Boots, Backfill(b) PROVE KeepsLinks
  <2>1. messages' = [k \in DOMAIN messages |-> Linked(messages[k])]
    BY <1>3 DEF Backfill
  <2>2. \A k \in DOMAIN messages : messages[k].link # NULL => Linked(messages[k]) = messages[k]
    BY DEF Linked
  <2>3. QED
    BY <2>1, <2>2 DEF KeepsLinks
<1>4. ASSUME NEW b \in Boots, NEW r \in Replies, Reply(b, r) PROVE KeepsLinks
  <2>1. PICK m \in Message : messages' = Append(messages, m)
    BY <1>4, ReplyShape
  <2>2. messages' \in Seq(Message) /\ Len(messages') = Len(messages) + 1
        /\ \A i \in 1..Len(messages) : messages'[i] = messages[i]
    BY <1>1, <2>1, AppendProperties
  <2>3. \A k \in DOMAIN messages : k \in DOMAIN messages' /\ messages'[k] = messages[k]
    BY <1>1, <2>2
  <2>4. QED
    BY <2>3 DEF KeepsLinks
<1>5. QED
  BY <1>2, <1>3, <1>4 DEF Next, vars, Start, Retry, Create, Look, Alter, Index, Break

THEOREM LinksAreKept == Spec => LinksStay
<1>1. TypeOK /\ [Next]_vars => [KeepsLinks]_vars
  BY NextKeepsLinks
<1>2. QED
  BY <1>1, UpgradeTypeCorrect, PTL DEF Spec, LinksStay
============================================================================
