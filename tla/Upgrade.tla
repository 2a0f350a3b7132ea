------------------------------- MODULE Upgrade -------------------------------
(***************************************************************************)
(* Opening a ledger database: the bootstrap both adapters run over         *)
(* whatever an older version left behind.  Every CLI invocation runs it    *)
(* (sqlite, one process per invocation) and so does every web request      *)
(* (libsql, one client per request), so several of them may be upgrading   *)
(* the same database at once, statement by statement, and any may stop at  *)
(* any statement.                                                          *)
(*                                                                         *)
(* A column that was added to a table after its first version is "late":   *)
(* neither engine has ADD COLUMN IF NOT EXISTS, so the code asks for the   *)
(* columns of the table first and alters it only if one is missing.  The   *)
(* last statement links the assistant replies that were stored before      *)
(* replies carried an attestation id.                                      *)
(***************************************************************************)
EXTENDS Integers, Sequences, FiniteSetsExt

CONSTANTS
    Agents, Texts,  \* what rows are about
    Boots,          \* openings of the database: processes, or requests
    Legacy,         \* the databases an older version may have left: records of
                    \* tables, columns, ledger and messages
    Replies,        \* agent and text of the replies booted programs may store
    MaxReplies,     \* how many they store
    MaxRetries,     \* how often an opening that failed is tried again
    NULL

VARIABLES
    engine,         \* "sqlite" or "libsql"
    tables,         \* the tables that exist
    columns,        \* the late columns that exist
    indexed,        \* the unique index on (agent_id, idempotency_key) exists
    ledger,         \* attestations by row_id: agent, output, time
    messages,       \* chat_messages by row_id: agent, content, time, link and,
                    \* as history, own: the attestation of the same turn
    boot,           \* per opening: its step, the columns it saw, its retries
    lost,           \* history: how often an opening failed in an ALTER
    missing         \* history: the late columns missing at the start

vars == <<engine, tables, columns, indexed, ledger, messages, boot, lost, missing>>

-----------------------------------------------------------------------------
(***************************************************************************)
(* The schema.  The five tables left out have no late column and are       *)
(* created like accounts.                                                  *)
(***************************************************************************)
TableOrder == <<"agents", "attestations", "chat_messages", "accounts">>

LateColumns ==
    [agents        |-> {"owner_public_key", "revoked_at", "visibility"},
     attestations  |-> {"idempotency_key", "external_verification"},
     chat_messages |-> {"attestation_id"},
     accounts      |-> {}]

AllTables == {TableOrder[i] : i \in DOMAIN TableOrder}
AllColumns == UNION {LateColumns[t] : t \in AllTables}

Attestation == [agent : Agents, output : Texts, time : Nat]

Message ==
    [agent : Agents, content : Texts, time : Nat, link : Nat \cup {NULL}, own : Nat, new : BOOLEAN]

\* The guarded upgrades in the order of the code. owner_public_key and
\* revoked_at are decided on one look at the table.
Upgrades ==
    << [op |-> "look",  of |-> "attestations"],  [op |-> "alter", of |-> "idempotency_key"],
       [op |-> "index", of |-> "attestations"],
       [op |-> "look",  of |-> "agents"],        [op |-> "alter", of |-> "owner_public_key"],
                                                 [op |-> "alter", of |-> "revoked_at"],
       [op |-> "look",  of |-> "agents"],        [op |-> "alter", of |-> "visibility"],
       [op |-> "look",  of |-> "attestations"],  [op |-> "alter", of |-> "external_verification"],
       [op |-> "look",  of |-> "chat_messages"], [op |-> "alter", of |-> "attestation_id"],
       [op |-> "backfill", of |-> "chat_messages"] >>

\* sqlite runs the CREATE statements one by one, libsql in one batch.
Creations ==
    IF engine = "libsql" THEN << [op |-> "create", of |-> AllTables] >>
    ELSE [i \in DOMAIN TableOrder |-> [op |-> "create", of |-> {TableOrder[i]}]]

Script == Creations \o Upgrades

-----------------------------------------------------------------------------
StepOf(b) == Script[boot[b].step]
Running(b) == boot[b].state = "running"
Booted(b) == boot[b].state = "booted"

\* The statement succeeded: the next one, or the adapter is handed out.
Advance(b, saw) ==
    boot' = [boot EXCEPT ![b] =
                IF @.step = Len(Script) THEN [@ EXCEPT !.state = "booted", !.saw = {}]
                ELSE [@ EXCEPT !.step = boot[b].step + 1, !.saw = saw]]

FaultyFail(b) ==        \* logs the error and hands the adapter out
    boot' = [boot EXCEPT ![b] = [@ EXCEPT !.state = "booted", !.saw = {}]]

\* The bootstrap throws; nothing it did is undone.
Fail(b) == boot' = [boot EXCEPT ![b] = [@ EXCEPT !.state = "failed", !.saw = {}]]

Start(b) ==
    /\ boot[b].state = "idle"
    /\ boot' = [boot EXCEPT ![b].state = "running"]
    /\ UNCHANGED <<engine, tables, columns, indexed, ledger, messages, lost, missing>>

\* The caller comes back: another invocation, the next request.
Retry(b) ==
    /\ boot[b].state = "failed"
    /\ boot[b].retries < MaxRetries
    /\ boot' = [boot EXCEPT ![b] = [state |-> "running", step |-> 1, saw |-> {},
                                    retries |-> @.retries + 1]]
    /\ UNCHANGED <<engine, tables, columns, indexed, ledger, messages, lost, missing>>

\* CREATE TABLE IF NOT EXISTS: a new table has all its columns, one that exists
\* is left as it is.
Create(b) ==
    /\ Running(b) /\ StepOf(b).op = "create"
    /\ LET new == StepOf(b).of \ tables IN
        /\ tables' = tables \cup new
        /\ columns' = columns \cup UNION {LateColumns[t] : t \in new}
    /\ Advance(b, {})
    /\ UNCHANGED <<engine, indexed, ledger, messages, lost, missing>>

\* PRAGMA table_info
Look(b) ==
    /\ Running(b) /\ StepOf(b).op = "look"
    /\ Advance(b, columns \cap LateColumns[StepOf(b).of])
    /\ UNCHANGED <<engine, tables, columns, indexed, ledger, messages, lost, missing>>

FaultyAlter(b) ==       \* alters without looking
    /\ Running(b) /\ StepOf(b).op = "alter"
    /\ LET c == StepOf(b).of IN
        \/ /\ c \notin columns
           /\ columns' = columns \cup {c}
           /\ Advance(b, boot[b].saw)
           /\ UNCHANGED lost
        \/ /\ c \in columns
           /\ lost' = [lost EXCEPT ![b] = @ + 1]
           /\ Fail(b)
           /\ UNCHANGED columns
    /\ UNCHANGED <<engine, tables, indexed, ledger, messages, missing>>

\* ALTER TABLE ADD COLUMN, if the look missed it. Another opening may have added
\* it since: then the statement fails.
Alter(b) ==
    /\ Running(b) /\ StepOf(b).op = "alter"
    /\ LET c == StepOf(b).of IN
        \/ /\ c \in boot[b].saw
           /\ Advance(b, boot[b].saw)
           /\ UNCHANGED <<columns, lost>>
        \/ /\ c \notin boot[b].saw /\ c \notin columns
           /\ columns' = columns \cup {c}
           /\ Advance(b, boot[b].saw)
           /\ UNCHANGED lost
        \/ /\ c \notin boot[b].saw /\ c \in columns
           /\ lost' = [lost EXCEPT ![b] = @ + 1]
           /\ Fail(b)
           /\ UNCHANGED columns
    /\ UNCHANGED <<engine, tables, indexed, ledger, messages, missing>>

\* CREATE UNIQUE INDEX IF NOT EXISTS. No stored row has a key the index could
\* refuse: the column is new, and rows of its time hold NULL.
Index(b) ==
    /\ Running(b) /\ StepOf(b).op = "index"
    /\ indexed' = TRUE
    /\ Advance(b, {})
    /\ UNCHANGED <<engine, tables, columns, ledger, messages, lost, missing>>

-----------------------------------------------------------------------------
\* datetime() drops what is below a second; a unit of time is half of one.
SecondOf(t) == t \div 2

\* The rows that may be what message m answered with: same agent, same text,
\* not later in seconds.
Candidates(m) ==
    {i \in DOMAIN ledger : /\ ledger[i].agent = m.agent
                           /\ ledger[i].output = m.content
                           /\ SecondOf(ledger[i].time) <= SecondOf(m.time)}

\* ORDER BY datetime(timestamp) DESC, row_id DESC LIMIT 1
Latest(rows) ==
    CHOOSE i \in rows : \A j \in rows :
        \/ SecondOf(ledger[j].time) < SecondOf(ledger[i].time)
        \/ SecondOf(ledger[j].time) = SecondOf(ledger[i].time) /\ j <= i

FaultyLinked(m) ==      \* forgets attestation_id IS NULL
    IF Candidates(m) # {} THEN [m EXCEPT !.link = Latest(Candidates(m))] ELSE m

\* The reply as the backfill leaves it: only a NULL link is filled in.
Linked(m) ==
    IF m.link = NULL /\ Candidates(m) # {} THEN [m EXCEPT !.link = Latest(Candidates(m))]
    ELSE m

Backfill(b) ==
    /\ Running(b) /\ StepOf(b).op = "backfill"
    /\ messages' = [k \in DOMAIN messages |-> Linked(messages[k])]
    /\ Advance(b, {})
    /\ UNCHANGED <<engine, tables, columns, indexed, ledger, lost, missing>>

\* A reply follows its own turn's attestation, and shows one that could be it.
Matches(m, rows) ==
    /\ m.own \in DOMAIN rows /\ rows[m.own].agent = m.agent /\ rows[m.own].output = m.content
    /\ SecondOf(rows[m.own].time) <= SecondOf(m.time)
    /\ m.link # NULL =>
         /\ m.link \in DOMAIN rows /\ rows[m.link].agent = m.agent /\ rows[m.link].output = m.content
         /\ SecondOf(rows[m.own].time) <= SecondOf(rows[m.link].time)
         /\ SecondOf(rows[m.link].time) <= SecondOf(m.time)

ASSUME UpgradeAssumption ==
    /\ NULL \notin Nat /\ MaxRetries \in Nat
    /\ Replies \subseteq [agent : Agents, text : Texts]
    /\ \A d \in Legacy :
         /\ d.tables \subseteq AllTables /\ d.columns \subseteq AllColumns
         /\ d.ledger \in Seq(Attestation) /\ d.messages \in Seq(Message)
         /\ \A k \in DOMAIN d.messages : ~ d.messages[k].new /\ Matches(d.messages[k], d.ledger)

-----------------------------------------------------------------------------
\* A statement throws, or the process is killed before it.
Break(b) ==
    /\ Running(b)
    /\ Fail(b)
    /\ UNCHANGED <<engine, tables, columns, indexed, ledger, messages, lost, missing>>

\* A program that has its adapter completes a chat turn: attestation first, then
\* the reply with its link. Both rows are later than the legacy ones; two turns may end
\* in one second.
Reply(b, r) ==
    /\ Booted(b)
    /\ Cardinality({k \in DOMAIN messages : messages[k].new}) < MaxReplies
    /\ LET now == Len(ledger) + 4 IN
        /\ ledger' = Append(ledger, [agent |-> r.agent, output |-> r.text, time |-> now])
        /\ messages' = Append(messages, [agent |-> r.agent, content |-> r.text, time |-> now,
                                         link |-> Len(ledger) + 1, own |-> Len(ledger) + 1,
                                         new |-> TRUE])
    /\ UNCHANGED <<engine, tables, columns, indexed, boot, lost, missing>>

-----------------------------------------------------------------------------
Init ==
    /\ engine \in {"sqlite", "libsql"}
    /\ \E d \in Legacy :
        /\ tables = d.tables
        /\ columns = d.columns
        /\ indexed = ("idempotency_key" \in d.columns)
        /\ ledger = d.ledger
        /\ messages = d.messages
        /\ missing = AllColumns \ d.columns
    /\ boot = [b \in Boots |-> [state |-> "idle", step |-> 1, saw |-> {}, retries |-> 0]]
    /\ lost = [b \in Boots |-> 0]

Next ==
    \E b \in Boots :
        \/ Start(b) \/ Retry(b)
        \/ Create(b) \/ Look(b) \/ Alter(b) \/ Index(b) \/ Backfill(b)
        \/ Break(b)
        \/ \E r \in Replies : Reply(b, r)

Spec == Init /\ [][Next]_vars

-----------------------------------------------------------------------------
TypeOK ==
    /\ engine \in {"sqlite", "libsql"}
    /\ tables \subseteq AllTables
    /\ columns \subseteq AllColumns
    /\ indexed \in BOOLEAN
    /\ ledger \in Seq(Attestation)
    /\ messages \in Seq(Message)
    /\ boot \in [Boots -> [state : {"idle", "running", "failed", "booted"},
                           step : DOMAIN Script, saw : SUBSET AllColumns,
                           retries : 0..MaxRetries]]
    /\ lost \in [Boots -> Nat]
    /\ missing \subseteq AllColumns

\* An adapter is handed out over the whole schema only, whoever built which part
\* of it and whoever stopped half way (sqlite.ts:1293-1310, libsql.ts:306-313).
BootedIsComplete ==
    (\E b \in Boots : Booted(b)) =>
        tables = AllTables /\ columns = AllColumns /\ indexed

\* Losing the race for a column is the only way the database itself makes an
\* opening fail, and there is one such race per column that was missing: coming
\* back that often always gets through, with every other opening racing and
\* stopping as it likes (the look before each ALTER, libsql.ts:226-293).
RacesRunOut ==
    \A b \in Boots : lost[b] <= Cardinality(missing)

\* A reply stored with its link keeps it, whatever rows come later and however
\* many openings backfill at once; a reply linked by the backfill shows an
\* attestation of its own agent and text, its own turn's or that of a turn with
\* the same words that was attested between its own and its reply
\* (sqlite.ts:295-334).
LinksMatch ==
    \A k \in DOMAIN messages : LET m == messages[k] IN m.link # NULL =>
        /\ m.new => m.link = m.own
        /\ ledger[m.link].agent = m.agent /\ ledger[m.link].output = m.content
        /\ SecondOf(ledger[m.own].time) <= SecondOf(ledger[m.link].time)
        /\ SecondOf(ledger[m.link].time) <= SecondOf(m.time)
=============================================================================
