# openrep in TLA+

openrep keeps a ledger of what AI agents did. An agent is an ed25519 identity;
every run that converges is signed and appended to the ledger as an
attestation, and an agent's score is computed from its attestations. The SDK
(`src/packages/sdk`) holds the rules, the CLI (`src/packages/cli`) and the web
app (`src/apps/web`) are two programs over it, often on one database.

This directory models the parts of that system in which the order of things
matters, checks them with TLC on small instances, and proves the most important
safety properties with TLAPS for instances of every size.

Contents: [the system](#1-the-system) · [modules](#2-modules-and-how-they-correspond-to-the-code) ·
[runs](#3-runs) · [fairness](#4-fairness) · [proofs](#5-proofs) ·
[where code and text disagree](#6-where-the-code-and-its-text-disagree) ·
[not modelled](#7-not-modelled-and-why) · [plan](#8-plan) · [how to run](#9-how-to-run)

## 1. The system

Line numbers below are of `src/`; `PROJECT.json` has a line range for every
definition.

| Component | State | Operations | Interacts with |
|---|---|---|---|
| Ledger store (`sdk/src/storage/sqlite.ts`, `libsql.ts`) | tables `agents`, `key_rotations`, `attestations`, `session_keys`, `chat_sessions`, `chat_messages`, users and accounts | one SQL statement or transaction per adapter method; unique and foreign keys; at every opening the bootstrap creates, upgrades and backfills | called by everything below; sqlite is one connection per process, libsql a remote database opened by every request |
| Identity (`agent.ts`, `rotation.ts`, `revocation.ts`) | none of its own: between awaits a call holds a row it read, a key it generated and a name it drew | `createAgent`, `rotateAgent`, `revokeAgent`, `setVisibility` | `agents`, `key_rotations` |
| Attestation (`attestation.ts`) | none of its own: between awaits a call holds its gate's verdict | `attest`, `ingest`, `verifyAttestation`, `verifyManifest` | `agents` (gates), `attestations` |
| Run loop and `wrapAgent` (`run-loop.ts`, `agent.ts`) | the conversation, the tool calls captured, a call counter, a timer with its abort signal | provider call, tool call, timeout | a provider client, tools, `attest` |
| Session key custody of the web app (`session-store-durable.ts`) | `session_keys` with an absolute expiry that slides on use | `get`, `set` | chat and create routes |
| Web API (`apps/web/src/app/api`) | `chat_sessions`, `chat_messages` | create, chat, visibility, score, session | SDK, custody, store |
| Sign-in (`server/auth.ts`, `session.ts`) | users, accounts, the guest cookie, the token | mint a guest, get-or-create a user and its link, check a password, merge a guest into an account | moves `session_keys` and `chat_sessions` between owners |
| Rate limiter (`server/rate-limit.ts`) | a bucket per key: window start and count | allow, sweep | every mutating route |
| Web pages and client cache (`apps/web/src/app`, `lib/client-cache.ts`) | per tab: page, identity learnt, one hook with its load; a map and `sessionStorage` behind it | load, merge, commit, lock, purge; send, create, toggle, sign in and out | web API |
| CLI chat screen (`cli/src/interactive.tsx`) | transcript and parked message in memory, provider key, busy flag | send, retry, submit or cancel a key, run a turn | `wrapAgent`, custody |
| CLI key custody (`cli/src/custody`) | OS keychain, encrypted file, the passphrase typed first | store a pair of agent keys or a provider key, resolve | CLI actions, other invocations |
| Scoring (`score.ts`) and its readers (score route, leaderboard, dashboard, audit) | between statements: a cursor, a tally, who may see what | page the ledger, weigh it, verify it row by row | `attestations`, `agents`, `session_keys`, `registered_sources` |
| Providers and tools (`sdk/src/providers`, `tools`) | per call: redirects followed, bytes read, a timer | build a request, read an answer, gate arguments, fetch | run loop, the network |
| Canonical JSON, key envelopes, names | none | pure functions | attestation, custody |

### What is hard about it

Everything is asynchronous, nothing holds a lock across an `await`, and both
programs may work on one database:

- **stale reads.** rotation, revocation, attest, ingest and the key store all
  read a row, await, and act on what they read (`rotation.ts:126`, `:179`,
  `attestation.ts:304`, `session-store-durable.ts:60`, `:67`);
- **check, then write.** names and idempotency keys are read optimistically and
  decided by unique indexes, with retry loops and a refetch behind them
  (`agent.ts:265`, `attestation.ts:390`);
- **partial failure.** agent then key, attestation then question then reply,
  each an own statement; and a remote write that fails may have been applied
  (`apps/web/.../route.ts:89`, `chat/route.ts:209`);
- **ownership that moves.** a sign-in moves a guest's keys and conversations to
  an account while the guest's requests are in flight (`auth.ts:108`);
- **several invocations.** the credentials file is read before a passphrase prompt
  and rewritten in place after it, without a lock (`encrypted-file.ts:149`, `:188`);
- **time.** sliding expiry, a run budget whose abort reaches provider calls but
  not tools (`run-loop.ts:167`), replay windows;
- **retries.** deterministic idempotency keys collapse retries, of a model that
  answers differently every time (`interactive.tsx:356`);
- **readers of moving tables.** a score pages a ledger that grows, a route checks
  ownership and then reads, a list is cached while it changes (`score.ts:77`,
  `score/route.ts:33`, `client-cache.ts:217`);
- **several openings.** every request and every invocation upgrades the database
  it opens, statement by statement (`libsql.ts:323-370`);
- **a network that does as it likes.** redirects, names that resolve anew, bodies
  that trickle, and models that write any arguments (`guards.ts:289-338`,
  `validate.ts`);
- **limits.** what may be signed and what may be handed back to the model as
  history have different bounds (`run-loop.ts:260` and `attestation.ts:27`).

`PROJECT.json` lists every hazard at its line, with the properties that cover
it or the reason none does yet.

### What makes each component correct

- *Identity*: a name resolves to one agent; a reported revocation is in the
  store; the owner's kill switch survives rotation; lineage is a forest; no
  step forgets, renames or revives; every call ends.
- *Attestation*: retries under one key hold one stored entry; every entry is
  signed by the agent it is about, and external evidence never passes for native
  work; calls begun after a revocation get nothing, not even a cached hit.
- *The two together*: they implement an append-only ledger in which entries and
  successors come only from calls admitted while their agent was live.
- *Web app*: nothing of an agent reaches another tenant; one holder per key; an
  agent reported as created is usable for its window; no reply without its
  attestation.
- *Opening a database*: no adapter over a part of the schema; whoever comes back
  gets through; replies keep their attestations.
- *Readers*: a score is exact or an error; nothing revoked is called valid;
  nothing private reaches who never held the key.
- *Sign-in*: one person, one account; no one is denied for having lost a race; the
  limiter lets in no more than its windows say and turns no one away early.
- *Pages*: once quiet, the screen shows what the server holds; what was created is
  listed.
- *Providers and tools*: a result goes back to the call it answers; a tool runs on
  what it declared; headers stay with the origin they were for; every run ends.
- *Key custody*: a create that reported success leaves both keys in one store for
  good; no write reseals the file under another passphrase; a key that exists is
  never silently missing.
- *Run loop and chat*: what is signed is what one run did; a reply carries an
  attestation of the message it answers; the context handed to a model is
  within its bounds and keeps the newest turn; every turn ends.

## 2. Modules and how they correspond to the code

```
 Store ──┬── Identity ──┐                  SessionKeys ── WebApp ── MCWebApp
         └── Attesting ─┴─ Ledger ─┬─ MCLedger
   LedgerPromise  <═ refines ══════╡           History ──┐
                     LedgerProofs ─┘                     ├─ ChatScreen ─┬─ MCChatScreen
                                               RunLoop ──┘   ToolRun ───┴─ ChatScreenProofs
                                               WebApp ── WebAppProofs
 Custody ─┬─ MCCustody     Upgrade ─┬─ MCUpgrade     Scoring ─┬─ MCScoring
          └─ CustodyProofs          └─ UpgradeProofs          └─ ScoringProofs

 Visits ── Accounts ─┬─ MCAccounts         SafeFetch ──┐
                     └─ AccountsProofs     ToolSchema ─┼─ ToolRun ─┬─ MCToolRun
 Pages ─┬─ MCPages                         Calculator ─┘           └─ ChatScreenProofs
        └─ PagesProofs
```

A step of a model runs from one `await` to the next: what JavaScript does in
between is atomic, and so is one SQL statement or transaction. Each storage
call is one action that includes the decisions the code takes on its outcome.

**Store** — the three ledger tables as sets of rows, the reads and writes the
SDK uses, and the schema's constraints as guards: unique `public_key` and `name`,
unique `(agent_id, idempotency_key)` where the key is not null, foreign keys. A
key pair is named by its public key, and an owner key by the agent it was
generated with, so a successor's `owner` is the root of its line. A timestamp is
named by the call that wrote it: no property compares times.

**Identity** — `createAgent`, `rotateAgent`, `revokeAgent` (idle → read → name →
save → done) and `setVisibility` (one statement). The name loop counts attempts
against `MaxTries` (`NAME_GENERATION_MAX_ATTEMPTS`), skips a taken name, treats a
failing read as free, and starts over when the insert hits the unique name,
unless the caller chose the name. A write may fail unapplied, or be applied and
its response lost: both return `STORAGE_WRITE_FAILED`. Key generation may fail.
A revoke or rotate may be refused for a missing owner key, a wrong signature or
a stale request, in the code's order.

**Attesting** — `attest` and `ingest` through the shared
`signAndPersistAttestation` (gate → lookup → save → refetch), and
`verifyAttestation`/`verifyManifest` (gate). Signatures are abstracted to who
holds the signing key; a content is a model value. `late` is a history field:
the agent was already revoked when the call began.

**Ledger** — composes the two over one store, states their properties, the
strengthening of the proofs, and the refinement mapping `Promise`.

**LedgerPromise** — the abstract ledger: register, revoke, admit, dismiss,
append, succeed. A call is admitted between its gate and its return. Its
comment quotes the revocation window the repository's README documents: what was
admitted before a revocation may still land.

**SessionKeys** — table `session_keys`, its statements, the clock, and the
decisions of `DurableSessionKeyStore.get` (inclusive expiry, absolute slide).

**WebApp** — POST create, POST chat and the merge of a sign-in, at every await
that reads or changes the shared tables. The libsql adapter is the reference:
each of its statements is an await of its own. `Abort` lets any await throw.
`merged` and `creator` are history.

**History** — `historySliceForTurn` and `normalizeHistory` as folds on
sequences. A content is known by its length; length 0 stands for whitespace only.

**RunLoop** — `runAgentLoop`: the loop head (turn limit first, then abort),
a provider call that converges, asks for a tool, breaks the protocol, fails or is
aborted, a tool that returns or throws, and the timer. `used` is the code's
`toolsUsed`; `ran` is history: what really ran.

**ChatScreen** — the terminal chat with one agent: send, retry, the turn parked
on a missing provider key, `wrapAgent` around RunLoop, the attestation under the
turn's idempotency key, the transcript, and a restart of the program (the
transcript is in memory, the ledger is not). `RunChatTurn` gets the transcript of
the render that handled the key press, which on a send does not show the entry
just pushed. `attest` is one step here; its races are Ledger's.

**Custody** — the CLI's stores and the chain over them. A process is one
invocation; `MaxOpen` says how many may overlap. Storing goes keychain → file →
seal, where `ReadFile` is `set` up to its first await (the passphrase) and
`SealFile` the rest, on what was read. A keychain tool may fail, having stored the
item or not; a write may fail or be killed and leave the file torn. The first
passphrase typed is kept for the process's lifetime. `created` is history: which
store took the keys of a create that reported success.

**Upgrade** — `createSqliteStorage`, `createLibsqlStorage` and their bootstrap as
a script of statements: create (one by one in sqlite, one batch in libsql), look
at a table's columns, alter for each one missing, index, backfill. `Boots`
are openings; any may stop before any statement, and come back. An opening that
is through stores replies with their link while others still backfill. `lost`
and `missing` are history: races lost, and what was missing at first.

**Scoring** — one reader, statement by statement, against the writers of its
tables: `getScore` (exists → page … → weights) inside the score route (find → own
→ manifest → score → rows, each verified on a read of its own), the leaderboard,
the terminal's dashboard, the audit of `verify`, and PATCH visibility (gate →
write). Readers change nothing another reader sees, but for the toggle's write,
which is a writer's action too, so one of them at a time is the general case. A
page is the set of its rows: each is counted or verified, and the oldest becomes the
cursor, whatever their order. A tally counts by source, and `composite` is the sum
over the sources registered when the weights are read. A statement that fails ends the
request, except a verification's: it is caught there, gives an invalid verdict, and the
request goes on to answer (`agent.ts:354-362`, `attestation.ts:611-616`; `Outcomes`).
`since` is history: what was so at some moment since the reader began, and how many rows
had been found valid when the reader's agent was revoked.

**Visits** — POST /api/session behind the fixed window limiter, the guest cookie
with its life, answers that arrive after another tab's. `granted` and `turnedAway`
are history.

**Accounts** — extends Visits with sign-ins by google (`getOrCreateUserByProvider`)
and by password (`authorize`), one action per statement, over the unique email and
the unique (provider, subject). A statement may fail before or after its effect.
Requests of either identity pass the limiter under their route's key (`Ask`: `user:` for
creates, `chat:` for turns).

**Pages** — one browser tab: the list, the create page and the chat of an agent,
each with `useCachedData` on its key. State set and state shown differ until
`Render`; a load runs from `Effect` to `Apply`; a post outlives its page. After a reload
next-auth is still "loading", and the list takes a signed-in user for the guest (`Learn`)
until it answers (`Recognise`). The
server is as the tab sees it; `born` is who there is, since a key pair is never drawn
twice. `applied` and `epoch` are history: how fresh what is shown is, in changes at the
server.

**Calculator** — the calculator's recursive descent, one operator per production, and a
second reading of the same tokens from the top down, which splits a span at its
operators. The parser computes as it goes, so its outcome is the order of its
arithmetic: operands and operators as a stack machine takes them. `Parse` has the
outcomes of every production at every token; a production is given what the calls it
makes return.

**ToolSchema** — the argument gate on JSON values and schemas of any depth. `Valid` is the
recursive call, `ValidateNode` one level of it. Beside it `Conforms` says what a schema
declares of one value, and `AsDeclared` that every part that can be reached conforms.
`Depth` is how many levels a schema has below it: JSON is finite, and that is all that
`SchemaAssumption` says of it. `Inherited` are the names every object has from its
prototype: `properties[key]` finds them (`validate.ts:61`), and what it finds is no schema, so
any plain object passes (`Named`, `PropSchema`); `key in record` (`:52`) sees them too.

**SafeFetch** — `safeFetch` hop by hop: gate, request, headers or redirect, body,
timer. Names resolve as they please each time; servers do anything or nothing.

**ToolRun** — extends these three: a run seen from the wire, with what each
adapter sends, which part of an answer it takes, the gate, and the tools by their
rule: fetch once, retry after a 502 (`web_search`), ask the other registry
(`package_info`), need two answers (`weather`, `wikipedia_lookup`), read the ledger,
calculate. It has RunLoop's loop without its timer and evidence; RunLoop has it
without names, ids and arguments.

**Faulty… definitions.** Beside some definitions stands one named `Faulty…`: a
plausible mistake in its neighbour. No specification uses it. `PROJECT.json`
(`mutants`) pairs each with a property that must fail when the mistake takes its
neighbour's place: a check that the property can fail at all.

## 3. Runs

| Run | Question | Instance |
|---|---|---|
| `MCLedger_identity` | Are names, revocations, kill switch, lineage and history right under any order of identity calls? | three calls of every kind (create with and without a name, rotate, revoke, hide), a live and a legacy agent, three keys to draw, two name attempts |
| `MCLedger_attest` | Do retries collapse, are entries accountable, are late calls refused? | two attestation calls against two identity calls, one idempotency key used on two agents, native and external sources, a wrong signer |
| `MCLedger_promise` | Do the calls implement LedgerPromise, and does each return? | two identity calls, one attestation call |
| `MCWebApp_tenants` | Do keys, conversations and attestations stay with their tenant? | four requests among creates, chats and a merge by a guest, an account and a stranger; the clock passes one whole window |
| `MCChatScreen_turns` | Do chat turns end, sign what they did and show the right attestation? | three turns, two messages, answers that are short, long and blank, two provider calls per run |
| `MCCustody_alone` | Do keys stay, both in one store, under one passphrase, and is a miss never silent? | one invocation at a time, two agents, a provider key, two passphrases |
| `MCUpgrade_boots` | Is what an opening hands out whole, are lost races finite, do replies keep their attestations? | two openings, two retries each, over no database, a first version and late ones with two turns of one text; both engines; two new replies |
| `MCScoring_readers` | Are scores exact, limits honest, revoked and private agents kept out? | two agents, ledgers of up to three rows and two more appended, pages of two, a cap of three, weights of every sign and NaN, two writes in between |
| `MCAccounts_signin` | One account per person, no one denied for a race, a limiter as strict as its windows? | two browsers of which one signs in, three sign-ins or five visits, two subjects and emails, two passwords, windows of two |
| `MCPages_tab` | Does a quiet tab show what the server holds, and list what it created? | one agent, a guest and an account, three changes at the server, three mounts or reloads |
| `MCToolRun_wire` | Are results paired, arguments gated, sums grouped, headers kept, and do runs end? | three turns on each adapter, a tool for each rule, every pair of answer blocks, every expression of up to three tokens and the longer shapes, schemas with an array in an object, an undeclared and an inherited name, three origins, two redirects |
| `MCLedger_claim_NoRevival` | Does a rotation never bring a revoked agent back? | refuted, see section 6 |

Bounds, and why they are enough for these questions:

- *Calls.* A race needs a reader, a writer that invalidates the read and, for
  the retry loops, a rival for the name or the key; three identity calls include
  rotations of a rotation's result and two rotations of one agent with a
  revocation. Four web requests are a create, two turns and a merge.
- *Names and tries.* Two attempts reach every branch of the loop: free, taken at
  the read, taken at the insert, exhausted. One is enough where names are not
  the question.
- *Clock.* `Window = 2`, `MaxTime = 2`: a key can be used before, at and after its
  expiry, and slid once. `MaxTime` only stops the clock.
- *Lengths.* The code's limits are 4000 (turn, task), 8000 (output), 16000
  (history) and 20 turns; the model keeps their order with 2, 2, 4, 4 and 3, so
  that the budget binds before the turn cap, and a legal output can be
  an illegal turn.
- *Invocations.* `MaxOpen = 1` is one user at one terminal, any number of
  invocations in a row; with `MaxOpen = 2` and a second process `CreatedKeysKept`
  fails (section 6). Two agents are one whose keys are stored and one that could
  disturb them.
- *Openings.* A race for a column has two sides; a third opening adds only more of
  the same. Two retries bring one that lost twice to the end.
- *Pages and caps.* Pages of two under a cap of three put the cap inside a page, at
  a page's end and beyond it, and leave a last page empty, full and part full.
- *Sign-ins.* Three are two that race and one that finds what they left. The
  instance takes either three sign-ins or enough visits to fill and leave
  a window, not both at once: they share no state but the cookie.
- *Changes of a tab.* A stale value needs a load, a change and another load or post
  that overtakes it; three of each kind of step reach every pair.
- *Network.* Two redirects reach another origin and come back, and a third is
  refused; one chunk is a body within its bound and the second exceeds it.
- *Arguments and expressions.* The deepest schema is an object with an array of
  strings, a level more than the stock tools have; eight tokens (`MaxInput`) hold two
  operators on three operands, with a sign or a pair of parentheses anywhere. What these bounds leave out is proved (section 5).
- *Turns.* `MaxTurns` bounds the turns a behaviour begins; three cover a turn,
  its retry after a lost response or a restart, and another message.

All configurations say `CHECK_DEADLOCK FALSE`: calls, requests and turns are
finite in an instance, so a behaviour ends when all are used up. Symmetry is used
in safety runs only, over calls and over keys and names that no request or seed
row mentions.

## 4. Fairness

`Ledger!FairSpec` assumes weak fairness of the continuation of every begun call:
the event loop resumes a call whose storage call has settled, and a driver call
settles (success, error or timeout). No call is assumed to begin.

`ChatScreen!FairSpec` assumes weak fairness of what the code itself makes
happen: the timer fires, a provider call in flight when it fired rejects with the
abort, a tool settles (the stock tools carry their own timeout,
`tools/guards.ts:277-316`; this is an assumption about any other tool, since the
run's abort signal never reaches one), and the continuation of `wrapAgent` runs.
No provider call is assumed to answer, and the user is not assumed to act.
So a turn of a provider that never answers ends by the timer alone.

`WireSpec` of ToolRun assumes weak fairness of the process's own steps, of the hop timer
(`guards.ts:293-318`, armed before the request and cleared after the body) and of
name lookups, which the operating system times out. It assumes that a provider call
does not hang (RunLoop has the timer that ends one). Of tool servers it assumes
nothing: they may be silent, trickle or redirect in circles.

The other specifications are about safety only and state no fairness.

## 5. Proofs

TLAPS checks every leaf. The assumptions are the named `ASSUME`s on constants
(`NULL` is no name, requests are well typed, seed rows are unique, limits are
naturals …), which TLC evaluates in every run. Bounds that only cap an instance
(`MaxTurns`, `MaxChanges`, `bound` …) are constants like the others: the theorems hold for
any value of them.

### LedgerProofs

`Spec` of Ledger, for any agents, names, keys, requests and calls:

| Theorem | States |
|---|---|
| `TypeCorrect` | `[]TypeOK` |
| `HistoryIsKept` | `HistoryKept`, an action property |
| `KillSwitchSafe` | `[]KillSwitchInherited` |
| `LineageStaysForest` | `[]LineageIsForest` |
| `LateCallsAreRefused` | `[]LateCallsRefused` |
| `RetriesAreCollapsed` | `[]RetriesCollapse` |
| `NamesResolve` | `[]NameResolves` |
| `RevocationsAreDurable` | `[]RevokeOkIsDurable` |
| `EntriesAreAccountable` | `[]EntriesAccountable` |
| `CallsAreBounded` | a call takes at most `2 * MaxTries + 4` steps, an attestation call at most five, and each step brings one call nearer its end and moves no other |

None of the state predicates is inductive. The base is `ShapeInv`: types, uniqueness of the
two unique columns (`UniqueRows`), and what a call holds at each await: for an
identity call (`Held`) that it is past the right start, has a key, and, when it
rotates, that the owner in the row it read is still the owner of the row stored.
That last conjunct is why the kill switch survives although the row is stale: the
one column the lineage depends on never changes, and `RowsKept` carries it over
every step of every other call.

- *Kill switch* adds `LinksOwned`: both ends of each link exist and answer to the
  key that signed it. A link is written with `Held`'s owner.
- *Forest.* A new link's new end was no agent before, so it is in no other link,
  as an old or a new end (both ends of a link are agents). A set of links closed
  under "my old end is some link's new end" cannot contain it, so without it the
  set would be closed already.
- *Late calls* adds `LateStopped`: a late call's agent is revoked and, revocation
  being permanent, the call never passes its gate; every row carries the stamp of
  a call that was not late. `IdentityStepWrites` and `AttestingStepWrites` say
  that each step writes rows of its own call only.
- *Retries* adds `UniqueKeys` (the composite unique index) and
  `DeliveredIsStored`: what a successful call was handed is stored under the
  call's agent and key. Two such rows are one by uniqueness.

- *Names and revocations* add `Reported`: what a call was told is in the rows, and a
  revocation is written over a row that exists. Rows are kept, so what is reported
  once stays; a name is one row's by `UniqueRows`.
- *Evidence* adds `EvidenceHeld`: between gate and insert a call carries evidence
  exactly if its source is external.

`PromiseIsKept` states `Spec => PromiseKept`: the refinement of LedgerPromise.
Its lemmas come in four layers: the promise's steps over what the tables show
(`StutterKept` … `SucceedKept`); what one statement changes of who is known and
who is revoked (`InsertShows`, `StampShows`, `ToggleShows`); that a step admits or
dismisses its own call only (`IdentityAdmits`, `AttestingAdmits`); and one case per
action. The invariant is `ShapeInv` with `LateStopped`, whose `WrittenInTime` says that
a row's writer has returned: so an insert appends an entry that was not there.

`CallsAreBounded` is about the retry loops: `IdLeft` and `AttLeft` count the steps a call
may still take, and every action lowers its own call's count, the name loop because a
try is used up each time round, whoever took the name. It is half of
`EveryCallReturns`; the other half, that a begun call does take its steps, is
fairness.

### ChatScreenProofs

`Spec` of ChatScreen, for any messages, lengths, limits, tools and turns:

| Theorem | States |
|---|---|
| `ChatTypeCorrect` | `[]TypeOK` |
| `RepliesAttested` | `[]RepliesAttestTheirMessage` |
| `OnlyWorkIsSigned` | `EvidenceIsWork`, an action property |
| `ContextsFit` | `[]ContextWithinBounds` |
| `TurnsAreBounded` | a turn takes at most `2 * MaxCalls + 4` steps, each of which brings its end nearer, and nothing else begins it anew |

The invariant of the first three is `IInv`: types; `LoopInv` (signed tools are the tools that ran,
the call counter leaves room at each stage, a converged run has an output);
`TurnInv` (the task of the turn that runs, or waits for a
key, is the last message of the transcript);
`KeyInv` (a row's key is the key of its task); and the property itself. A reply
found by its idempotency key belongs to a row of the same task by `KeyInv`, and
the task is the last message by `TurnInv`: pushing another message needs an idle
screen. Every earlier reply is judged on a prefix that no step changes.

`ContextsFit` adds `ContextInv`: what a run holds is `Normalized` of a valid history.
The rest is about that fold. The community modules define a fold by a function that
calls itself; `FoldExists` shows that there is one, by induction on the size of a set,
and `SizeWithFirst` and `KeptInBounds` what it computes, by induction along the
sequence (`InBounds` says what is kept of the turns from the i-th on). The theorem
modules' induction rules take an operator, so induction is by a smallest
counterexample (`SmallestOf`, `NoFirstFailure`), here as in ScoringProofs. The newest turn
is never the one dropped because a valid turn fits the empty budget:
`MaxTurn <= CharBudget` in `HistoryAssumption`, 4000 and 16000 in the code.

`TurnsAreBounded` counts what is left of a turn: a call and a tool for each provider call
that is left, the timer once, and the end (`LoopLeft`). It needs that no message is
parked while a turn runs (`ParkedInv`), or a key entered then would start another.

The module also extends ToolRun, the same loop on the wire, which shares no constant
and no variable with the screen. For any answers, tools, servers, schemas, arguments and
expressions:

| Theorem | States |
|---|---|
| `ResultsGoBackToTheirCalls` | `WireSpec => []ResultsArePaired` |
| `HeadersStayHome` | `WireSpec => []FetchKeepsItsScope` |
| `GateIsExact` | what the gate lets through is exactly what its schema declares, at every depth, and inherited names holding plain objects |
| `ToolsAreGated` | `WireSpec => []ToolsGetWhatTheyDeclare` |
| `RunsAreBounded` | a run has a bound on its steps, and each brings its end nearer |
| `CalculatorIsExact` | the parser computes each expression as the second reading reads it, and refuses exactly what cannot be read |
| `EvaluationsAreRead` | `WireSpec => []EvaluatesAsRead` |

- *Pairing.* `RunInv` says how messages, calls and the last request stay in step: two
  messages for each call taken up (`MessagesInv`), two fewer while a tool runs
  (`CallInv`), and the last request no longer than the messages it was made from
  (`WireInv`). What an adapter drops of a call (`KeptCall`) and of a message (`WireItem`)
  leaves the fields its provider pairs by (`KeptAgrees`, `WireItemAgrees`). `FetchInv` ties
  the requests of a fetch to its redirects at each stage.
- *Gate.* Functions that call themselves, like `Valid`, are shown to exist by the depth of a
  schema; then the gate agrees with `AsDeclared` on all schemas below a depth, for every
  depth.
- *Steps of a run.* `StepsLeft` weighs the turns that are left, in a turn the fetches that
  are left, in a fetch the redirects that are left, and in a hop its stage and the bytes
  it may still read. Whatever begins a layer anew (a turn its fetches, a redirect its hop)
  has used up one of the layer above, which weighs more. A trickling server is
  thus bounded by `MaxBytes`, a circle of redirects by `MaxRedirects`.
- *Calculator.* `RecursionExists`: a recursion whose body looks only at calls of
  lower rank has a solution. The rank of a call is the tokens that are left, then how many
  calls down the grammar go before a token is taken; that each production that returns
  has taken one (`Ahead`) must be shown along with it, because a loop goes on behind its
  operand. *Soundness* follows the rank: an operand or a list of operands spans what
  it took, its parentheses match (`Whole`), none of the operators that bind looser is
  outside them, and its outcome is a reading of that span; the rest of a loop turns any
  reading of what lies before it into one of the longer span (`Completes`). *Completeness*
  follows the length of the span: whatever is read of a span, the first production that
  its operators and the token behind it allow returns (`Finds`). In between are the facts
  about the second reading: which operators two spans with one between them have
  (`Joined`), and that it splits the whole where the two were joined (`SumJoins`,
  `ProductJoins`, `PowerJoins`).

### WebAppProofs

`Spec` of WebApp, for any requests, agents, guests, accounts, window and clock bound:

| Theorem | States |
|---|---|
| `WebTypeCorrect` | `[]TypeOK` |
| `OneHolder` | `[]KeyHasOneHolder` |
| `TenantsIsolated` | `[]TenantIsolation` |
| `TranscriptsAttested` | `[]RepliesAttested` |
| `CreationsUsable` | `[]CreatedAgentsUsable` |

`ShapeInv` has the types and what a request is at each stage. Over it:

- `HolderInv`. A key's owner is a tenant, a key's agent has one row, and whoever
  has read past a key is a tenant, although the row may have moved since
  (`ReadersAreTenants`). The one upsert cannot add a second holder because of
  `Waiting`: until its creator stores the first key, nobody holds a key of the
  agent or has read one. A merge moves a guest's rows, and a guest is a tenant
  only of what it created (`GuestIsCreator`), so the account becomes one.
- `TranscriptInv`. A session id is one row's, inserted by a turn that is past the
  insert; a turn that is to write its question or its reply is signed for the agent
  it addressed; a message stays in its session, which passes at most from a guest to
  the account it merged into (`SessionKept`).
- `UsableInv`. `Kept` bounds from below the expiry of every row, of every row a
  chat has read and of every stamp a chat is about to write, and says that a chat
  at the prune saw the window end. It holds because a stamp is taken from a clock
  that never steps back; a clock that did would break it.

### CustodyProofs

`Spec` of Custody, for any agents, keys, passphrases and processes:

| Theorem | States | of how many invocations at once |
|---|---|---|
| `CustodyTypeCorrect` | `[]TypeOK` | any |
| `KeychainKeepsPairs` | `[]KeychainKept`: a pair the keychain took stays in it | any |
| `KeysKept` | `[]CreatedKeysKept` | one |
| `MissesAreLoud` | `[]MissingIsLoud` | one |
| `PassphraseKept` | `PassphraseStays`, an action property | one |

The hypothesis of the last three, `MaxOpen <= 1`, is what the run has too: with two
invocations they fail (section 6, item 6). What holds for any number is worth as much:
the keychain is written item by item, so the hazard is the file's alone. `ShapeInv`
says what a process has in hand while it stores (an agent's pair, its second half, or
a provider key), `KeychainInv` that a pair half stored has its first half in the
keychain, `AloneInv` that what a process read of the file before its prompt is still the
file when it writes (`SeenIsCurrent`), which only being alone gives it.

### AccountsProofs

`Spec` of Accounts, for any browsers, sign-ins, requests, limits and bounds:

| Theorem | States |
|---|---|
| `LimitExact` | `[]LimitIsExact` |
| `AccountsTypeCorrect` | `[]TypeOK` |
| `OneAccount` | `[]OneAccountPerPerson` |
| `DenialsAreFair` | `[]DenialsHaveCause` |

- *Limiter.* `LimitInv` speaks of the grants of one key: its bucket counts those since
  its window began, nothing came after the window, and every stretch before it that
  reaches into it has fewer than the maximum (`Counted`). A key whose bucket was swept,
  or is over, has fewer than the maximum within the last window (`Rested`): that is why
  a sweep, which forgets buckets, lets in nobody early. `FirstGrant` and `NextGrant` add
  one grant to such a set.
- *Sign-ins.* `AccountInv` has `TablesInv` (one user per email, one link per identity, no
  link without its user) and what a sign-in knows at each statement (`Knows`): the user it
  joins is in the table, a link it lost the race for is there to be reread. Rows are never
  deleted, so what one sign-in knows no other can undo (`KnowsStays`).

### UpgradeProofs

`Spec` of Upgrade, for any openings, retries, ledgers and older databases whose links are
right (`UpgradeAssumption`), and both engines:

| Theorem | States |
|---|---|
| `UpgradeTypeCorrect` | `[]TypeOK` |
| `HandedOutWhole` | `[]BootedIsComplete` |
| `RacesAreFinite` | `[]RacesRunOut` |
| `LinksAreRight` | `[]LinksMatch` |
| `LinksAreKept` | `LinksStay`: no step changes or drops a link, an action property |

- *Whole.* `OpeningInv`: what lies behind an opening in its script is established, and
  nothing established is undone, since no statement of any opening drops a thing (`Grown`). An
  alter is skipped only for a column its look showed, or fails, and then it starts over.
- *Races.* `Spent`: for each opening there is a set of columns, as many as races it has
  lost, that were missing at first and exist now; its next look at their table shows them,
  so it does not race for them again. `lost` is thus at most the number of missing columns.
- *Links.* `MessageInv`, from what the backfill picks: the latest attestation of the
  agent and the words up to the message (`LatestIs`), which is no earlier than the message's
  own turn because that one is a candidate too.

### ScoringProofs

`Spec` of Scoring, for any agents, users, ledgers, page sizes, caps and weights, and any
number of writes while a request runs:

| Theorem | States |
|---|---|
| `ScoringTypeCorrect` | `[]TypeOK` (not in the run: its sets of tallies over the naturals cannot be enumerated) |
| `RevokedStaysInvalid` | `[]RevokedVerifiesNothing` |
| `PrivateAgentsHidden` | `[]PrivateStaysHidden` |
| `CapIsHonest` | `[]LimitIsHonest` |
| `ScoresAreExact` | `[]ScoreIsExact` |

- *Types* need `Placed`: which stage belongs to which kind of request, so that what a
  stage reads has been written.
- *Verdicts* and *discretion* relate the reader to its history: what a request has read was
  so when it read it, `since` only grows, and a revocation is for good. A revocation on the
  way notes in `since` how many rows the reader has found valid; every outcome after it is
  invalid, so the count stays there (`CountKept`). `Discreet` says of
  each stage of each request why it may go on: the agent was public at the check, or its
  user held the key.
- *Exactness* is `Walks`. At a cursor, what a walk has counted is exactly the rows from the
  cursor on that were there at its first page, and what is left is the rows below it
  (`RowsWalked`). Rows are only appended, with newer positions, so a write never moves a row
  across the cursor (`LedgerGrows`). Over it stand three layers about data: that the sum over
  the rows is the sum by source (`SumBySource`, an induction over finite sets), that a page is
  the newest rows below its cursor (`PageIsNewest`, `CursorIsOldest`), and that adding a page
  to a tally counts its rows once (`TallyAddsPage`, `CompositeIsSum`).

### PagesProofs

`Spec` of Pages, for any agents and any number of changes, mounts, reloads and posts:

| Theorem | States |
|---|---|
| `TabInvariant` | `[]TabInv` |
| `QuietTabsAreCurrent` | `[]SettledIsCurrent` |
| `CreatedAgentsListed` | `[]CreatedIsListed` |

`TabInv` follows a value from the server to the screen:

- *What it may be.* `Good` speaks of any value under a key, in the hook, in flight or in
  either cache: a list has every agent this tab made for its owner, and a transcript is
  none that never was. A created agent is new, so no value could have had it, and the
  purge has emptied both caches of lists before it counts as made. Nothing of the create
  page's hook or load outlives the mount. `GoodStays` carries this over every
  change at the server.
- *How fresh it is.* `began`, `applied` and a post's `epoch` are stamps; what bears the
  stamp of the last change is what the server would answer now (`Current`, `AnswerOK`,
  `PostOK`). The merge is why `Freshness` has its condition: the longer transcript is kept,
  and it is the current one if the answer it beats was.
- *Locks.* A page is locked only over a conversation that is not this browser's
  (`Shut`), and then it stays so while the page is open: `ServerMoves` says that a row
  may be pruned then, and never comes back. So no lock covers a chat that could go on.

`born` is needed: a `Create` that may draw any agent without a row or a message draws one
a second time after its row expired and was pruned, and `made` then says too much of it.

### Model-checked only

Every invariant and action property of the passing runs is proved. What is left to TLC is
liveness, outside this prover's reach as `ENABLED` is: `EveryCallReturns`, `EveryTurnEnds` and
`EveryRunEnds`. Of each of them one half is proved, `CallsAreBounded`, `TurnsAreBounded`
and `RunsAreBounded`: nothing goes on for ever. The other half, that nothing stands still
before its end, is what the fairness of section 4 and TLC add.

## 6. Where the code and its text disagree

One is a run that ends in a counterexample, quoted in `PROJECT.json` (`findings`):

1. `NoRevival` — a revocation between a rotation's read and its transaction
   leaves a revoked agent with a live successor (`rotation.ts:126`; `:122-123` says a
   rotation "must never bring a revoked agent back to life under a new id"). The kill
   switch still reaches the successor (`KillSwitchInherited` is proved), but the
   owner has to use it again.

The others are behaviours of the models, without a run of their own:

2. A visibility change in the same window is undone in the successor
   (`rotation.ts:179`; `:175-178` "the user's visibility choice outlives the key
   material").
3. A request that read a key's old expiry deletes the row another request has
   extended meanwhile (`session-store-durable.ts:60`; `:20-22` "an active session
   never expires under its own activity").
4. A guest's turn in flight across a merge recreates a conversation the account
   has too; every later merge collides (`auth.ts:108`; `:110-111` "a later merge can
   retry").
5. The terminal's idempotency key is a digest of agent and message: the same
   message again shows a new reply under the old reply's attestation
   (`interactive.tsx:356`; `technical.md:94` "the signed record always covers the new
   turn and its output").
6. Two overlapping invocations lose keys: one waits at its passphrase prompt with
   the file it read, the other stores a new agent's keys and reports success, the
   first rewrites the file without them (`encrypted-file.ts:149`). In Custody,
   `CreatedKeysKept` fails with `MaxOpen = 2`; with one invocation at a time it holds.
7. Client cache and pages: a GET that is answered before a lock and applied after it
   unlocks the chat (`client-cache.ts:217-222`; `page.tsx:288-289` "fail closed"); the merge
   compares with what was last rendered, so a GET landing between a commit and its
   render puts the older transcript back (`client-cache.ts:217`); a commit has no
   merge (`page.tsx:163` "never regress"); during a sign-in or sign-out, and after a
   signed-in user's reload while next-auth is loading, a list may be cached under the key
   of the other identity (`agents/page.tsx:98-108`; `:96-97` "skips the fetch rather than
   guessing an identity"); chat
   and score keys use the guest's id whoever is signed in (`client-cache.ts:10-14`);
   "the message never landed on the ledger" (`page.tsx:300-301`) is not so for a lost
   response; "composite only ever grows" (`page.tsx:191`) is not so with weights
   that change. `SettledIsCurrent` therefore speaks of a quiet
   tab whose data was asked for after the last change at the server.
8. Two tabs that mount at once without a cookie mint two guests, and the cookie that
   arrives last wins (`lib/session.ts:5-8` "re-mounting is idempotent"); Visits has
   the race.
9. The backfill's link is the right one only if no other turn with the same words
   was attested between a reply's attestation and the reply (`sqlite.ts:297-301`
   calls it fully determined); `LinksMatch` states what does hold.
10. A text beside a tool call wins and the call is dropped (`openai.ts:197`,
   `gemini.ts:154`, `anthropic.ts:70-89`); an openai answer whose call has no id runs
   its tool and is refused in the next request (`openai.ts:64-77`); the schema
   type "integer" is always refused, and an array without `items` takes objects only
   (`validate.ts`); a closed schema lets an undeclared `constructor`, `toString` or
   `__proto__` through when it holds a plain object, and `required` counts inherited names
   as present (`validate.ts:61`, `:52`; `:12` "additionalProperties: false"); tool
   results are captured whole while `attest` refuses an entry that is too long, so a
   converged run can be lost (`run-loop.ts:175`).

Smaller ones: `createChatSession`'s reread that
"cannot miss" (`libsql.ts:1002`) can miss when a merge moves the row (modelled in
`RereadSession`, harmless: the turn fails); `run-loop.ts:36` says truncation
"always drops from the oldest end", but `:270` continues past a turn that does
not fit and can keep older ones; `runChatTurn`'s `refreshNow` (`interactive.tsx:374`)
returns at once because its own turn still holds the busy flag; and a reply of
4001 to 8000 characters, or a blank one, is signed and kept, and the following
turns are refused for their history (`run-loop.ts:260`): in the terminal until
twenty newer entries have pushed it out, on the web, whose route appends nothing
for a refused turn (`chat/route.ts:198`), for good.

## 7. Not modelled, and why

- **One shared sqlite connection**: its adapter is synchronous between awaits, and the
  one transaction with an `await` inside (`sqlite.ts:731-751`) belongs to `rotateAgent`,
  which no program here runs beside other calls in one process. An embedder that
  does should give it a connection of its own.
- **Pure functions** (canonical JSON, hex, key envelopes, name generation, password
  hashing, parsing of rows): no state, unit-testable; the models contain their
  outcomes as choices.
- **What tools cut out of a body**: text; ToolRun has usable or not. Arithmetic
  itself, too: Calculator has the order it is done in.
- **The score chip's hook** of the chat page: the list's hook without a purge.
- **Rendering, effects, markdown, the legal pages, the terminal's line editor**: no
  shared state. The busy flag of the terminal's screens (`interactive.tsx:271`): a
  message sent while a verify runs stays on the transcript unanswered, and ctrl+r
  sends it.
- **Auth.js, the operating system's keychain tools, DNS, model providers**: external;
  actions give their outcomes.
- **In-memory session store**: nothing in the repository constructs it outside
  tests. The same holds for `delete` and `clearExpired` of the durable one.
- **Marketplace**: a directory without code.

## 8. Plan

Done, in order of importance: the ledger's calls and their promise; the web app's
custody, conversations and merge; the run loop and the terminal chat; the CLI's
key custody; opening and upgrading a database; the readers of the ledger; visits,
sign-in and the limiter; the pages over the client cache; providers and tools.

Proved: every invariant, every action property and the refinement the runs check; what
the gate and the calculator's parser return for inputs of any size; a bound on the
steps of calls, turns and runs.

Open modules: the terminal's busy flag across its screens; the web chat's history
bound in WebApp through module History.

## 9. How to run

```
tlc -workers 2 -config MCLedger_identity.cfg MCLedger.tla
tlapm LedgerProofs.tla
tlapm WebAppProofs.tla
tlapm ChatScreenProofs.tla
tlapm CustodyProofs.tla
tlapm AccountsProofs.tla
tlapm UpgradeProofs.tla
tlapm ScoringProofs.tla
tlapm PagesProofs.tla
```

Every run in `PROJECT.json` ends within five minutes on two cores; a run with
`expect: violation` is to end in the counterexample.
