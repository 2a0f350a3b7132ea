------------------------------- MODULE Scoring -------------------------------
(***************************************************************************)
(* The readers of the ledger: getScore, the score page's route, the two    *)
(* boards that list agents with their scores, and the CLI's audit of one   *)
(* agent; and the visibility route, which checks as they do before it      *)
(* writes.  Each is a chain of statements with an await after every one,   *)
(* over tables that others change in between.  They do not disturb each    *)
(* other but through their writes, so one of them against the writers is   *)
(* the general case.                                                       *)
(*                                                                         *)
(* A row's id is its place in the ledger, a timestamp is a number: an      *)
(* ingested row may be older than the rows before it.                      *)
(***************************************************************************)
EXTENDS Integers, Sequences, FiniteSetsExt, Functions

CONSTANTS
    Agents, Users,
    Sources,        \* the names a row may have as its source
    Owner,          \* the user that holds the keys of the agents at first
    Rows,           \* the rows that are written: agent, source, time
    Ledgers,        \* the ledgers a request may find
    Weights,        \* the weights a source is registered with, NaN among them
    PageSize,       \* SCORE_PAGE_LIMIT: at most the adapter's MAX_PAGE_LIMIT
    Cap,            \* SCORE_MAX_ATTESTATIONS
    MaxChanges,     \* how many writes happen while the request runs
    NaN, NULL

Native == "native"

Attestation == [agent : Agents, source : Sources, time : Nat]

ASSUME ScoringAssumption ==
    /\ PageSize \in Nat \ {0} /\ Cap \in Nat /\ MaxChanges \in Nat
    /\ Owner \in Users /\ Native \in Sources
    /\ Rows \subseteq Attestation /\ Ledgers \subseteq Seq(Attestation)
    /\ Weights \subseteq Int \cup {NaN} /\ NaN \notin Int
    /\ NULL \notin Nat
    /\ NULL \notin {"INTERNAL", "AGENT_NOT_FOUND", "SCORE_COMPUTATION_LIMIT_EXCEEDED"}

VARIABLES
    visibility,     \* of each agent: "public" or "private"
    revoked,        \* the revoked agents
    keys,           \* rows of session_keys: pairs of agent and user
    ledger,         \* attestations: agent, source, time
    registered,     \* registered_sources: a function from names to weights
    changes,        \* bound on the writers
    reader,         \* the one reader
    since           \* history: what was so at some moment since the reader began, and
                    \* how many rows it had found valid when its agent was revoked

writers == <<visibility, revoked, keys, ledger, registered, changes>>
vars == <<visibility, revoked, keys, ledger, registered, changes, reader, since>>

Empty == [s \in {} |-> NULL]
NoReader == [stage |-> "idle"]

-----------------------------------------------------------------------------
(***************************************************************************)
(* The statements.                                                         *)
(***************************************************************************)
RowsOf(a) == {i \in DOMAIN ledger : ledger[i].agent = a}

FaultyPage(a, cursor, limit) ==     \* the cursor row comes back
    LET rows == {i \in RowsOf(a) : cursor = NULL \/ i <= cursor}
    IN  {i \in rows : Cardinality({j \in rows : i < j}) < limit}

\* getAttestations: the newest rows below the cursor. Nobody looks at their order
\* within the page.
Page(a, cursor, limit) ==
    LET rows == {i \in RowsOf(a) : cursor = NULL \/ i < cursor}
    IN  {i \in rows : Cardinality({j \in rows : i < j}) < limit}

NextCursor(page, limit) == IF Cardinality(page) = limit THEN Min(page) ELSE NULL

FaultyPublicAgents == Agents \ revoked      \* listAllAgents by mistake

\* listPublicAgents filters in the query; the order is the caller's concern.
PublicAgents == {a \in Agents : a \notin revoked /\ visibility[a] = "public"}
AllAgents == Agents \ revoked

-----------------------------------------------------------------------------
(***************************************************************************)
(* getScore as a part of the reader: exists, page by page, weights.        *)
(***************************************************************************)
\* perSource after the records of one page
Tally(tally, page) ==
    LET of(s) == {i \in page : ledger[i].source = s}
        times(s) == {ledger[i].time : i \in of(s)}
                    \cup (IF s \in DOMAIN tally THEN {tally[s].latest} ELSE {})
    IN  [s \in DOMAIN tally \cup {ledger[i].source : i \in page} |->
            [count  |-> Cardinality(of(s)) + (IF s \in DOMAIN tally THEN tally[s].count ELSE 0),
             latest |-> Max(times(s))]]

\* native is pinned, a registered weight that is no number or negative is 0,
\* and so is that of an unregistered source.
WeightOf(s, table) ==
    IF s = Native THEN 1
    ELSE IF s \in DOMAIN table /\ table[s] # NaN /\ table[s] >= 0 THEN table[s]
    ELSE 0

Composite(tally, table) ==
    SumFunction([s \in DOMAIN tally |-> tally[s].count * WeightOf(s, table)])

\* What follows a score: the next agent of a board, or the pages of the route.
\* A board omits an agent that could not be scored, the dashboard shows it bare.
Scored(r, result) ==
    CASE r.kind = "route" /\ result.ok ->
            [r EXCEPT !.stage = "rows", !.cursor = NULL, !.answer = @ \cup {result}]
      [] r.kind = "route" /\ ~result.ok ->
            [r EXCEPT !.stage = "done", !.error = result.error, !.agent = NULL]
      [] r.kind = "board" ->
            [r EXCEPT !.stage = "next", !.answer = @ \cup (IF result.ok THEN {result} ELSE {}),
                      !.agent = NULL]
      [] r.kind = "dashboard" -> [r EXCEPT !.stage = "next", !.answer = @ \cup {result}, !.agent = NULL]

\* A statement throws, and the request with it. The dashboard's scores alone are
\* tried one by one; a verification never throws, and between scores is no statement.
Throws ==
    /\ reader.stage \notin {"idle", "done", "manifest", "verify", "next"}
    /\ reader' = IF reader.kind = "dashboard" /\ reader.stage \in {"exists", "page", "weights"}
                 THEN Scored(reader, [agent |-> reader.agent, ok |-> FALSE, error |-> "INTERNAL"])
                 ELSE [reader EXCEPT !.stage = "done", !.error = "INTERNAL", !.agent = NULL]
    /\ UNCHANGED <<writers, since>>

\* getAgent. Agents are never deleted, so one that was listed or found exists.
Exists ==
    /\ reader.stage = "exists"
    /\ reader' = [reader EXCEPT !.stage = "page", !.cursor = NULL, !.tally = Empty, !.processed = 0]
    /\ UNCHANGED <<writers, since>>

FaultyTooMany(r, page) == r.processed + Cardinality(page) >= Cap

TooMany(r, page) == r.processed + Cardinality(page) > Cap

ScorePage ==
    /\ reader.stage = "page"
    /\ LET a == reader.agent
           page == Page(a, reader.cursor, PageSize)
           cursor == NextCursor(page, PageSize)
           tally == Tally(reader.tally, page)
       IN
        /\ reader' =
            IF TooMany(reader, page) THEN
                Scored(reader, [agent |-> a, ok |-> FALSE,
                                error |-> "SCORE_COMPUTATION_LIMIT_EXCEEDED"])
            ELSE IF cursor # NULL THEN
                [reader EXCEPT !.cursor = cursor, !.tally = tally, !.processed = @ + Cardinality(page)]
            ELSE IF DOMAIN tally \subseteq {Native} THEN
                Scored(reader, [agent |-> a, ok |-> TRUE, tally |-> tally,
                                composite |-> Composite(tally, Empty)])
            ELSE [reader EXCEPT !.stage = "weights", !.tally = tally]
        /\ since' = IF reader.cursor = NULL
                    THEN [since EXCEPT !.rows = [@ EXCEPT ![a] = RowsOf(a)]] ELSE since
    /\ UNCHANGED writers

\* getRegisteredSources, read only when some source is not native
ReadWeights ==
    /\ reader.stage = "weights"
    /\ reader' = Scored(reader, [agent |-> reader.agent, ok |-> TRUE, tally |-> reader.tally,
                                 composite |-> Composite(reader.tally, registered)])
    /\ since' = [since EXCEPT !.table = [@ EXCEPT ![reader.agent] = registered]]
    /\ UNCHANGED writers

-----------------------------------------------------------------------------
(***************************************************************************)
(* The score route: find, own, manifest, score, then every row verified.   *)
(***************************************************************************)
Begin(kind, stage, user, agent, wish) ==
    /\ reader.stage = "idle"
    /\ reader' = [kind |-> kind, stage |-> stage, user |-> user, agent |-> agent, wish |-> wish,
                  todo |-> {},
                  private |-> FALSE, isOwner |-> FALSE, manifestValid |-> FALSE,
                  cursor |-> NULL, tally |-> Empty, processed |-> 0,
                  answer |-> {}, error |-> NULL,
                  page |-> {}, total |-> 0, verified |-> 0, shown |-> 0]
    /\ since' = [public  |-> {a \in Agents : visibility[a] = "public"},
                 held    |-> keys,
                 revoked |-> revoked,
                 rows    |-> [a \in Agents |-> {}],
                 table   |-> [a \in Agents |-> Empty],
                 counted |-> 0]
    /\ UNCHANGED writers

GetScoreRoute(u, a) == Begin("route", "find", u, a, NULL)
RunVerifyAgent(a) == Begin("audit", "manifest", NULL, a, NULL)
PatchVisibility(u, a, v) == Begin("toggle", "gate", u, a, v)
LeaderboardPage == Begin("board", "list", NULL, NULL, NULL)
ReconcileRows == Begin("dashboard", "list", NULL, NULL, NULL)

FindAgent ==
    /\ reader.stage = "find"
    /\ reader' = [reader EXCEPT !.stage = "own", !.private = visibility[reader.agent] = "private"]
    /\ UNCHANGED <<writers, since>>

\* getSessionKey, whatever its expiry; a private agent is not found by others.
CheckOwner ==
    /\ reader.stage = "own"
    /\ LET owner == <<reader.agent, reader.user>> \in keys IN
        reader' = IF reader.private /\ ~owner
                  THEN [reader EXCEPT !.stage = "done", !.error = "AGENT_NOT_FOUND", !.agent = NULL]
                  ELSE [reader EXCEPT !.stage = "manifest", !.isOwner = owner]
    /\ UNCHANGED <<writers, since>>

FaultyOutcomes(a) == {a \notin revoked, TRUE}      \* the signature alone decides then

\* The revocation gate of verifyManifest and verifyAttestation: its own read of
\* the agent, every time, and not valid when the read fails. Signatures in the store
\* are good.
Outcomes(a) == {a \notin revoked, FALSE}

VerifyManifest ==
    /\ reader.stage = "manifest"
    /\ \E valid \in Outcomes(reader.agent) :
        reader' = [reader EXCEPT !.stage = IF reader.kind = "audit" THEN "rows" ELSE "exists",
                                 !.manifestValid = valid]
    /\ UNCHANGED <<writers, since>>

\* One page of the second walk over the ledger
RowsPage ==
    /\ reader.stage = "rows"
    /\ LET page == Page(reader.agent, reader.cursor, PageSize) IN
        reader' = [reader EXCEPT !.stage = IF page = {} THEN "done" ELSE "verify",
                                 !.page = page, !.cursor = NextCursor(page, PageSize)]
    /\ UNCHANGED <<writers, since>>

\* verifyAttestation of one row; the rows themselves are for the owner only.
VerifyRow ==
    /\ reader.stage = "verify"
    /\ \E valid \in Outcomes(reader.agent) : reader' = [reader EXCEPT
            !.total = @ + 1,
            !.verified = IF valid THEN @ + 1 ELSE @,
            !.shown = IF reader.isOwner THEN @ + 1 ELSE @,
            !.page = @ \ {Max(@)},
            !.stage = IF Cardinality(reader.page) > 1 THEN "verify"
                      ELSE IF reader.cursor = NULL THEN "done" ELSE "rows"]
    /\ UNCHANGED <<writers, since>>

\* PATCH: getSessionKey, whatever its expiry, then the update of setVisibility.
OwnerGate ==
    /\ reader.stage = "gate"
    /\ reader' = IF <<reader.agent, reader.user>> \in keys THEN [reader EXCEPT !.stage = "write"]
                 ELSE [reader EXCEPT !.stage = "done", !.error = "AGENT_NOT_FOUND", !.agent = NULL]
    /\ UNCHANGED <<writers, since>>

Seen(a, v) == IF v = "public" THEN [since EXCEPT !.public = @ \cup {a}] ELSE since

WriteVisibility ==
    /\ reader.stage = "write"
    /\ visibility' = [visibility EXCEPT ![reader.agent] = reader.wish]
    /\ since' = Seen(reader.agent, reader.wish)
    /\ reader' = [reader EXCEPT !.stage = "done"]
    /\ UNCHANGED <<revoked, keys, ledger, registered, changes>>

-----------------------------------------------------------------------------
(***************************************************************************)
(* The boards: one listing, then a score for each agent listed.            *)
(***************************************************************************)
List ==
    /\ reader.stage = "list"
    /\ reader' = [reader EXCEPT !.stage = "next",
                                !.todo = IF reader.kind = "board" THEN PublicAgents ELSE AllAgents]
    /\ UNCHANGED <<writers, since>>

NextAgent ==
    /\ reader.stage = "next"
    /\ \/ \E a \in reader.todo :
            reader' = [reader EXCEPT !.stage = "exists", !.agent = a, !.todo = @ \ {a}]
       \/ reader.todo = {} /\ reader' = [reader EXCEPT !.stage = "done"]
    /\ UNCHANGED <<writers, since>>

-----------------------------------------------------------------------------
(***************************************************************************)
(* The writers: what the rest of the system does to these tables.          *)
(***************************************************************************)
Change(kept) == changes < MaxChanges /\ changes' = changes + 1 /\ UNCHANGED kept

\* saveAttestation; an agent that was admitted may append until it returns.
Attest(row) ==
    /\ ledger' = Append(ledger, row)
    /\ Change(<<visibility, revoked, keys, registered, reader, since>>)

\* saveRegisteredSource: a name is registered once.
Register(s, w) ==
    /\ s \notin DOMAIN registered
    /\ registered' = [n \in DOMAIN registered \cup {s} |-> IF n = s THEN w ELSE registered[n]]
    /\ Change(<<visibility, revoked, keys, ledger, reader, since>>)

SetVisibility(a, v) ==
    /\ visibility[a] # v
    /\ visibility' = [visibility EXCEPT ![a] = v]
    /\ since' = Seen(a, v)
    /\ Change(<<revoked, keys, ledger, registered, reader>>)

Revoke(a) ==
    /\ a \notin revoked
    /\ revoked' = revoked \cup {a}
    /\ since' = IF reader.agent = a THEN [since EXCEPT !.counted = reader.verified] ELSE since
    /\ Change(<<visibility, keys, ledger, registered, reader>>)

\* A merge hands the key of an agent to another user.
MoveKey(a, from, to) ==
    /\ <<a, from>> \in keys /\ from # to
    /\ keys' = (keys \ {<<a, from>>}) \cup {<<a, to>>}
    /\ since' = [since EXCEPT !.held = @ \cup {<<a, to>>}]
    /\ Change(<<visibility, revoked, ledger, registered, reader>>)

-----------------------------------------------------------------------------
\* A request may find the tables in any state the writers can have left.
Init ==
    /\ visibility \in [Agents -> {"public", "private"}]
    /\ revoked \in SUBSET Agents
    /\ keys = Agents \X {Owner}
    /\ ledger \in Ledgers
    /\ registered \in {Empty} \cup [{Native} -> Weights]
    /\ changes = 0
    /\ reader = NoReader
    /\ since = [public |-> {}, held |-> {}, revoked |-> {}, rows |-> Empty, table |-> Empty,
              counted |-> 0]

Read ==
    \/ \E u \in Users, a \in Agents : GetScoreRoute(u, a)
    \/ LeaderboardPage \/ ReconcileRows
    \/ \E a \in Agents : RunVerifyAgent(a)
    \/ \E u \in Users, a \in Agents, v \in {"public", "private"} : PatchVisibility(u, a, v)
    \/ FindAgent \/ CheckOwner \/ VerifyManifest
    \/ OwnerGate \/ WriteVisibility \/ Throws
    \/ Exists \/ ScorePage \/ ReadWeights
    \/ RowsPage \/ VerifyRow
    \/ List \/ NextAgent

Write ==
    /\ reader.stage \notin {"idle", "done"}
    /\ \/ \E row \in Rows : Attest(row)
       \/ \E s \in Sources, w \in Weights : Register(s, w)
       \/ \E a \in Agents, v \in {"public", "private"} : SetVisibility(a, v)
       \/ \E a \in Agents : Revoke(a)
       \/ \E a \in Agents, from, to \in Users : MoveKey(a, from, to)

Next == Read \/ Write

Spec == Init /\ [][Next]_vars

-----------------------------------------------------------------------------
Tallies ==
    UNION {[S -> [count : Nat, latest : Nat]] : S \in {T \in SUBSET Sources : IsFiniteSet(T)}}
Tables == UNION {[S -> Weights] : S \in SUBSET Sources}

Result ==
    [agent : Agents, ok : {TRUE}, tally : Tallies, composite : Int]
    \cup [agent : Agents, ok : {FALSE}, error : {"INTERNAL", "SCORE_COMPUTATION_LIMIT_EXCEEDED"}]

Reading ==
    [kind : {"route", "audit", "toggle", "board", "dashboard"},
     stage : {"find", "own", "manifest", "exists", "page", "weights", "rows", "verify",
              "gate", "write", "list", "next", "done"},
     user : Users \cup {NULL}, agent : Agents \cup {NULL},
     wish : {"public", "private", NULL}, todo : SUBSET Agents,
     private : BOOLEAN, isOwner : BOOLEAN, manifestValid : BOOLEAN,
     cursor : Nat \cup {NULL}, tally : Tallies, processed : Nat, answer : SUBSET Result,
     error : {"INTERNAL", "AGENT_NOT_FOUND", "SCORE_COMPUTATION_LIMIT_EXCEEDED", NULL},
     page : SUBSET Nat, total : Nat, verified : Nat, shown : Nat]

Since ==
    [public : SUBSET Agents, held : SUBSET (Agents \X Users), revoked : SUBSET Agents,
     rows : [Agents -> SUBSET Nat] \cup {Empty}, table : [Agents -> Tables] \cup {Empty},
     counted : Nat]

TypeOK ==
    /\ visibility \in [Agents -> {"public", "private"}]
    /\ revoked \subseteq Agents
    /\ keys \subseteq Agents \X Users
    /\ ledger \in Seq(Attestation)
    /\ registered \in Tables
    /\ changes \in 0..MaxChanges
    /\ reader \in {NoReader} \cup Reading
    /\ since \in Since
    /\ reader # NoReader => /\ since.rows \in [Agents -> SUBSET Nat]
                            /\ since.table \in [Agents -> Tables]

Scores == IF reader.stage = "idle" THEN {} ELSE {x \in reader.answer : x.ok}
Limited ==
    IF reader.stage = "idle" THEN {}
    ELSE {x \in reader.answer : ~x.ok /\ x.error = "SCORE_COMPUTATION_LIMIT_EXCEEDED"}
Answered == reader.stage = "done" /\ reader.error = NULL

RowWeight(i, table) ==
    LET s == ledger[i].source IN
    IF s = Native THEN 1
    ELSE IF s \in DOMAIN table /\ table[s] \in {w \in Weights \ {NaN} : w > 0} THEN table[s] ELSE 0

\* A score counts the attestations that were stored when its first page was read,
\* each once, whatever is inserted between its pages: per source their number and
\* the newest time, and in the composite each with its source's weight
\* (score.ts:72-75, :108-120).
ScoreIsExact ==
    \A x \in Scores :
        LET rows == since.rows[x.agent]
            of(s) == {i \in rows : ledger[i].source = s}
        IN  /\ DOMAIN x.tally = {ledger[i].source : i \in rows}
            /\ \A s \in DOMAIN x.tally :
                /\ x.tally[s].count = Cardinality(of(s))
                /\ x.tally[s].latest \in {ledger[i].time : i \in of(s)}
                /\ \A i \in of(s) : ledger[i].time <= x.tally[s].latest
            /\ x.composite =
                SumFunction([i \in rows |-> RowWeight(i, since.table[x.agent])])

\* A history longer than the cap gets an error and never a number, one within the
\* cap never an error: also when the cap falls inside a page (score.ts:80-88).
LimitIsHonest ==
    /\ \A x \in Scores : Cardinality(since.rows[x.agent]) <= Cap
    /\ \A x \in Limited : Cardinality(since.rows[x.agent]) > Cap

\* No row of an agent is found valid after it was revoked: what an answer counts was
\* verified before, nothing when the reader began later, and then its manifest is not
\* valid either. The gate is read anew for the manifest and for each row, while pages
\* and rows come from a store that changes, and a read that fails is no proof of life
\* (score/route.ts:47, :60, actions.ts:175, :193, agent.ts:354-362, attestation.ts:611-616).
RevokedVerifiesNothing ==
    Answered /\ reader.kind \in {"route", "audit"} /\ reader.agent \in revoked =>
        /\ reader.verified <= since.counted
        /\ reader.agent \in since.revoked => reader.verified = 0 /\ ~reader.manifestValid

\* Nothing of an agent that has been private since before the request began reaches
\* anyone but a user that held its key at some moment since then, on the board no one
\* at all, however visibility, key and ledger change on the way; rows, and an answer
\* to a change of visibility, go to such a user only (score/route.ts:26-35, :62;
\* leaderboard/page.tsx:50; visibility/route.ts:39-42).
PrivateStaysHidden ==
    /\ reader.stage # "idle" /\ reader.kind # "dashboard" =>
        \A x \in Scores : \/ x.agent \in since.public
                          \/ reader.kind = "route" /\ <<x.agent, reader.user>> \in since.held
    /\ Answered /\ (reader.shown > 0 \/ reader.kind = "toggle") =>
        <<reader.agent, reader.user>> \in since.held
    /\ Answered /\ reader.kind = "route" =>
        reader.shown \in {0, reader.total}
=============================================================================
