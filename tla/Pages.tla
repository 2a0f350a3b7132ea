--------------------------------- MODULE Pages ---------------------------------
(***************************************************************************)
(* One browser tab on the web app: the agents list, a chat page, and the   *)
(* page that creates an agent, over the cached GETs of useCachedData.      *)
(* Between a step of the tab and the next, the server may answer what is   *)
(* in flight, another tab may chat, and React may not have rendered yet:   *)
(* data is the state last set, shown what the last render put on screen    *)
(* (dataRef), and the effect that loads runs only after a render.          *)
(*                                                                         *)
(* The server is as the tab sees it: who holds which agent, and how long   *)
(* the conversation is.  WebApp models its requests in full.               *)
(***************************************************************************)
EXTENDS Integers, FiniteSets

CONSTANTS
    Agents,
    Guest, Account,     \* the two identities of this browser
    MaxChanges,         \* bound on changes at the server
    MaxSteps,           \* bound on mounts and reloads of the tab
    NULL

ASSUME PagesAssumption ==
    /\ NULL \notin {Guest, Account} \cup [of : {Guest, Account}, body : Nat]
    /\ {"list", "new"} \cap Agents = {}

VARIABLES
    born,       \* the agents there are: an id is never drawn twice
    row,        \* per agent, the owner its session key row names, or NULL
    live,       \* per agent, whether that row is unexpired
    len,        \* per agent, the messages of the conversation
    public,     \* per agent, its visibility
    cookie,     \* whom the server takes this browser for
    epoch,      \* history: how often the server's data changed
    page,       \* "list", "new" or the agent of the chat page
    steps,      \* how many mounts and reloads so far
    known,      \* the identity the page has learnt, NULL before
    auth,       \* a sign-in or sign-out the server did and the page has not seen,
                \* or next-auth on its way to find an account after a reload
    made,       \* history: the agents this tab was told it created, since the last
                \* sign-in or sign-out
    hook,       \* useCachedData of the page
    load,       \* its load in flight, or NULL
    posts,      \* POST chat requests in flight, those of pages left included
    memory,     \* the cache's map, gone on a reload
    disk        \* sessionStorage

serverVars == <<born, row, live, len, public, cookie, epoch>>
cacheVars == <<memory, disk>>
tabVars == <<page, steps, known, auth, made, hook, load>>
vars == <<serverVars, tabVars, posts, cacheVars>>

-----------------------------------------------------------------------------
\* The page's cache key: the list goes by the effective identity, a chat by the
\* guest session whoever is signed in.
KeyOf ==
    IF known = NULL \/ page = "new" THEN NULL
    ELSE IF page = "list" THEN <<"agents", known>>
    ELSE <<"chat", page>>

IsList(k) == k[1] = "agents"

\* applied is history: the epoch data is at least as fresh as.
NewHook == [key |-> NULL, data |-> NULL, shown |-> NULL, locked |-> FALSE, applied |-> -1]

CacheGet(k) ==
    IF k \in DOMAIN memory THEN memory[k] ELSE IF k \in DOMAIN disk THEN disk[k] ELSE NULL

Put(f, k, v) == [j \in DOMAIN f \cup {k} |-> IF j = k THEN v ELSE f[j]]
Drop(f, gone) == [j \in DOMAIN f \ gone |-> f[j]]

\* sessionStorage may be full or blocked, and then keeps what it has.
CacheSet(k, v) ==
    /\ memory' = Put(memory, k, v)
    /\ disk' = Put(disk, k, v) \/ UNCHANGED disk

Lists == {<<"agents", Guest>>, <<"agents", Account>>}

FaultyPurgeLists ==     \* the map, not sessionStorage
    /\ memory' = Drop(memory, Lists)
    /\ UNCHANGED disk

\* invalidateCachePrefix("agents:")
PurgeLists ==
    /\ memory' = Drop(memory, Lists)
    /\ disk' = Drop(disk, Lists)

-----------------------------------------------------------------------------
\* GET /api/agents, and GET chat, which asks for the row and not for its expiry.
Held(i) == {a \in Agents : row[a] = i}

Answer(k, i) ==
    IF IsList(k) THEN [status |-> 200, of |-> i, body |-> [a \in Held(i) |-> public[a]]]
    ELSE IF row[k[2]] = i THEN [status |-> 200, of |-> i, body |-> len[k[2]]]
    ELSE [status |-> 403, of |-> i, body |-> NULL]

Changed ==
    /\ epoch < MaxChanges
    /\ epoch' = epoch + 1

\* Another tab of the browser has a turn; time passes.
OtherTurn(a) ==
    /\ Changed
    /\ row[a] = cookie /\ live[a]
    /\ len' = [len EXCEPT ![a] = @ + 2]
    /\ UNCHANGED <<born, row, live, public, cookie, tabVars, posts, cacheVars>>

Expire(a) ==
    /\ Changed
    /\ live[a]
    /\ live' = [live EXCEPT ![a] = FALSE]
    /\ UNCHANGED <<born, row, len, public, cookie, tabVars, posts, cacheVars>>

-----------------------------------------------------------------------------
(***************************************************************************)
(* Pages come and go.  A load in flight is cancelled with its page.        *)
(***************************************************************************)
\* React runs what a render left to do before it handles a click.
EffectsRun == KeyOf # NULL => KeyOf = hook.key

Mount(p) ==
    /\ steps < MaxSteps
    /\ steps' = steps + 1
    /\ page' = p
    /\ known' = NULL
    /\ hook' = NewHook
    /\ load' = NULL

\* The modal of a sign-in covers the page until it is done.
Navigate(p) ==
    /\ auth \in {"none", "loading"} /\ p # page /\ EffectsRun
    /\ Mount(p)
    /\ UNCHANGED <<serverVars, auth, made, posts, cacheVars>>

Reload ==
    /\ Mount(page)
    /\ auth' = IF cookie = Account THEN "loading" ELSE "none"
    /\ posts' = {}
    /\ memory' = Drop(memory, DOMAIN memory)
    /\ UNCHANGED <<serverVars, made, disk>>

\* The session bootstrap answered; the first render with a key paints what is
\* cached under it. The list takes whoever next-auth has not found yet for a guest.
Learn ==
    /\ known = NULL
    /\ known' = IF page = "list" /\ auth = "loading" THEN Guest ELSE cookie
    /\ UNCHANGED <<serverVars, page, steps, auth, made, hook, load, posts, cacheVars>>

\* next-auth's session answered: the list switches to the account's key.
Recognise ==
    /\ auth = "loading"
    /\ auth' = "none"
    /\ known' = IF known = NULL THEN NULL ELSE cookie
    /\ UNCHANGED <<serverVars, page, steps, made, hook, load, posts, cacheVars>>

-----------------------------------------------------------------------------
\* A render: what is set becomes what is shown.
Render ==
    /\ hook.shown # hook.data
    /\ hook' = [hook EXCEPT !.shown = hook.data]
    /\ UNCHANGED <<serverVars, page, steps, known, auth, made, load, posts, cacheVars>>

Painted(value) == [of |-> value.of, body |-> value.body]

\* The effect on [key, nonce], after a render: the load before it is cancelled,
\* the value of another key is dropped, the cached one painted.
Start(k) ==
    /\ hook' = [hook EXCEPT !.shown = hook.data, !.key = k, !.applied = -1,
                            !.data = IF k # hook.key \/ CacheGet(k) # NULL THEN CacheGet(k) ELSE @,
                            !.locked = IF CacheGet(k) # NULL THEN FALSE ELSE @]
    /\ load' = [key |-> k, as |-> cookie, began |-> epoch, answer |-> NULL]

Effect ==
    /\ KeyOf # NULL /\ KeyOf # hook.key
    /\ Start(KeyOf)
    /\ UNCHANGED <<serverVars, page, steps, known, auth, made, posts, cacheVars>>

\* The key became null: the cleanup alone.
Cleanup ==
    /\ KeyOf = NULL /\ load # NULL
    /\ load' = NULL
    /\ hook' = [hook EXCEPT !.shown = hook.data]
    /\ UNCHANGED <<serverVars, page, steps, known, auth, made, posts, cacheVars>>

ServeLoad ==
    /\ load # NULL /\ load.answer = NULL
    /\ load' = [load EXCEPT !.answer = Answer(load.key, load.as)]
    /\ UNCHANGED <<serverVars, page, steps, known, auth, made, hook, posts, cacheVars>>

FaultyMerged(prev, fresh) == fresh      \* no merge

\* The chat page's merge: a transcript never gets shorter. The list has none.
Merged(prev, fresh) ==
    IF ~ IsList(load.key) /\ prev # NULL /\ prev.body > fresh.body THEN prev ELSE fresh

\* A merge keeps what is shown if that is fresher. It does not see a commit that
\* is not rendered yet, nor a lock.
Freshness ==
    IF ~ IsList(load.key) /\ hook.shown = hook.data /\ ~ hook.locked /\ hook.applied > load.began
      THEN hook.applied ELSE load.began

Apply ==
    /\ load # NULL /\ load.answer # NULL
    /\ load' = NULL
    /\ IF load.answer.status = 403
         THEN /\ hook' = [hook EXCEPT !.locked = TRUE, !.applied = load.began]
              /\ UNCHANGED cacheVars
         ELSE LET next == Merged(hook.shown, Painted(load.answer)) IN
              /\ hook' = [hook EXCEPT !.data = next, !.locked = FALSE, !.applied = Freshness]
              /\ CacheSet(load.key, next)
    /\ UNCHANGED <<serverVars, page, steps, known, auth, made, posts>>

\* The network, or the server, fails: the cached copy stays.
LoadFails ==
    /\ load # NULL
    /\ load' = NULL
    /\ UNCHANGED <<serverVars, page, steps, known, auth, made, hook, posts, cacheVars>>

-----------------------------------------------------------------------------
(***************************************************************************)
(* A turn: POST chat.  A page that is left does not stop it.               *)
(***************************************************************************)
OwnPosts == {p \in posts : p.mount = steps}

Send ==
    /\ page \in Agents /\ ~ hook.locked /\ hook.shown # NULL /\ OwnPosts = {} /\ EffectsRun
    /\ posts' = posts \cup {[mount |-> steps, agent |-> page, as |-> cookie,
                             phase |-> "sent", body |-> 0, epoch |-> epoch]}
    /\ UNCHANGED <<serverVars, tabVars, cacheVars>>

Become(p, new) == posts' = (posts \ {p}) \cup {new}

\* The key store: a key that expired is pruned, and the turn refused.
ServeRefusal(p) ==
    /\ p.phase = "sent"
    /\ row[p.agent] = p.as => ~ live[p.agent]
    /\ IF row[p.agent] = p.as
         THEN Changed /\ row' = [row EXCEPT ![p.agent] = NULL]
         ELSE UNCHANGED <<row, epoch>>
    /\ Become(p, [p EXCEPT !.phase = "refused", !.epoch = epoch'])
    /\ UNCHANGED <<born, live, len, public, cookie, tabVars, cacheVars>>

\* The question is stored, then the reply, and the whole transcript returned.
ServeTurn(p) ==
    /\ \/ p.phase = "sent" /\ row[p.agent] = p.as /\ live[p.agent]
       \/ p.phase = "asked"
    /\ Changed
    /\ len' = [len EXCEPT ![p.agent] = @ + 1]
    /\ Become(p, IF p.phase = "sent" THEN [p EXCEPT !.phase = "asked"]
                 ELSE [p EXCEPT !.phase = "answered", !.body = len'[p.agent],
                             !.epoch = IF row[p.agent] = p.as THEN epoch' ELSE @])
    /\ UNCHANGED <<born, row, live, public, cookie, tabVars, cacheVars>>

\* commitTranscript: setData is lost on a page that was left, the cache is not.
Commit(p) ==
    /\ p.phase = "answered"
    /\ LET value == [of |-> p.as, body |-> p.body] IN
        /\ hook' = IF p.mount = steps THEN [hook EXCEPT !.data = value, !.applied = p.epoch] ELSE hook
        /\ CacheSet(<<"chat", p.agent>>, value)
    /\ posts' = posts \ {p}
    /\ UNCHANGED <<serverVars, page, steps, known, auth, made, load>>

\* lockTranscript
Lock(p) ==
    /\ p.phase = "refused"
    /\ hook' = IF p.mount = steps THEN [hook EXCEPT !.locked = TRUE, !.applied = p.epoch] ELSE hook
    /\ memory' = Drop(memory, {<<"chat", p.agent>>})
    /\ disk' = Drop(disk, {<<"chat", p.agent>>})
    /\ posts' = posts \ {p}
    /\ UNCHANGED <<serverVars, page, steps, known, auth, made, load>>

\* The turn fails, or its answer is lost: the text goes back to the composer.
PostFails(p) ==
    /\ posts' = posts \ {p}
    /\ UNCHANGED <<serverVars, tabVars, cacheVars>>

-----------------------------------------------------------------------------
\* The create page: the lists are purged and the new agent's chat opened, if the
\* answer arrives.
Create(a) ==
    /\ page = "new" /\ known # NULL
    /\ a \notin born
    /\ Changed
    /\ born' = born \cup {a}
    /\ row' = [row EXCEPT ![a] = cookie]
    /\ live' = [live EXCEPT ![a] = TRUE]
    /\ \/ /\ PurgeLists
          /\ made' = made \cup {a}
          /\ Mount(a)
       \/ UNCHANGED <<page, steps, known, hook, load, made, cacheVars>>
    /\ UNCHANGED <<len, public, cookie, auth, posts>>

\* The visibility toggle, whose answer reloads the list.
Toggle(a) ==
    /\ page = "list" /\ hook.shown # NULL /\ hook.key = KeyOf /\ a \in DOMAIN hook.shown.body
    /\ row[a] = cookie
    /\ Changed
    /\ public' = [public EXCEPT ![a] = ~ hook.shown.body[a]]
    /\ hook' = [hook EXCEPT !.shown = hook.data, !.applied = -1,
                            !.data = IF CacheGet(KeyOf) # NULL THEN CacheGet(KeyOf) ELSE @]
    /\ load' = [key |-> KeyOf, as |-> cookie, began |-> epoch', answer |-> NULL]
    /\ UNCHANGED <<born, row, live, len, cookie, page, steps, known, auth, made, posts, cacheVars>>

\* Signing in by password from the list, with the merge or without it, and out.
SignIn ==
    /\ page = "list" /\ cookie = Guest /\ auth = "none" /\ EffectsRun
    /\ Changed
    /\ cookie' = Account /\ auth' = "in"
    /\ row' = [a \in Agents |-> IF row[a] = Guest THEN Account ELSE row[a]] \/ UNCHANGED row
    /\ made' = {}
    /\ UNCHANGED <<born, live, len, public, page, steps, known, hook, load, posts, cacheVars>>

SignOut ==
    /\ page = "list" /\ known = Account /\ cookie = Account /\ auth = "none" /\ EffectsRun
    /\ Changed
    /\ cookie' = Guest /\ auth' = "out"
    /\ made' = {}
    /\ UNCHANGED <<born, row, live, len, public, page, steps, known, hook, load, posts, cacheVars>>

HandleSignedIn ==
    /\ auth = "in"
    /\ auth' = "none" /\ known' = NULL
    /\ UNCHANGED <<serverVars, page, steps, made, hook, load, posts, cacheVars>>

HandleSignedOut ==
    /\ auth = "out"
    /\ auth' = "none" /\ known' = Guest
    /\ PurgeLists
    /\ UNCHANGED <<serverVars, page, steps, made, hook, load, posts>>

-----------------------------------------------------------------------------
Init ==
    /\ \E h \in SUBSET Agents :
         /\ born = h
         /\ row = [a \in Agents |-> IF a \in h THEN Guest ELSE NULL]
         /\ live = [a \in Agents |-> a \in h]
    /\ len = [a \in Agents |-> 0]
    /\ public = [a \in Agents |-> TRUE]
    /\ cookie = Guest /\ epoch = 0
    /\ page = "list" /\ steps = 0 /\ known = NULL /\ auth = "none" /\ made = {}
    /\ hook = NewHook /\ load = NULL /\ posts = {}
    /\ memory = [k \in {} |-> NULL] /\ disk = [k \in {} |-> NULL]

Next ==
    \/ \E p \in {"list", "new"} \cup {a \in Agents : hook.shown # NULL /\ page = "list"
                                                     /\ a \in DOMAIN hook.shown.body} : Navigate(p)
    \/ Reload \/ Learn \/ Recognise \/ Render \/ Effect \/ Cleanup
    \/ ServeLoad \/ Apply \/ LoadFails
    \/ Send
    \/ \E p \in posts : ServeRefusal(p) \/ ServeTurn(p) \/ Commit(p) \/ Lock(p) \/ PostFails(p)
    \/ \E a \in Agents : OtherTurn(a) \/ Expire(a) \/ Create(a) \/ Toggle(a)
    \/ SignIn \/ SignOut \/ HandleSignedIn \/ HandleSignedOut

Spec == Init /\ [][Next]_vars

-----------------------------------------------------------------------------
Settled ==
    /\ KeyOf # NULL /\ hook.key = KeyOf
    /\ auth \in {"none", "loading"} /\ load = NULL
    /\ hook.shown = hook.data

\* What the tab shows once it is quiet is what the server holds, if nothing
\* changed there since what it shows was asked for: no late load, cached copy,
\* commit, lock or purge leaves an older or another's value on screen
\* (useCachedData, the chat page's merge, invalidateCachePrefix).
SettledIsCurrent ==
    Settled /\ hook.applied = epoch =>
      LET now == Answer(KeyOf, cookie) IN
        IF now.status = 403 THEN hook.locked
        ELSE ~ hook.locked /\ hook.shown = Painted(now)

\* An agent this tab was told it created is in every list it shows its owner from
\* then on, and no list cached before is ever painted again, through reloads and
\* failing loads (the create page's purge, which must reach both caches).
CreatedIsListed ==
    Settled /\ page = "list" /\ hook.shown # NULL =>
      \A a \in made : row[a] = hook.shown.of => a \in DOMAIN hook.shown.body

=============================================================================
