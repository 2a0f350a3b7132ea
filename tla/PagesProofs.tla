---------------------------- MODULE PagesProofs ----------------------------
(***************************************************************************)
(* Proofs about Pages, for any agents and any number of changes, mounts    *)
(* and reloads.  The invariant says of each value on its way to the screen *)
(* what it may be, and what it is when nothing changed at the server since *)
(* it was asked for.                                                       *)
(***************************************************************************)
EXTENDS Pages, TLAPS

Ids == {Guest, Account}

Key == Lists \cup {<<"chat", a>> : a \in Agents}

(* The keys of the page that is open. *)
PageKeys == IF page = "list" THEN Lists ELSE IF page \in Agents THEN {<<"chat", page>>} ELSE {}

(* A value under a key, by who holds what (held), what this tab made (own)  *)
(* and how long the conversations are (long): a list has what was made for  *)
(* its owner, a transcript is none that never was.                          *)
Good(k, v, held, own, long) ==
  /\ v.of \in Ids
  /\ IF IsList(k) THEN \A a \in own : held[a] = v.of => a \in DOMAIN v.body
     ELSE v.body \in 0..long[k[2]]

(* A chat page whose agent is not this browser's, or not any more. *)
Shut == page \in Agents /\ row[page] # cookie

ServerInv ==
  /\ row \in [Agents -> Ids \cup {NULL}] /\ len \in [Agents -> Nat]
  /\ cookie \in Ids /\ epoch \in Nat /\ steps \in Nat
  /\ page \in {"list", "new"} \cup Agents /\ known \in Ids \cup {NULL}
  /\ made \subseteq born /\ born \subseteq Agents

(* What the hook's data is if nothing changed since it was asked for. *)
Current ==
  LET now == Answer(hook.key, cookie) IN
  IF now.status = 403 THEN hook.locked ELSE ~ hook.locked /\ hook.data = Painted(now)

HookInv ==
  /\ DOMAIN hook = {"key", "data", "shown", "locked", "applied"}
  /\ hook.key \in PageKeys \cup {NULL} /\ hook.locked \in BOOLEAN
  /\ hook.data # NULL => hook.key # NULL /\ Good(hook.key, hook.data, row, made, len)
  /\ hook.shown # NULL => hook.key # NULL /\ Good(hook.key, hook.shown, row, made, len)
  /\ hook.locked => Shut
  /\ hook.applied \in Int /\ hook.applied <= epoch
  /\ hook.key # NULL /\ hook.applied = epoch => Current

AnswerOK ==
  /\ load.began = epoch => load.answer = Answer(load.key, load.as)
  /\ load.answer.status \in {200, 403} /\ load.answer.of = load.as
  /\ load.answer.status = 403 => Shut
  /\ load.answer.status = 200 => Good(load.key, Painted(load.answer), row, made, len)

LoadOK ==
  /\ DOMAIN load = {"key", "as", "began", "answer"}
  /\ load.key = hook.key /\ load.key \in PageKeys /\ load.key # NULL
  /\ load.as \in Ids /\ load.began \in Nat /\ load.began <= epoch
  /\ page \in Agents \/ load.began = epoch => load.as = cookie
  /\ load.answer # NULL => AnswerOK

LoadInv == load # NULL => LoadOK

PostOK(p) ==
  /\ DOMAIN p = {"mount", "agent", "as", "phase", "body", "epoch"}
  /\ p.agent \in Agents /\ p.as \in Ids /\ p.mount \in Nat /\ p.mount <= steps
  /\ p.epoch \in Nat /\ p.epoch <= epoch
  /\ p.body \in 0..len[p.agent]
  /\ p.phase = "answered" /\ p.epoch = epoch => row[p.agent] = p.as /\ p.body = len[p.agent]
  /\ p.mount = steps =>
       /\ page = p.agent /\ p.as = cookie /\ hook.key # NULL
       /\ p.phase = "refused" => Shut

PostsInv == \A p \in posts : PostOK(p)

Filled(m, held, own, long) ==
  DOMAIN m \subseteq Key /\ \A k \in DOMAIN m : Good(k, m[k], held, own, long)

StoresInv == Filled(memory, row, made, len) /\ Filled(disk, row, made, len)

TabInv == ServerInv /\ HookInv /\ LoadInv /\ PostsInv /\ StoresInv

----------------------------------------------------------------------------
(* Keys and values *)

LEMMA KeysApart ==
  /\ \A k \in Lists : IsList(k)
  /\ \A a : ~ IsList(<<"chat", a>>) /\ <<"chat", a>>[2] = a
  BY DEF Lists, IsList

LEMMA PageKeysAre ==
  ASSUME ServerInv
  PROVE  /\ PageKeys \subseteq Key
         /\ \A k \in PageKeys : \/ page = "list" /\ page \notin Agents /\ IsList(k)
                                \/ page \in Agents /\ k = <<"chat", page>> /\ ~ IsList(k) /\ k[2] = page
         /\ KeyOf # NULL => KeyOf \in PageKeys
  BY KeysApart, PagesAssumption DEF PageKeys, Key, KeyOf, ServerInv, Ids, Lists

(* A page's values go under any of its keys. *)
LEMMA GoodAside ==
  ASSUME ServerInv, NEW j \in PageKeys, NEW k \in PageKeys, NEW v, Good(j, v, row, made, len)
  PROVE  Good(k, v, row, made, len)
  BY PageKeysAre DEF Good

LEMMA CachedGood ==
  ASSUME StoresInv, NEW k, CacheGet(k) # NULL
  PROVE  k \in Key /\ Good(k, CacheGet(k), row, made, len)
  BY DEF StoresInv, Filled, CacheGet

LEMMA AnswersAre ==
  ASSUME ServerInv, NEW k \in PageKeys, NEW i \in Ids
  PROVE  /\ Answer(k, i).status \in {200, 403} /\ Answer(k, i).of = i
         /\ Answer(k, i).status = 403 => page \in Agents /\ row[page] # i
         /\ Answer(k, i).status = 200 => Good(k, Painted(Answer(k, i)), row, made, len)
         /\ ~ IsList(k) /\ Answer(k, i).status = 200 => Painted(Answer(k, i)) = [of |-> i, body |-> len[page]]
<1>1. CASE IsList(k)
  <2>1. Answer(k, i) = [status |-> 200, of |-> i, body |-> [a \in Held(i) |-> public[a]]]
    BY <1>1 DEF Answer
  <2>2. \A a \in made : row[a] = i => a \in Held(i)
    BY DEF ServerInv, Held
  <2> QED
    BY <1>1, <2>1, <2>2 DEF Good, Painted
<1>2. CASE ~ IsList(k)
  <2>1. page \in Agents /\ k[2] = page
    BY <1>2, PageKeysAre
  <2>2. CASE row[page] = i
    <3>1. Answer(k, i) = [status |-> 200, of |-> i, body |-> len[page]]
      BY <1>2, <2>1, <2>2 DEF Answer
    <3>2. len[page] \in Nat
      BY <2>1 DEF ServerInv
    <3> QED
      BY <1>2, <2>1, <3>1, <3>2 DEF Good, Painted
  <2>3. CASE row[page] # i
    <3>1. Answer(k, i) = [status |-> 403, of |-> i, body |-> NULL]
      BY <1>2, <2>1, <2>3 DEF Answer
    <3> QED
      BY <2>1, <2>3, <3>1
  <2> QED
    BY <2>2, <2>3
<1> QED
  BY <1>1, <1>2

----------------------------------------------------------------------------
(* What every step leaves true of the server *)

ServerMoves ==
  /\ epoch <= epoch'
  /\ \A a \in Agents : len[a] <= len'[a]
  /\ epoch' = epoch => UNCHANGED <<row, len, public, cookie>>
  /\ page \in Agents => cookie' = cookie /\ row'[page] \in {row[page], NULL}

MadeKept == made' = {} \/ (made' = made /\ \A a \in made : row'[a] \in {row[a], NULL})

Stays == UNCHANGED <<page, steps>>

LEMMA ShutStays ==
  ASSUME ServerInv, ServerMoves, Stays, Shut
  PROVE  Shut'
  BY PagesAssumption DEF ServerInv, ServerMoves, Stays, Shut, Ids

LEMMA GoodStays ==
  ASSUME ServerInv, ServerInv', ServerMoves, MadeKept, NEW k \in Key, NEW v, Good(k, v, row, made, len)
  PROVE  Good(k, v, row', made', len')
<1>1. CASE IsList(k)
  BY <1>1, PagesAssumption DEF Good, MadeKept, Ids
<1>2. CASE ~ IsList(k)
  <2>1. k[2] \in Agents
    BY <1>2, KeysApart DEF Key
  <2>2. len[k[2]] \in Nat /\ len'[k[2]] \in Nat /\ len[k[2]] <= len'[k[2]]
    BY <2>1 DEF ServerInv, ServerMoves
  <2> QED
    BY <1>2, <2>2 DEF Good
<1> QED
  BY <1>1, <1>2

LEMMA PageKeysStay ==
  ASSUME Stays
  PROVE  PageKeys' = PageKeys
  BY DEF Stays, PageKeys

LEMMA HookStays ==
  ASSUME ServerInv, ServerInv', HookInv, ServerMoves, MadeKept, Stays, hook' = hook
  PROVE  HookInv'
<1>1. hook.key # NULL => hook.key \in Key
  BY PageKeysAre DEF HookInv
<1>2. /\ hook.data # NULL => Good(hook.key, hook.data, row', made', len')
      /\ hook.shown # NULL => Good(hook.key, hook.shown, row', made', len')
  BY <1>1, GoodStays DEF HookInv
<1>3. hook.locked => Shut'
  BY ShutStays DEF HookInv
<1>4. hook.applied <= epoch' /\ (hook.applied = epoch' => epoch' = epoch)
  BY DEF HookInv, ServerInv, ServerMoves
<1>5. hook.key # NULL /\ hook.applied = epoch' => Current'
  <2> SUFFICES ASSUME hook.key # NULL, hook.applied = epoch' PROVE Current'
    OBVIOUS
  <2>1. Current /\ UNCHANGED <<row, len, public, cookie, hook>>
    BY <1>4 DEF HookInv, ServerMoves
  <2> QED
    BY <2>1 DEF Current, Answer, Held, Painted
<1> QED
  BY <1>2, <1>3, <1>4, <1>5, PageKeysStay DEF HookInv

LEMMA LoadStays ==
  ASSUME ServerInv, ServerInv', LoadInv, ServerMoves, MadeKept, Stays, load' = load,
         load # NULL => hook'.key = hook.key
  PROVE  LoadInv'
<1> SUFFICES ASSUME load # NULL PROVE LoadOK'
  BY DEF LoadInv
<1>0. LoadOK
  BY DEF LoadInv
<1>1. load.key \in Key
  BY <1>0, PageKeysAre DEF LoadOK
<1>2. load.began <= epoch' /\ (load.began = epoch' => epoch' = epoch)
  BY <1>0 DEF LoadOK, ServerInv, ServerMoves
<1>3. page \in Agents \/ load.began = epoch' => load.as = cookie'
  BY <1>0, <1>2 DEF LoadOK, ServerMoves
<1>4. ASSUME load.answer # NULL PROVE AnswerOK'
  <2>0. AnswerOK
    BY <1>0, <1>4 DEF LoadOK
  <2>1. load.began = epoch' => load.answer = Answer(load.key, load.as)'
    <3> SUFFICES ASSUME load.began = epoch' PROVE load.answer = Answer(load.key, load.as)'
      OBVIOUS
    <3>1. load.answer = Answer(load.key, load.as) /\ UNCHANGED <<row, len, public, load>>
      BY <1>2, <2>0 DEF AnswerOK, ServerMoves
    <3> QED
      BY <3>1 DEF Answer, Held
  <2>2. load.answer.status = 403 => Shut'
    BY <2>0, ShutStays DEF AnswerOK
  <2>3. load.answer.status = 200 => Good(load.key, Painted(load.answer), row', made', len')
    BY <1>1, <2>0, GoodStays DEF AnswerOK
  <2>4. Painted(load.answer)' = Painted(load.answer)
    BY DEF Painted
  <2> QED
    BY <2>0, <2>1, <2>2, <2>3, <2>4 DEF AnswerOK
<1> QED
  BY <1>0, <1>2, <1>3, <1>4, PageKeysStay DEF LoadOK, Stays

LEMMA PostStays ==
  ASSUME ServerInv, ServerInv', ServerMoves, NEW p, PostOK(p),
         \/ Stays /\ (hook.key # NULL => hook'.key # NULL)
         \/ steps' = steps + 1
  PROVE  PostOK(p)'
<1>1. p.agent \in Agents /\ len[p.agent] \in Nat /\ len'[p.agent] \in Nat /\ len[p.agent] <= len'[p.agent]
  BY DEF PostOK, ServerInv, ServerMoves
<1>2. p.epoch <= epoch' /\ (p.epoch = epoch' => epoch' = epoch)
  BY DEF PostOK, ServerInv, ServerMoves
<1>3. p.phase = "answered" /\ p.epoch = epoch' => row'[p.agent] = p.as /\ p.body = len'[p.agent]
  BY <1>2 DEF PostOK, ServerMoves
<1>4. p.body \in 0..len'[p.agent]
  BY <1>1 DEF PostOK
<1>5. CASE steps' = steps + 1
  <2>1. p.mount <= steps' /\ p.mount # steps'
    BY <1>5 DEF PostOK, ServerInv
  <2> QED
    BY <1>2, <1>3, <1>4, <2>1 DEF PostOK
<1>6. CASE Stays /\ (hook.key # NULL => hook'.key # NULL)
  <2>1. p.mount = steps' => /\ page' = p.agent /\ p.as = cookie' /\ hook'.key # NULL
                            /\ p.phase = "refused" => Shut'
    <3> SUFFICES ASSUME p.mount = steps'
                 PROVE  /\ page' = p.agent /\ p.as = cookie' /\ hook'.key # NULL
                        /\ p.phase = "refused" => Shut'
      OBVIOUS
    <3>1. page = p.agent /\ p.as = cookie /\ hook.key # NULL /\ (p.phase = "refused" => Shut)
      BY <1>6 DEF PostOK, Stays
    <3>2. cookie' = cookie
      BY <1>1, <3>1 DEF ServerMoves
    <3> QED
      BY <1>6, <3>1, <3>2, ShutStays DEF Stays
  <2>2. p.mount <= steps'
    BY <1>6 DEF PostOK, Stays
  <2> QED
    BY <1>2, <1>3, <1>4, <2>1, <2>2 DEF PostOK
<1> QED
  BY <1>5, <1>6

LEMMA PostsStay ==
  ASSUME ServerInv, ServerInv', ServerMoves, PostsInv, posts' \subseteq posts,
         \/ Stays /\ (hook.key # NULL => hook'.key # NULL)
         \/ steps' = steps + 1
  PROVE  PostsInv'
<1> SUFFICES ASSUME NEW p \in posts' PROVE PostOK(p)'
  BY DEF PostsInv
<1>1. PostOK(p)
  BY DEF PostsInv
<1> QED
  BY <1>1, PostStays

LEMMA FilledStays ==
  ASSUME ServerInv, ServerInv', ServerMoves, MadeKept, NEW m, Filled(m, row, made, len)
  PROVE  Filled(m, row', made', len')
  BY GoodStays DEF Filled

LEMMA StoresStay ==
  ASSUME ServerInv, ServerInv', ServerMoves, MadeKept, StoresInv, UNCHANGED cacheVars
  PROVE  StoresInv'
  BY FilledStays DEF StoresInv, cacheVars

LEMMA DropFilled ==
  ASSUME NEW m, NEW held, NEW own, NEW long, Filled(m, held, own, long), NEW gone
  PROVE  Filled(Drop(m, gone), held, own, long)
  BY DEF Filled, Drop

LEMMA PutFilled ==
  ASSUME NEW m, NEW held, NEW own, NEW long, Filled(m, held, own, long),
         NEW k \in Key, NEW v, Good(k, v, held, own, long)
  PROVE  Filled(Put(m, k, v), held, own, long)
  BY DEF Filled, Put

----------------------------------------------------------------------------
(* Steps that leave the server alone *)

LEMMA ServerQuiet ==
  ASSUME ServerInv, UNCHANGED <<serverVars, made>>, page' \in {"list", "new"} \cup Agents,
         steps' \in Nat, known' \in Ids \cup {NULL}
  PROVE  ServerInv' /\ ServerMoves /\ MadeKept
  BY DEF ServerInv, ServerMoves, MadeKept, serverVars

LEMMA PageQuiet ==
  ASSUME ServerInv, UNCHANGED <<serverVars, page, steps, known, made>>
  PROVE  ServerInv' /\ ServerMoves /\ MadeKept /\ Stays
  BY ServerQuiet DEF ServerInv, Stays

LEMMA MountInv ==
  ASSUME TabInv, ServerInv', ServerMoves, StoresInv', posts' \subseteq posts, NEW p, Mount(p)
  PROVE  TabInv'
<1>1. steps' = steps + 1 /\ hook' = NewHook /\ load' = NULL
  BY DEF Mount
<1>2. HookInv'
  BY <1>1 DEF HookInv, NewHook, ServerInv
<1>3. PostsInv'
  BY <1>1, PostsStay DEF TabInv
<1> QED
  BY <1>1, <1>2, <1>3 DEF TabInv, LoadInv

LEMMA NavigateOK ==
  ASSUME TabInv, NEW p \in {"list", "new"} \cup Agents, Navigate(p)
  PROVE  TabInv'
<1>1. Mount(p) /\ UNCHANGED <<serverVars, auth, made, posts, cacheVars>>
  BY DEF Navigate
<1>2. ServerInv' /\ ServerMoves /\ MadeKept
  BY <1>1, ServerQuiet DEF TabInv, Mount, Ids, ServerInv
<1>3. StoresInv'
  BY <1>1, <1>2, StoresStay DEF TabInv
<1> QED
  BY <1>1, <1>2, <1>3, MountInv

LEMMA ReloadOK ==
  ASSUME TabInv, Reload
  PROVE  TabInv'
<1>1. Mount(page) /\ UNCHANGED <<serverVars, made, disk>> /\ posts' = {} /\ memory' = Drop(memory, DOMAIN memory)
  BY DEF Reload
<1>2. ServerInv' /\ ServerMoves /\ MadeKept
  BY <1>1, ServerQuiet DEF TabInv, Mount, Ids, ServerInv
<1>3. StoresInv'
  <2>1. Filled(memory', row', made', len')
    BY <1>1 DEF Drop, Filled
  <2> QED
    BY <1>1, <1>2, <2>1, FilledStays DEF TabInv, StoresInv
<1> QED
  BY <1>1, <1>2, <1>3, MountInv

(* The identity or the sign-in window changes, the hook does not see it yet. *)
LEMMA KnownOK ==
  ASSUME TabInv, UNCHANGED <<serverVars, page, steps, made, hook, load, posts>>, known' \in Ids \cup {NULL},
         UNCHANGED cacheVars \/ PurgeLists
  PROVE  TabInv'
<1>1. ServerInv' /\ ServerMoves /\ MadeKept /\ Stays
  BY ServerQuiet DEF TabInv, ServerInv, Stays
<1>2. HookInv' /\ LoadInv' /\ PostsInv'
  BY <1>1, HookStays, LoadStays, PostsStay DEF TabInv
<1>3. StoresInv'
  <2>1. CASE UNCHANGED cacheVars
    BY <1>1, <2>1, StoresStay DEF TabInv
  <2>2. CASE PurgeLists
    BY <1>1, <2>2, FilledStays, DropFilled DEF TabInv, StoresInv, PurgeLists
  <2> QED
    BY <2>1, <2>2
<1> QED
  BY <1>1, <1>2, <1>3 DEF TabInv

(* The hook shows what it has. *)
LEMMA ShowsInv ==
  ASSUME ServerInv, HookInv, UNCHANGED <<serverVars, page, steps, known, made>>,
         hook' = [hook EXCEPT !.shown = hook.data]
  PROVE  HookInv' /\ hook'.key = hook.key
<1>1. /\ DOMAIN hook' = DOMAIN hook /\ hook'.key = hook.key /\ hook'.data = hook.data /\ hook'.shown = hook.data
      /\ hook'.locked = hook.locked /\ hook'.applied = hook.applied
  BY DEF HookInv
<1>2. UNCHANGED <<row, made, len, epoch, cookie, public, page>> /\ PageKeys' = PageKeys
  BY DEF serverVars, PageKeys
<1>3. hook.key # NULL /\ hook.applied = epoch => Current'
  BY <1>1, <1>2 DEF HookInv, Current, Answer, Held, Painted
<1> QED
  BY <1>1, <1>2, <1>3 DEF HookInv, Shut

LEMMA RenderOK ==
  ASSUME TabInv, Render \/ Cleanup
  PROVE  TabInv'
<1>1. /\ UNCHANGED <<serverVars, page, steps, known, made, posts, cacheVars>> /\ load' \in {load, NULL}
      /\ hook' = [hook EXCEPT !.shown = hook.data]
  BY DEF Render, Cleanup
<1>2. ServerInv' /\ ServerMoves /\ MadeKept /\ Stays
  BY <1>1, PageQuiet DEF TabInv
<1>3. HookInv' /\ hook'.key = hook.key
  BY <1>1, ShowsInv DEF TabInv
<1>4. LoadInv'
  <2>1. CASE load' = load
    BY <1>2, <1>3, <2>1, LoadStays DEF TabInv
  <2>2. CASE load' = NULL
    BY <2>2 DEF LoadInv
  <2> QED
    BY <1>1, <2>1, <2>2
<1>5. PostsInv' /\ StoresInv'
  BY <1>1, <1>2, <1>3, PostsStay, StoresStay DEF TabInv
<1> QED
  BY <1>2, <1>3, <1>4, <1>5 DEF TabInv

(* A load begins: the cached copy is painted. *)
LEMMA EffectOK ==
  ASSUME TabInv, Effect
  PROVE  TabInv'
<1> DEFINE k == KeyOf
           c == CacheGet(k)
<1>1. /\ UNCHANGED <<serverVars, page, steps, known, made, posts, cacheVars>>
      /\ k # NULL /\ Start(k)
  BY DEF Effect
<1>2. ServerInv' /\ ServerMoves /\ MadeKept /\ Stays
  BY <1>1, PageQuiet DEF TabInv
<1>3. k \in PageKeys /\ PageKeys' = PageKeys
  BY <1>1, <1>2, PageKeysAre, PageKeysStay DEF TabInv
<1>4. c # NULL => Good(k, c, row, made, len)
  BY CachedGood DEF TabInv
<1>5. hook.data # NULL => Good(k, hook.data, row, made, len)
  BY <1>3, GoodAside DEF TabInv, HookInv
<1> HIDE DEF k, c
<1>6. /\ DOMAIN hook' = DOMAIN hook /\ hook'.key = k /\ hook'.data \in {c, hook.data}
      /\ hook'.shown = hook.data /\ hook'.locked \in {FALSE, hook.locked} /\ hook'.applied = -1
  BY <1>1 DEF Start, TabInv, HookInv, c
<1>7. UNCHANGED <<row, made, len, epoch, cookie, page>>
  BY <1>1 DEF serverVars
<1>8. hook'.applied # epoch' /\ hook'.applied \in Int /\ hook'.applied <= epoch'
  BY <1>2, <1>6 DEF ServerInv
<1>9. hook'.locked => Shut'
  BY <1>6, <1>7 DEF TabInv, HookInv, Shut
<1>10. HookInv'
  BY <1>1, <1>3, <1>4, <1>5, <1>6, <1>7, <1>8, <1>9 DEF TabInv, HookInv
<1>11. LoadInv'
  <2>1. load' = [key |-> k, as |-> cookie, began |-> epoch, answer |-> NULL]
    BY <1>1 DEF Start
  <2> QED
    BY <1>1, <1>3, <1>6, <1>7, <2>1 DEF TabInv, ServerInv, LoadInv, LoadOK
<1>12. PostsInv' /\ StoresInv'
  BY <1>1, <1>2, <1>6, PostsStay, StoresStay DEF TabInv
<1> QED
  BY <1>2, <1>10, <1>11, <1>12 DEF TabInv

LEMMA ServeLoadOK ==
  ASSUME TabInv, ServeLoad
  PROVE  TabInv'
<1> DEFINE a == Answer(load.key, load.as)
<1>1. /\ UNCHANGED <<serverVars, page, steps, known, made, hook, posts, cacheVars>>
      /\ load # NULL /\ load' = [load EXCEPT !.answer = a]
  BY DEF ServeLoad
<1>2. ServerInv' /\ ServerMoves /\ MadeKept /\ Stays
  BY <1>1, PageQuiet DEF TabInv
<1>3. HookInv' /\ PostsInv' /\ StoresInv'
  BY <1>1, <1>2, HookStays, PostsStay, StoresStay DEF TabInv
<1>4. LoadOK
  BY <1>1 DEF TabInv, LoadInv
<1>5. /\ a.status \in {200, 403} /\ a.of = load.as
      /\ a.status = 403 => page \in Agents /\ row[page] # load.as
      /\ a.status = 200 => Good(load.key, Painted(a), row, made, len)
  BY <1>4, AnswersAre DEF TabInv, LoadOK
<1>6. UNCHANGED <<row, made, len, public, epoch, cookie, page, hook>> /\ PageKeys' = PageKeys
  BY <1>1 DEF serverVars, PageKeys
<1>7. Answer(load.key, load.as)' = a
  <2>1. load'.key = load.key /\ load'.as = load.as
    BY <1>1, <1>4 DEF LoadOK
  <2> QED
    BY <1>6, <2>1 DEF Answer, Held
<1> HIDE DEF a
<1>8. /\ DOMAIN load' = DOMAIN load /\ load'.key = load.key /\ load'.as = load.as /\ load'.began = load.began
      /\ load'.answer = a
  BY <1>1, <1>4 DEF LoadOK
<1>9. a.status = 403 => Shut'
  BY <1>4, <1>5, <1>6 DEF LoadOK, Shut
<1>10. AnswerOK'
  BY <1>5, <1>6, <1>7, <1>8, <1>9 DEF AnswerOK, Painted
<1>11. LoadInv'
  BY <1>4, <1>6, <1>8, <1>10 DEF LoadInv, LoadOK
<1> QED
  BY <1>2, <1>3, <1>11 DEF TabInv

LEMMA LoadFailsOK ==
  ASSUME TabInv, LoadFails
  PROVE  TabInv'
<1>1. UNCHANGED <<serverVars, page, steps, known, made, hook, posts, cacheVars>> /\ load' = NULL
  BY DEF LoadFails
<1>2. ServerInv' /\ ServerMoves /\ MadeKept /\ Stays
  BY <1>1, PageQuiet DEF TabInv
<1> QED
  BY <1>1, <1>2, HookStays, PostsStay, StoresStay DEF TabInv, LoadInv

----------------------------------------------------------------------------
(* An answer is applied *)

LEMMA RefusalOK ==
  ASSUME TabInv, Apply, load.answer.status = 403
  PROVE  TabInv'
<1>1. /\ UNCHANGED <<serverVars, page, steps, known, made, posts, cacheVars>> /\ load' = NULL
      /\ load # NULL /\ load.answer # NULL
      /\ hook' = [hook EXCEPT !.locked = TRUE, !.applied = load.began]
  BY DEF Apply
<1>2. ServerInv' /\ ServerMoves /\ MadeKept /\ Stays
  BY <1>1, PageQuiet DEF TabInv
<1>3. LoadOK /\ AnswerOK
  BY <1>1 DEF TabInv, LoadInv, LoadOK
<1>4. /\ DOMAIN hook' = DOMAIN hook /\ hook'.key = hook.key /\ hook'.data = hook.data
      /\ hook'.shown = hook.shown /\ hook'.locked = TRUE /\ hook'.applied = load.began
  BY <1>1 DEF TabInv, HookInv
<1>5. UNCHANGED <<row, made, len, public, epoch, cookie, page>> /\ PageKeys' = PageKeys
  BY <1>1 DEF serverVars, PageKeys
<1>6. hook'.applied = epoch' => Current'
  <2> SUFFICES ASSUME load.began = epoch PROVE Current'
    BY <1>4, <1>5
  <2>1. Answer(hook.key, cookie).status = 403
    BY <1>3 DEF LoadOK, AnswerOK
  <2> QED
    BY <1>4, <1>5, <2>1 DEF Current, Answer, Held
<1>7. Shut' /\ load.began \in Int /\ load.began <= epoch
  BY <1>3, <1>5 DEF LoadOK, AnswerOK, Shut
<1>8. HookInv'
  BY <1>4, <1>5, <1>6, <1>7 DEF TabInv, HookInv
<1> QED
  BY <1>1, <1>2, <1>4, <1>8, PostsStay, StoresStay DEF TabInv, LoadInv

(* What a merge ends up with, and how fresh that is. *)
LEMMA MergedIs ==
  ASSUME TabInv, load # NULL, load.answer # NULL, load.answer.status = 200,
         NEW next, next = Merged(hook.shown, Painted(load.answer))
  PROVE  /\ Good(load.key, next, row, made, len)
         /\ Freshness \in Int /\ Freshness <= epoch
         /\ Freshness = epoch => LET now == Answer(load.key, cookie) IN
                                 now.status = 200 /\ next = Painted(now)
<1> DEFINE fresh == Painted(load.answer)
<1>1. LoadOK /\ AnswerOK
  BY DEF TabInv, LoadInv, LoadOK
<1>2. Good(load.key, fresh, row, made, len) /\ fresh.of = load.as
  BY <1>1 DEF AnswerOK, Painted
<1>3. /\ hook.shown # NULL => Good(load.key, hook.shown, row, made, len)
      /\ next \in {hook.shown, fresh} /\ (next # fresh => hook.shown # NULL)
  BY <1>1 DEF TabInv, HookInv, LoadOK, Merged
<1>4. Freshness \in {hook.applied, load.began}
  BY DEF Freshness
<1>5. Freshness \in Int /\ Freshness <= epoch
  BY <1>1, <1>4 DEF TabInv, HookInv, LoadOK
<1>6. ASSUME Freshness = epoch, IsList(load.key)
      PROVE  Answer(load.key, cookie).status = 200 /\ next = Painted(Answer(load.key, cookie))
  <2>1. load.began = epoch
    BY <1>6 DEF Freshness
  <2>2. load.answer = Answer(load.key, cookie)
    BY <1>1, <2>1 DEF LoadOK, AnswerOK
  <2> QED
    BY <1>6, <2>2 DEF Merged
<1>7. ASSUME Freshness = epoch, ~ IsList(load.key)
      PROVE  Answer(load.key, cookie).status = 200 /\ next = Painted(Answer(load.key, cookie))
  <2> DEFINE now == Answer(load.key, cookie)
  <2>1. page \in Agents /\ load.key[2] = page /\ load.key \in PageKeys /\ cookie \in Ids /\ load.as = cookie
        /\ len[page] \in Nat
    BY <1>1, <1>7, PageKeysAre DEF TabInv, ServerInv, LoadOK
  <2>2. now.status = 200 => Painted(now) = [of |-> cookie, body |-> len[page]]
    BY <1>7, <2>1, AnswersAre DEF TabInv
  <2>3. fresh.body \in 0..len[page] /\ (hook.shown # NULL => hook.shown.body \in 0..len[page])
    BY <1>2, <1>3, <1>7, <2>1 DEF Good
  <2>4. CASE load.began = epoch
    <3>1. load.answer = now
      BY <1>1, <2>1, <2>4 DEF AnswerOK
    <3>2. fresh = [of |-> cookie, body |-> len[page]] /\ now.status = 200
      BY <2>2, <3>1
    <3> HIDE DEF fresh, now
    <3>3. ~ (hook.shown # NULL /\ hook.shown.body > fresh.body)
      BY <2>1, <2>3, <3>2
    <3>4. next = fresh
      BY <1>7, <3>3 DEF Merged, fresh
    <3> QED
      BY <2>2, <3>2, <3>4 DEF now
  <2>5. CASE load.began # epoch
    <3>1. hook.shown = hook.data /\ ~ hook.locked /\ hook.applied = epoch /\ hook.key = load.key /\ hook.key # NULL
      BY <1>1, <1>7, <2>5 DEF Freshness, LoadOK
    <3>2. now.status # 403 /\ hook.data = Painted(now)
      BY <3>1 DEF TabInv, HookInv, Current
    <3>3. now.status = 200
      BY <2>1, <3>2, AnswersAre DEF TabInv
    <3>4. hook.shown = [of |-> cookie, body |-> len[page]] /\ hook.shown # NULL
      <4>1. hook.shown = [of |-> cookie, body |-> len[page]]
        BY <2>2, <3>1, <3>2, <3>3
      <4> QED
        BY <2>1, <4>1, PagesAssumption DEF Ids
    <3>5. CASE hook.shown.body > fresh.body
      <4>1. next = hook.shown
        BY <1>7, <3>4, <3>5 DEF Merged
      <4> QED
        BY <2>2, <3>3, <3>4, <4>1
    <3>6. CASE ~ (hook.shown.body > fresh.body)
      <4>1. next = fresh
        BY <1>7, <3>6 DEF Merged
      <4>2. hook.shown.body = len[page]
        BY <3>4
      <4>3. fresh.body = len[page]
        <5> HIDE DEF fresh
        <5> QED
          BY <2>1, <2>3, <3>6, <4>2
      <4>4. fresh = [of |-> cookie, body |-> len[page]]
        BY <1>2, <2>1, <4>3 DEF Painted
      <4> QED
        BY <2>2, <3>3, <4>1, <4>4
    <3> QED
      BY <3>5, <3>6
  <2> QED
    BY <2>4, <2>5
<1> QED
  BY <1>2, <1>3, <1>5, <1>6, <1>7

LEMMA AppliedOK ==
  ASSUME TabInv, Apply, load.answer.status # 403
  PROVE  TabInv'
<1> DEFINE next == Merged(hook.shown, Painted(load.answer))
           n == Freshness
<1>1. /\ UNCHANGED <<serverVars, page, steps, known, made, posts>> /\ load' = NULL
      /\ load # NULL /\ load.answer # NULL
      /\ hook' = [hook EXCEPT !.data = next, !.locked = FALSE, !.applied = n]
      /\ CacheSet(load.key, next)
  BY DEF Apply
<1>2. ServerInv' /\ ServerMoves /\ MadeKept /\ Stays
  BY <1>1, PageQuiet DEF TabInv
<1>3. LoadOK /\ load.answer.status = 200
  BY <1>1 DEF TabInv, LoadInv, LoadOK, AnswerOK
<1>4. /\ Good(load.key, next, row, made, len)
      /\ n \in Int /\ n <= epoch
      /\ n = epoch => /\ Answer(load.key, cookie).status = 200
                      /\ next = Painted(Answer(load.key, cookie))
  BY <1>1, <1>3, MergedIs
<1> HIDE DEF next, n
<1>5. /\ DOMAIN hook' = DOMAIN hook /\ hook'.key = hook.key /\ hook'.data = next
      /\ hook'.shown = hook.shown /\ hook'.locked = FALSE /\ hook'.applied = n
  BY <1>1 DEF TabInv, HookInv
<1>6. UNCHANGED <<row, made, len, public, epoch, cookie, page>> /\ PageKeys' = PageKeys
  BY <1>1 DEF serverVars, PageKeys
<1>7. load.key = hook.key /\ load.key \in Key
  BY <1>3, PageKeysAre DEF TabInv, LoadOK
<1>8. hook.key # NULL
  BY <1>3, <1>7 DEF LoadOK
<1>9. hook'.applied = epoch' => Current'
  <2> SUFFICES ASSUME n = epoch PROVE Current'
    BY <1>5, <1>6
  <2>1. Answer(hook.key, cookie).status = 200 /\ next = Painted(Answer(hook.key, cookie))
    BY <1>4, <1>7
  <2>2. Answer(hook.key, cookie)' = Answer(hook.key, cookie)
    BY <1>5, <1>6 DEF Answer, Held
  <2> QED
    BY <1>5, <2>1, <2>2 DEF Current, Painted
<1>10. HookInv'
  <2>1. Good(hook.key, next, row, made, len)
    BY <1>4, <1>7
  <2>2. hook.shown # NULL => Good(hook.key, hook.shown, row, made, len)
    BY DEF TabInv, HookInv
  <2>3. DOMAIN hook = {"key", "data", "shown", "locked", "applied"} /\ hook.key \in PageKeys \cup {NULL}
    BY DEF TabInv, HookInv
  <2>4. /\ DOMAIN hook' = {"key", "data", "shown", "locked", "applied"}
        /\ hook'.key \in PageKeys' \cup {NULL} /\ hook'.locked \in BOOLEAN /\ ~ hook'.locked
    BY <1>5, <1>6, <2>3
  <2>5. /\ hook'.data # NULL => hook'.key # NULL /\ Good(hook'.key, hook'.data, row', made', len')
        /\ hook'.shown # NULL => hook'.key # NULL /\ Good(hook'.key, hook'.shown, row', made', len')
    BY <1>5, <1>6, <1>8, <2>1, <2>2
  <2>6. hook'.applied \in Int /\ hook'.applied <= epoch'
    BY <1>4, <1>5, <1>6
  <2> QED
    BY <1>9, <2>4, <2>5, <2>6 DEF HookInv
<1>11. StoresInv'
  BY <1>1, <1>4, <1>6, <1>7, PutFilled DEF TabInv, StoresInv, CacheSet
<1> QED
  BY <1>1, <1>2, <1>5, <1>10, <1>11, PostsStay DEF TabInv, LoadInv

----------------------------------------------------------------------------
(* Turns *)

LEMMA SendOK ==
  ASSUME TabInv, Send
  PROVE  TabInv'
<1>1. /\ UNCHANGED <<serverVars, tabVars, cacheVars>> /\ page \in Agents /\ hook.shown # NULL
      /\ posts' = posts \cup {[mount |-> steps, agent |-> page, as |-> cookie,
                               phase |-> "sent", body |-> 0, epoch |-> epoch]}
  BY DEF Send
<1>2. ServerInv' /\ ServerMoves /\ MadeKept /\ Stays /\ UNCHANGED <<hook, load>>
  BY <1>1, PageQuiet DEF TabInv, tabVars
<1>3. PICK q : q = [mount |-> steps, agent |-> page, as |-> cookie,
                    phase |-> "sent", body |-> 0, epoch |-> epoch]
  OBVIOUS
<1>4. UNCHANGED <<row, len, epoch, cookie>> /\ len[page] \in Nat
  BY <1>1 DEF serverVars, TabInv, ServerInv
<1>5. hook.key # NULL
  BY <1>1 DEF TabInv, HookInv
<1>6. PostOK(q)'
  BY <1>1, <1>2, <1>3, <1>4, <1>5 DEF PostOK, TabInv, ServerInv, Stays
<1>7. PostsInv'
  BY <1>1, <1>2, <1>3, <1>6, PostStays DEF TabInv, PostsInv
<1> QED
  BY <1>1, <1>2, <1>7, HookStays, LoadStays, StoresStay DEF TabInv

LEMMA BecomeOK ==
  ASSUME TabInv, ServerInv', ServerMoves, MadeKept, Stays, UNCHANGED <<tabVars, cacheVars>>,
         NEW p \in posts, NEW q, Become(p, q), PostOK(q)'
  PROVE  TabInv'
<1>1. UNCHANGED <<hook, load>>
  BY DEF tabVars
<1>2. ASSUME NEW r \in posts' PROVE PostOK(r)'
  <2>1. r = q \/ r \in posts
    BY DEF Become
  <2>2. r \in posts => PostOK(r)
    BY DEF TabInv, PostsInv
  <2> QED
    BY <1>1, <2>1, <2>2, PostStays DEF TabInv
<1>3. PostsInv'
  BY <1>2 DEF PostsInv
<1> QED
  BY <1>1, <1>3, HookStays, LoadStays, StoresStay DEF TabInv

LEMMA ServeRefusalOK ==
  ASSUME TabInv, NEW p \in posts, ServeRefusal(p)
  PROVE  TabInv'
<1>0. PostOK(p)
  BY DEF TabInv, PostsInv
<1>1. /\ UNCHANGED <<born, live, len, public, cookie, tabVars, cacheVars>>
      /\ Become(p, [p EXCEPT !.phase = "refused", !.epoch = epoch'])
      /\ \/ row[p.agent] = p.as /\ epoch' = epoch + 1 /\ row' = [row EXCEPT ![p.agent] = NULL]
         \/ row[p.agent] # p.as /\ UNCHANGED <<row, epoch>>
  BY DEF ServeRefusal, Changed
<1>2. UNCHANGED <<page, steps, known, made, hook, load>>
  BY <1>1 DEF tabVars
<1>3. /\ epoch' \in Nat /\ epoch <= epoch' /\ row' \in [Agents -> Ids \cup {NULL}]
      /\ \A a \in Agents : row'[a] \in {row[a], NULL}
      /\ epoch' = epoch => row' = row
      /\ row'[p.agent] # p.as
  BY <1>0, <1>1, PagesAssumption DEF TabInv, ServerInv, PostOK, Ids
<1>4. ServerInv' /\ ServerMoves /\ MadeKept /\ Stays
  BY <1>1, <1>2, <1>3 DEF TabInv, ServerInv, ServerMoves, MadeKept, Stays
<1>5. PICK q : q = [p EXCEPT !.phase = "refused", !.epoch = epoch']
  OBVIOUS
<1>6. /\ DOMAIN q = DOMAIN p /\ q.mount = p.mount /\ q.agent = p.agent /\ q.as = p.as /\ q.body = p.body
      /\ q.phase = "refused" /\ q.epoch = epoch'
  BY <1>0, <1>5 DEF PostOK
<1>7. q.mount = steps' => page' = q.agent /\ q.as = cookie' /\ hook'.key # NULL /\ Shut'
  <2> SUFFICES ASSUME p.mount = steps
               PROVE  page = p.agent /\ p.as = cookie' /\ hook.key # NULL /\ Shut'
    BY <1>2, <1>6
  <2>1. page = p.agent /\ p.as = cookie /\ hook.key # NULL /\ p.agent \in Agents
    BY <1>0 DEF PostOK
  <2>2. cookie' = cookie
    BY <1>1
  <2>3. page' = page
    BY <1>2
  <2>4. row'[p.agent] # p.as
    BY <1>3
  <2> QED
    BY <2>1, <2>2, <2>3, <2>4 DEF Shut
<1>8. PostOK(q)'
  BY <1>0, <1>1, <1>2, <1>3, <1>6, <1>7 DEF PostOK
<1> QED
  BY <1>1, <1>4, <1>5, <1>8, BecomeOK

LEMMA ServeTurnOK ==
  ASSUME TabInv, NEW p \in posts, ServeTurn(p)
  PROVE  TabInv'
<1>0. PostOK(p)
  BY DEF TabInv, PostsInv
<1>1. /\ UNCHANGED <<born, row, live, public, cookie, tabVars, cacheVars>> /\ epoch' = epoch + 1
      /\ len' = [len EXCEPT ![p.agent] = @ + 1]
      /\ p.phase \in {"sent", "asked"}
      /\ Become(p, IF p.phase = "sent" THEN [p EXCEPT !.phase = "asked"]
                   ELSE [p EXCEPT !.phase = "answered", !.body = len'[p.agent],
                               !.epoch = IF row[p.agent] = p.as THEN epoch' ELSE @])
  BY DEF ServeTurn, Changed
<1>2. UNCHANGED <<page, steps, known, made, hook, load>>
  BY <1>1 DEF tabVars
<1>3. /\ p.agent \in Agents /\ len' \in [Agents -> Nat] /\ \A a \in Agents : len[a] <= len'[a]
      /\ epoch \in Nat /\ epoch' \in Nat /\ epoch <= epoch' /\ epoch # epoch'
  BY <1>0, <1>1 DEF TabInv, ServerInv, PostOK
<1>4. ServerInv' /\ ServerMoves /\ MadeKept /\ Stays
  BY <1>1, <1>2, <1>3 DEF TabInv, ServerInv, ServerMoves, MadeKept, Stays
<1>5. PostOK(p)'
  BY <1>0, <1>2, <1>4, PostStays DEF TabInv
<1>6. CASE p.phase = "sent"
  <2>1. PICK q : q = [p EXCEPT !.phase = "asked"]
    OBVIOUS
  <2>2. /\ DOMAIN q = DOMAIN p /\ q.mount = p.mount /\ q.agent = p.agent /\ q.as = p.as /\ q.body = p.body
        /\ q.phase = "asked" /\ q.epoch = p.epoch
    BY <1>0, <2>1 DEF PostOK
  <2>3. PostOK(q)'
    BY <1>5, <2>2 DEF PostOK
  <2>4. Become(p, q)
    BY <1>1, <1>6, <2>1
  <2> QED
    BY <1>1, <1>4, <2>3, <2>4, BecomeOK
<1>7. CASE p.phase = "asked"
  <2>1. PICK q : q = [p EXCEPT !.phase = "answered", !.body = len'[p.agent],
                              !.epoch = IF row[p.agent] = p.as THEN epoch' ELSE @]
    OBVIOUS
  <2>2. /\ DOMAIN q = DOMAIN p /\ q.mount = p.mount /\ q.agent = p.agent /\ q.as = p.as
        /\ q.body = len'[p.agent] /\ q.phase = "answered"
        /\ \/ row[p.agent] = p.as /\ q.epoch = epoch'
           \/ row[p.agent] # p.as /\ q.epoch = p.epoch
    BY <1>0, <2>1 DEF PostOK
  <2>3. q.epoch \in Nat /\ q.epoch <= epoch' /\ (q.epoch = epoch' => row'[q.agent] = q.as)
    BY <1>0, <1>1, <1>3, <2>2 DEF PostOK
  <2>4. len'[p.agent] \in Nat /\ q.body \in 0..len'[q.agent]
    BY <1>3, <2>2
  <2>5. PostOK(q)'
    BY <1>5, <2>2, <2>3, <2>4 DEF PostOK
  <2>6. Become(p, q)
    BY <1>1, <1>7, <2>1
  <2> QED
    BY <1>1, <1>4, <2>5, <2>6, BecomeOK
<1> QED
  BY <1>1, <1>6, <1>7

(* An answer of a page that was left reaches the cache only. *)
LEMMA CommitOK ==
  ASSUME TabInv, NEW p \in posts, Commit(p)
  PROVE  TabInv'
<1> DEFINE value == [of |-> p.as, body |-> p.body]
<1>0. PostOK(p)
  BY DEF TabInv, PostsInv
<1>1. /\ UNCHANGED <<serverVars, page, steps, known, made, load>> /\ posts' = posts \ {p} /\ p.phase = "answered"
      /\ hook' = IF p.mount = steps THEN [hook EXCEPT !.data = value, !.applied = p.epoch] ELSE hook
      /\ CacheSet(<<"chat", p.agent>>, value)
  BY DEF Commit
<1>2. ServerInv' /\ ServerMoves /\ MadeKept /\ Stays
  BY <1>1, PageQuiet DEF TabInv
<1>3. <<"chat", p.agent>> \in Key /\ Good(<<"chat", p.agent>>, value, row, made, len)
  BY <1>0, KeysApart DEF PostOK, Key, Good
<1>4. UNCHANGED <<row, made, len, public, epoch, cookie, page>> /\ PageKeys' = PageKeys
  BY <1>1 DEF serverVars, PageKeys
<1>5. StoresInv'
  BY <1>1, <1>3, <1>4, PutFilled DEF TabInv, StoresInv, CacheSet
<1>6. HookInv' /\ hook'.key = hook.key
  <2>1. CASE p.mount # steps
    <3>1. hook' = hook
      BY <1>1, <2>1
    <3> QED
      BY <1>2, <3>1, HookStays DEF TabInv
  <2>2. CASE p.mount = steps
    <3>1. page \in Agents /\ page = p.agent /\ p.as = cookie /\ hook.key # NULL /\ hook.key \in PageKeys
      BY <1>0, <2>2 DEF TabInv, HookInv, PostOK
    <3>2. hook.key = <<"chat", p.agent>> /\ ~ IsList(hook.key) /\ hook.key[2] = page
      BY <3>1, PageKeysAre DEF TabInv
    <3>3. /\ DOMAIN hook' = DOMAIN hook /\ hook'.key = hook.key /\ hook'.data = value
          /\ hook'.shown = hook.shown /\ hook'.locked = hook.locked /\ hook'.applied = p.epoch
      BY <1>1, <2>2 DEF TabInv, HookInv
    <3>4. ASSUME p.epoch = epoch PROVE Current'
      <4>1. row[page] = cookie /\ p.body = len[page]
        BY <1>0, <1>1, <3>1, <3>4 DEF PostOK
      <4>2. Answer(hook.key, cookie) = [status |-> 200, of |-> cookie, body |-> len[page]]
        BY <3>2, <4>1 DEF Answer
      <4>3. Answer(hook.key, cookie)' = Answer(hook.key, cookie)
        BY <1>4, <3>3 DEF Answer, Held
      <4>4. ~ hook.locked
        BY <4>1 DEF TabInv, HookInv, Shut
      <4> QED
        BY <3>1, <3>3, <4>1, <4>2, <4>3, <4>4 DEF Current, Painted
    <3>5. p.epoch \in Int /\ p.epoch <= epoch
      BY <1>0 DEF PostOK
    <3> HIDE DEF value
    <3>6. /\ hook'.data # NULL => hook'.key # NULL /\ Good(hook'.key, hook'.data, row', made', len')
          /\ hook'.shown # NULL => hook'.key # NULL /\ Good(hook'.key, hook'.shown, row', made', len')
      BY <1>3, <1>4, <3>1, <3>2, <3>3 DEF TabInv, HookInv
    <3>7. hook'.locked => Shut'
      BY <1>4, <3>3 DEF TabInv, HookInv, Shut
    <3>8. DOMAIN hook' = {"key", "data", "shown", "locked", "applied"} /\ hook'.key \in PageKeys' \cup {NULL}
          /\ hook'.locked \in BOOLEAN
      BY <1>4, <3>3 DEF TabInv, HookInv
    <3> QED
      BY <1>4, <3>3, <3>4, <3>5, <3>6, <3>7, <3>8 DEF HookInv
  <2> QED
    BY <2>1, <2>2
<1> QED
  BY <1>1, <1>2, <1>5, <1>6, LoadStays, PostsStay DEF TabInv

LEMMA LockOK ==
  ASSUME TabInv, NEW p \in posts, Lock(p)
  PROVE  TabInv'
<1>0. PostOK(p)
  BY DEF TabInv, PostsInv
<1>1. /\ UNCHANGED <<serverVars, page, steps, known, made, load>> /\ posts' = posts \ {p} /\ p.phase = "refused"
      /\ hook' = IF p.mount = steps THEN [hook EXCEPT !.locked = TRUE, !.applied = p.epoch] ELSE hook
      /\ memory' = Drop(memory, {<<"chat", p.agent>>}) /\ disk' = Drop(disk, {<<"chat", p.agent>>})
  BY DEF Lock
<1>2. ServerInv' /\ ServerMoves /\ MadeKept /\ Stays
  BY <1>1, PageQuiet DEF TabInv
<1>3. UNCHANGED <<row, made, len, public, epoch, cookie, page>> /\ PageKeys' = PageKeys
  BY <1>1 DEF serverVars, PageKeys
<1>4. StoresInv'
  BY <1>1, <1>3, DropFilled DEF TabInv, StoresInv
<1>5. HookInv' /\ hook'.key = hook.key
  <2>1. CASE p.mount # steps
    <3>1. hook' = hook
      BY <1>1, <2>1
    <3> QED
      BY <1>2, <3>1, HookStays DEF TabInv
  <2>2. CASE p.mount = steps
    <3>1. Shut /\ p.as = cookie /\ p.epoch \in Int /\ p.epoch <= epoch
      BY <1>0, <1>1, <2>2 DEF PostOK
    <3>2. /\ DOMAIN hook' = DOMAIN hook /\ hook'.key = hook.key /\ hook'.data = hook.data
          /\ hook'.shown = hook.shown /\ hook'.locked = TRUE /\ hook'.applied = p.epoch
      BY <1>1, <2>2 DEF TabInv, HookInv
    <3>3. hook.key # NULL => Current'
      <4> SUFFICES ASSUME hook.key # NULL PROVE Current'
        OBVIOUS
      <4>1. hook.key \in PageKeys /\ page \in Agents /\ row[page] # cookie
        BY <3>1 DEF TabInv, HookInv, Shut
      <4>2. ~ IsList(hook.key) /\ hook.key[2] = page
        BY <4>1, PageKeysAre DEF TabInv
      <4>3. Answer(hook.key, cookie) = [status |-> 403, of |-> cookie, body |-> NULL]
        BY <4>1, <4>2 DEF Answer
      <4>4. Answer(hook.key, cookie)' = Answer(hook.key, cookie)
        BY <1>3, <3>2 DEF Answer, Held
      <4> QED
        BY <3>2, <4>3, <4>4 DEF Current
    <3>4. Shut'
      BY <1>3, <3>1 DEF Shut
    <3> QED
      BY <1>3, <3>1, <3>2, <3>3, <3>4 DEF TabInv, HookInv
  <2> QED
    BY <2>1, <2>2
<1> QED
  BY <1>1, <1>2, <1>4, <1>5, LoadStays, PostsStay DEF TabInv

LEMMA PostFailsOK ==
  ASSUME TabInv, NEW p \in posts, PostFails(p)
  PROVE  TabInv'
<1>1. UNCHANGED <<serverVars, tabVars, cacheVars>> /\ posts' = posts \ {p}
  BY DEF PostFails
<1>2. ServerInv' /\ ServerMoves /\ MadeKept /\ Stays /\ UNCHANGED <<hook, load>>
  BY <1>1, PageQuiet DEF TabInv, tabVars
<1> QED
  BY <1>1, <1>2, HookStays, LoadStays, PostsStay, StoresStay DEF TabInv

----------------------------------------------------------------------------
(* Changes at the server *)

LEMMA ElsewhereOK ==
  ASSUME TabInv, ServerInv', ServerMoves, MadeKept, Stays, UNCHANGED <<hook, load, posts, cacheVars>>
  PROVE  TabInv'
  BY HookStays, LoadStays, PostsStay, StoresStay DEF TabInv

LEMMA OtherTurnOK ==
  ASSUME TabInv, NEW a \in Agents, OtherTurn(a) \/ Expire(a)
  PROVE  TabInv'
<1>1. /\ UNCHANGED <<born, row, public, cookie, tabVars, posts, cacheVars>> /\ epoch' = epoch + 1
      /\ len' \in {len, [len EXCEPT ![a] = @ + 2]}
  BY DEF OtherTurn, Expire, Changed
<1>2. UNCHANGED <<page, steps, known, made, hook, load>>
  BY <1>1 DEF tabVars
<1>3. len' \in [Agents -> Nat] /\ \A b \in Agents : len[b] <= len'[b]
  BY <1>1 DEF TabInv, ServerInv
<1>4. ServerInv' /\ ServerMoves /\ MadeKept /\ Stays
  BY <1>1, <1>2, <1>3 DEF TabInv, ServerInv, ServerMoves, MadeKept, Stays
<1> QED
  BY <1>1, <1>2, <1>4, ElsewhereOK

LEMMA SignOK ==
  ASSUME TabInv, SignIn \/ SignOut
  PROVE  TabInv'
<1>1. /\ UNCHANGED <<born, live, len, public, page, steps, known, hook, load, posts, cacheVars>>
      /\ epoch' = epoch + 1 /\ page = "list" /\ made' = {} /\ cookie' \in Ids
      /\ row' \in {row, [a \in Agents |-> IF row[a] = Guest THEN Account ELSE row[a]]}
  BY DEF SignIn, SignOut, Changed, Ids
<1>2. row' \in [Agents -> Ids \cup {NULL}] /\ page \notin Agents
  BY <1>1, PagesAssumption DEF TabInv, ServerInv, Ids
<1>3. ServerInv' /\ ServerMoves /\ MadeKept /\ Stays
  BY <1>1, <1>2 DEF TabInv, ServerInv, ServerMoves, MadeKept, Stays
<1> QED
  BY <1>1, <1>3, ElsewhereOK

(* A created agent is new, so no list could have it; its purge leaves none. *)
LEMMA CreateOK ==
  ASSUME TabInv, NEW a \in Agents, Create(a)
  PROVE  TabInv'
<1>1. /\ page = "new" /\ a \notin born /\ epoch' = epoch + 1 /\ born' = born \cup {a}
      /\ row' = [row EXCEPT ![a] = cookie] /\ UNCHANGED <<len, public, cookie, auth, posts>>
  BY DEF Create, Changed
<1>2. /\ row' \in [Agents -> Ids \cup {NULL}] /\ page \notin Agents /\ a \notin made
      /\ \A b \in made : row'[b] = row[b]
  BY <1>1, PagesAssumption DEF TabInv, ServerInv
<1>3. ServerMoves
  BY <1>1, <1>2 DEF TabInv, ServerInv, ServerMoves
<1>4. CASE UNCHANGED <<page, steps, known, hook, load, made, cacheVars>>
  <2>1. ServerInv' /\ MadeKept /\ Stays
    BY <1>1, <1>2, <1>4 DEF TabInv, ServerInv, MadeKept, Stays
  <2> QED
    BY <1>1, <1>3, <1>4, <2>1, ElsewhereOK
<1>5. CASE PurgeLists /\ made' = made \cup {a} /\ Mount(a)
  <2>1. ServerInv'
    BY <1>1, <1>2, <1>5 DEF TabInv, ServerInv, Mount
  <2>2. ASSUME NEW m, Filled(m, row, made, len) PROVE Filled(Drop(m, Lists), row', made', len')
    <3>1. \A k \in Key \ Lists : ~ IsList(k)
      BY KeysApart DEF Key
    <3> QED
      BY <1>1, <2>2, <3>1 DEF Filled, Drop, Good
  <2>3. StoresInv'
    BY <1>5, <2>2 DEF TabInv, StoresInv, PurgeLists
  <2> QED
    BY <1>1, <1>3, <1>5, <2>1, <2>3, MountInv
<1> QED
  BY <1>4, <1>5 DEF Create

LEMMA ToggleOK ==
  ASSUME TabInv, NEW a \in Agents, Toggle(a)
  PROVE  TabInv'
<1> DEFINE k == KeyOf
           c == CacheGet(k)
<1>1. /\ UNCHANGED <<born, row, live, len, cookie, page, steps, known, auth, made, posts, cacheVars>>
      /\ page = "list" /\ hook.shown # NULL /\ hook.key = k /\ epoch' = epoch + 1
      /\ hook' = [hook EXCEPT !.shown = hook.data, !.applied = -1, !.data = IF c # NULL THEN c ELSE @]
      /\ load' = [key |-> k, as |-> cookie, began |-> epoch', answer |-> NULL]
  BY DEF Toggle, Changed
<1>2. ServerInv' /\ ServerMoves /\ MadeKept /\ Stays /\ page \notin Agents
  BY <1>1, PagesAssumption DEF TabInv, ServerInv, ServerMoves, MadeKept, Stays
<1>3. k # NULL /\ k \in PageKeys /\ PageKeys' = PageKeys /\ ~ hook.locked
  BY <1>1, <1>2, PageKeysStay DEF TabInv, HookInv, Shut
<1>4. c # NULL => Good(k, c, row, made, len)
  BY CachedGood DEF TabInv
<1> HIDE DEF k, c
<1>5. /\ DOMAIN hook' = DOMAIN hook /\ hook'.key = k /\ hook'.shown = hook.data
      /\ hook'.data = (IF c # NULL THEN c ELSE hook.data)
      /\ hook'.locked = hook.locked /\ hook'.applied = -1
  BY <1>1 DEF TabInv, HookInv
<1>6. /\ hook'.data # NULL => hook'.key # NULL /\ Good(hook'.key, hook'.data, row', made', len')
      /\ hook'.shown # NULL => hook'.key # NULL /\ Good(hook'.key, hook'.shown, row', made', len')
  BY <1>1, <1>3, <1>4, <1>5 DEF TabInv, HookInv
<1>7. hook'.applied # epoch' /\ hook'.applied \in Int /\ hook'.applied <= epoch'
  BY <1>2, <1>5 DEF ServerInv
<1>8. HookInv'
  BY <1>3, <1>5, <1>6, <1>7 DEF TabInv, HookInv
<1>9. LoadInv'
  BY <1>1, <1>2, <1>3, <1>5 DEF ServerInv, LoadInv, LoadOK
<1> QED
  BY <1>1, <1>2, <1>3, <1>5, <1>8, <1>9, PostsStay, StoresStay DEF TabInv

----------------------------------------------------------------------------
(* The invariant, and what it says of what is shown *)

LEMMA InitTab == Init => TabInv
<1> SUFFICES ASSUME Init PROVE TabInv
  OBVIOUS
<1>1. ServerInv
  BY PagesAssumption DEF Init, ServerInv, Ids
<1>2. HookInv
  BY DEF Init, HookInv, NewHook
<1>3. StoresInv
  BY DEF Init, StoresInv, Filled
<1> QED
  BY <1>1, <1>2, <1>3 DEF Init, TabInv, LoadInv, PostsInv

LEMMA NextTab == TabInv /\ [Next]_vars => TabInv'
<1> SUFFICES ASSUME TabInv, [Next]_vars PROVE TabInv'
  OBVIOUS
<1>1. ASSUME NEW p \in {"list", "new"} \cup Agents, Navigate(p) PROVE TabInv'
  BY <1>1, NavigateOK
<1>2. CASE Learn \/ Recognise \/ HandleSignedIn \/ HandleSignedOut
  <2>1. /\ UNCHANGED <<serverVars, page, steps, made, hook, load, posts>> /\ known' \in Ids \cup {NULL}
        /\ UNCHANGED cacheVars \/ PurgeLists
    BY <1>2 DEF Learn, Recognise, HandleSignedIn, HandleSignedOut, TabInv, ServerInv, Ids
  <2> QED
    BY <2>1, KnownOK
<1>3. CASE Reload \/ Render \/ Effect \/ Cleanup
  BY <1>3, ReloadOK, RenderOK, EffectOK
<1>4. CASE ServeLoad \/ Apply \/ LoadFails
  BY <1>4, ServeLoadOK, RefusalOK, AppliedOK, LoadFailsOK
<1>5. CASE Send
  BY <1>5, SendOK
<1>6. ASSUME NEW p \in posts, ServeRefusal(p) \/ ServeTurn(p) \/ Commit(p) \/ Lock(p) \/ PostFails(p)
      PROVE  TabInv'
  BY <1>6, ServeRefusalOK, ServeTurnOK, CommitOK, LockOK, PostFailsOK
<1>7. ASSUME NEW a \in Agents, OtherTurn(a) \/ Expire(a) \/ Create(a) \/ Toggle(a)
      PROVE  TabInv'
  BY <1>7, OtherTurnOK, CreateOK, ToggleOK
<1>8. CASE SignIn \/ SignOut
  BY <1>8, SignOK
<1>9. CASE UNCHANGED vars
  <2>1. UNCHANGED <<serverVars, page, steps, known, made, hook, load, posts, cacheVars>>
    BY <1>9 DEF vars, tabVars
  <2> QED
    BY <2>1, PageQuiet, ElsewhereOK DEF TabInv
<1> QED
  BY <1>1, <1>2, <1>3, <1>4, <1>5, <1>6, <1>7, <1>8, <1>9 DEF Next

(* Every value in the tab, in flight and in either cache is one its key may *)
(* have, and current if nothing changed at the server since it was asked    *)
(* for.                                                                     *)
THEOREM TabInvariant == Spec => []TabInv
  BY InitTab, NextTab, PTL DEF Spec

(* What a quiet tab shows is what the server holds, if nothing changed there *)
(* since it was asked for: no late load, cached copy, commit, lock or purge  *)
(* leaves an older or another's value on screen, however many there are.     *)
THEOREM QuietTabsAreCurrent == Spec => []SettledIsCurrent
<1>1. TabInv => SettledIsCurrent
  <2> SUFFICES ASSUME TabInv, Settled, hook.applied = epoch
               PROVE  LET now == Answer(KeyOf, cookie) IN
                      IF now.status = 403 THEN hook.locked
                      ELSE ~ hook.locked /\ hook.shown = Painted(now)
    BY DEF SettledIsCurrent
  <2>1. hook.key = KeyOf /\ hook.key # NULL /\ hook.shown = hook.data
    BY DEF Settled
  <2>2. Current
    BY <2>1 DEF TabInv, HookInv
  <2> QED
    BY <2>1, <2>2 DEF Current
<1> QED
  BY <1>1, TabInvariant, PTL

(* An agent the tab was told it created is in every list it shows the       *)
(* agent's owner from then on: the purge before it reached both caches, and *)
(* the hook and the load of the create page's list were gone with the page. *)
THEOREM CreatedAgentsListed == Spec => []CreatedIsListed
<1>1. TabInv => CreatedIsListed
  <2> SUFFICES ASSUME TabInv, Settled, page = "list", hook.shown # NULL,
                      NEW a \in made, row[a] = hook.shown.of
               PROVE  a \in DOMAIN hook.shown.body
    BY DEF CreatedIsListed
  <2>1. hook.key \in PageKeys /\ Good(hook.key, hook.shown, row, made, len)
    BY DEF TabInv, HookInv
  <2>2. IsList(hook.key)
    BY <2>1, PageKeysAre, PagesAssumption DEF TabInv
  <2> QED
    BY <2>1, <2>2 DEF Good
<1> QED
  BY <1>1, TabInvariant, PTL

============================================================================
