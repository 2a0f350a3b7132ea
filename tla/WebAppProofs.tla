---------------------------- MODULE WebAppProofs ----------------------------
(***************************************************************************)
(* Proofs about WebApp, for any number of requests, agents and owners.     *)
(*                                                                         *)
(* ShapeInv (types, and what a request is at each stage) carries three     *)
(* invariants over it: HolderInv says who may hold a key, TranscriptInv    *)
(* what a conversation is made of, UsableInv that no stale read or stamp   *)
(* takes a new agent's key.  Each has one lemma per part, by the effect of *)
(* a step on the table the part is about.                                  *)
(***************************************************************************)
EXTENDS WebApp, TLAPS

----------------------------------------------------------------------------
(* What a request holds by itself *)

PastKey == {"judge", "prune", "touch", "session", "insert", "reread", "run", "question", "reply"}

Shaped(s) ==
  /\ s.pc # "idle" => s.req \in WebRequest
  /\ s.pc = "custody" => s.req.op = "create"
  /\ s.pc \in PastKey \cup {"key"} => s.req.op = "chat"
  /\ s.pc # "idle" /\ s.req.op \in {"create", "chat"} => s.agent \in Agent
  /\ s.pc \in {"judge", "prune", "touch"} => s.seen \in KeyRow /\ s.seen.agent = s.agent
  /\ s.result = "ok" => s.pc = "done"

ShapeInv == TypeOK /\ \A r \in Request : Shaped(web[r])

LEMMA IdleIsState == IdleRequest \in RequestState
<1>1. 0 \in 0..(MaxTime + Window)
  BY WindowAssumption
<1>2. QED
  BY <1>1 DEF IdleRequest, RequestState

(* One step of one request leaves the others as they are. *)
LEMMA StepIsOwn ==
  ASSUME TypeOK, NEW r \in Request, NEW s, Step(r, s)
  PROVE  web'[r] = s /\ (\A t \in Request \ {r} : web'[t] = web[t])
  BY DEF TypeOK, Step

LEMMA StepTyped ==
  ASSUME TypeOK, NEW r \in Request, NEW s \in RequestState, Step(r, s)
  PROVE  web' \in [Request -> RequestState]
  BY DEF TypeOK, Step

LEMMA AnswerShape ==
  ASSUME ShapeInv, NEW r \in Request, NEW code \in {"ok", "error", "MISSING_SESSION"},
         Answer(r, code), web[r].pc # "idle"
  PROVE  /\ web' \in [Request -> RequestState] /\ Shaped(web'[r])
         /\ web'[r].pc = "done" /\ web'[r].result = code
         /\ web'[r].req = web[r].req /\ web'[r].agent = web[r].agent /\ web'[r].stamp = web[r].stamp
<1> DEFINE s == [web[r] EXCEPT !.pc = "done", !.result = code]
<1>1. web[r] \in RequestState /\ Shaped(web[r]) /\ TypeOK
  BY DEF ShapeInv, TypeOK
<1>2. /\ s \in RequestState /\ s.pc = "done" /\ s.result = code
      /\ s.req = web[r].req /\ s.agent = web[r].agent /\ s.stamp = web[r].stamp
  BY <1>1 DEF RequestState
<1>3. Shaped(s)
  BY <1>1, <1>2 DEF Shaped, PastKey
<1>4. Step(r, s)
  BY DEF Answer
<1> HIDE DEF s
<1>5. QED
  BY <1>1, <1>2, <1>3, <1>4, StepIsOwn, StepTyped

LEMMA GotoShape ==
  ASSUME ShapeInv, NEW r \in Request, NEW pc \in PastKey, Goto(r, pc),
         web[r].pc \in PastKey, pc \in {"judge", "prune", "touch"} => web[r].pc \in {"judge", "prune", "touch"}
  PROVE  /\ web' \in [Request -> RequestState] /\ Shaped(web'[r]) /\ web'[r].pc = pc
         /\ web'[r].req = web[r].req /\ web'[r].agent = web[r].agent
         /\ web'[r].stamp = web[r].stamp /\ web'[r].seen = web[r].seen /\ web'[r].result = web[r].result
<1> DEFINE s == [web[r] EXCEPT !.pc = pc]
<1>1. web[r] \in RequestState /\ Shaped(web[r]) /\ TypeOK
  BY DEF ShapeInv, TypeOK
<1>2. /\ s \in RequestState /\ s.pc = pc /\ s.result = web[r].result
      /\ s.req = web[r].req /\ s.agent = web[r].agent /\ s.stamp = web[r].stamp /\ s.seen = web[r].seen
  BY <1>1 DEF RequestState, PastKey
<1>3. Shaped(s)
  BY <1>1, <1>2 DEF Shaped, PastKey
<1>4. Step(r, s)
  BY DEF Goto
<1> HIDE DEF s
<1>5. QED
  BY <1>1, <1>2, <1>3, <1>4, StepIsOwn, StepTyped

(* The stages a request can reach by a step, and that it keeps what it asks *)
(* and the agent it is about.                                               *)
LEMMA ContinueShape ==
  ASSUME ShapeInv, NEW r \in Request, Continue(r) \/ Abort(r)
  PROVE  /\ web' \in [Request -> RequestState] /\ Shaped(web'[r])
         /\ web[r].pc # "idle" /\ web'[r].pc \notin {"idle", "custody", "key"}
         /\ web'[r].req = web[r].req /\ web'[r].agent = web[r].agent
<1>0. web[r] \in RequestState /\ Shaped(web[r]) /\ TypeOK
  BY DEF ShapeInv, TypeOK
<1>1. CASE \E code \in {"ok", "error", "MISSING_SESSION"} : Answer(r, code) /\ web[r].pc # "idle"
  BY <1>1, AnswerShape
<1>2. CASE \E pc \in PastKey \ {"judge", "touch"} :
             /\ Goto(r, pc) /\ web[r].pc \in PastKey
             /\ pc = "prune" => web[r].pc = "judge"
  <2>1. PICK pc \in PastKey \ {"judge", "touch"} :
             /\ Goto(r, pc) /\ web[r].pc \in PastKey
             /\ pc = "prune" => web[r].pc = "judge"
    BY <1>2
  <2>2. pc \in {"judge", "prune", "touch"} => web[r].pc \in {"judge", "prune", "touch"}
    BY <2>1
  <2>3. QED
    BY <2>1, <2>2, GotoShape DEF PastKey
<1>3. CASE ReadKey(r) /\ ~ Answer(r, "MISSING_SESSION")
  <2>1. PICK k \in KeyOf(web[r].agent, OwnerOf(r)) : Step(r, [web[r] EXCEPT !.pc = "judge", !.seen = k])
    BY <1>3 DEF ReadKey
  <2> DEFINE s == [web[r] EXCEPT !.pc = "judge", !.seen = k]
  <2>2. k \in KeyRow /\ k.agent = web[r].agent /\ web[r].pc = "key"
    BY <1>0, <1>3, <2>1 DEF ReadKey, At, KeyOf, TypeOK, KeysTypeOK
  <2>3. /\ s \in RequestState /\ s.pc = "judge" /\ s.seen = k /\ s.result = web[r].result
        /\ s.req = web[r].req /\ s.agent = web[r].agent
    BY <1>0, <2>2 DEF RequestState
  <2>4. Shaped(s)
    BY <1>0, <2>2, <2>3 DEF Shaped, PastKey
  <2> HIDE DEF s
  <2>5. Step(r, s)
    BY <2>1 DEF s
  <2>6. QED
    BY <1>0, <2>2, <2>3, <2>4, <2>5, StepIsOwn, StepTyped
<1>4. CASE JudgeKey(r) /\ ~ Goto(r, "prune")
  <2> DEFINE s == [web[r] EXCEPT !.pc = "touch", !.stamp = Slide(web[r].seen)]
  <2>1. Step(r, s) /\ web[r].pc = "judge"
    BY <1>4 DEF JudgeKey, At
  <2>2. Slide(web[r].seen) \in 0..(MaxTime + Window)
    BY <1>0, WindowAssumption DEF Slide, TypeOK, KeysTypeOK
  <2>3. /\ s \in RequestState /\ s.pc = "touch" /\ s.seen = web[r].seen /\ s.result = web[r].result
        /\ s.req = web[r].req /\ s.agent = web[r].agent
    BY <1>0, <2>2 DEF RequestState
  <2>4. Shaped(s)
    BY <1>0, <2>1, <2>3 DEF Shaped, PastKey
  <2> HIDE DEF s
  <2>5. QED
    BY <1>0, <2>1, <2>3, <2>4, StepIsOwn, StepTyped
<1>5. CASE StoreKey(r) \/ PruneKey(r) \/ AppendReply(r) \/ Abort(r)
  BY <1>1, <1>5 DEF StoreKey, PruneKey, AppendReply, Abort, At
<1>6. CASE SlideKey(r) \/ FindSession(r) \/ InsertSession(r)
  BY <1>2, <1>6 DEF SlideKey, FindSession, InsertSession, At, PastKey
<1>7. CASE RereadSession(r) \/ Run(r) \/ AppendQuestion(r)
  BY <1>1, <1>2, <1>7 DEF RereadSession, Run, AppendQuestion, At, PastKey
<1>8. CASE ReadKey(r)
  BY <1>1, <1>3, <1>8 DEF ReadKey, At
<1>9. CASE JudgeKey(r)
  BY <1>2, <1>4, <1>9 DEF JudgeKey, At, PastKey
<1>10. QED
  BY <1>5, <1>6, <1>7, <1>8, <1>9 DEF Continue

(* What a request begins with. *)
LEMMA BeginShape ==
  ASSUME ShapeInv, NEW r \in Request, Begin(r)
  PROVE  /\ web' \in [Request -> RequestState] /\ Shaped(web'[r])
         /\ web[r].pc = "idle" /\ web'[r].pc \in {"custody", "key", "done"}
         /\ web'[r].pc = "custody" <=> web'[r].req.op = "create"
         /\ web'[r].req.op \in {"create", "chat", "signin"}
<1>1. PICK q \in WebRequest : CreateAgent(r, q) \/ ChatStart(r, q) \/ SignIn(r, q)
  BY DEF Begin
<1>2. q \in WebRequestType /\ (q.op = "chat" => q.agent \in Agent) /\ TypeOK
  BY WebRequestAssumption DEF WebRequestType, ShapeInv
<1>3. CASE CreateAgent(r, q)
  <2> DEFINE s(a) == [IdleRequest EXCEPT !.pc = "custody", !.req = q, !.agent = a, !.stamp = now + Window]
  <2>1. PICK a \in Agent : Step(r, s(a))
    BY <1>3 DEF CreateAgent
  <2>2. now + Window \in 0..(MaxTime + Window)
    BY <1>2, WindowAssumption DEF TypeOK, KeysTypeOK
  <2>3. s(a) \in RequestState /\ s(a).pc = "custody" /\ s(a).req = q /\ s(a).agent = a /\ s(a).result = "none"
    BY <2>2, IdleIsState DEF RequestState, IdleRequest
  <2>4. q.op = "create" /\ web[r].pc = "idle"
    BY <1>3 DEF CreateAgent, At
  <2>5. Shaped(s(a))
    BY <2>3, <2>4 DEF Shaped, PastKey
  <2> HIDE DEF s
  <2>6. QED
    BY <1>2, <2>1, <2>3, <2>4, <2>5, StepIsOwn, StepTyped
<1>4. CASE ChatStart(r, q)
  <2> DEFINE s == [IdleRequest EXCEPT !.pc = "key", !.req = q, !.agent = q.agent]
  <2>1. Step(r, s) /\ q.op = "chat" /\ web[r].pc = "idle"
    BY <1>4 DEF ChatStart, At
  <2>2. s \in RequestState /\ s.pc = "key" /\ s.req = q /\ s.agent = q.agent /\ s.result = "none"
    BY <1>2, <2>1, IdleIsState DEF RequestState, IdleRequest
  <2>3. Shaped(s)
    BY <1>2, <2>1, <2>2 DEF Shaped, PastKey
  <2> HIDE DEF s
  <2>4. QED
    BY <1>2, <2>1, <2>2, <2>3, StepIsOwn, StepTyped
<1>5. CASE SignIn(r, q)
  <2> DEFINE s == [IdleRequest EXCEPT !.pc = "done", !.req = q, !.result = "ok"]
  <2>1. Step(r, s) /\ q.op = "signin" /\ web[r].pc = "idle"
    BY <1>5 DEF SignIn, At
  <2>2. s \in RequestState /\ s.pc = "done" /\ s.req = q
    BY <1>2, IdleIsState DEF RequestState, IdleRequest
  <2>3. Shaped(s)
    BY <2>1, <2>2 DEF Shaped, PastKey
  <2> HIDE DEF s
  <2>4. QED
    BY <1>2, <2>1, <2>2, <2>3, StepIsOwn, StepTyped
<1>6. QED
  BY <1>1, <1>3, <1>4, <1>5

LEMMA OthersRest ==
  ASSUME ShapeInv, NEW r \in Request, Begin(r) \/ Continue(r) \/ Abort(r), NEW t \in Request \ {r}
  PROVE  web'[t] = web[t]
<1>1. \E s : Step(r, s)
  BY DEF Begin, CreateAgent, ChatStart, SignIn, Continue, Abort, StoreKey, ReadKey, JudgeKey, PruneKey,
         SlideKey, FindSession, InsertSession, RereadSession, Run, AppendQuestion, AppendReply, Goto, Answer
<1>2. QED
  BY <1>1, StepIsOwn DEF ShapeInv

(* What a request is about, typed. *)
LEMMA RequestTyped ==
  ASSUME ShapeInv, NEW r \in Request, web[r].pc # "idle"
  PROVE  /\ web[r].req \in WebRequestType /\ OwnerOf(r) \in Owner /\ web[r].stamp \in 0..(MaxTime + Window)
         /\ web[r].req.op \in {"create", "chat"} => web[r].agent \in Agent
         /\ web[r].pc \in PastKey => web[r].agent \in Agent
<1>1. web[r] \in RequestState /\ Shaped(web[r]) /\ web[r].req \in WebRequestType
  BY WebRequestAssumption DEF ShapeInv, TypeOK, Shaped
<1>2. QED
  BY <1>1 DEF RequestState, WebRequestType, OwnerOf, Shaped

LEMMA TablesTyped ==
  ASSUME ShapeInv, NEW r \in Request, Begin(r) \/ Continue(r) \/ Abort(r)
  PROVE  /\ KeysTypeOK' /\ chats' \subseteq ChatRow /\ messages' \subseteq MessageRow
         /\ attested' \subseteq [turn : Request, agent : Agent]
         /\ creator' \in [Agent -> Owner \cup {NULL}] /\ merged' \subseteq Guest \X Account
<1> DEFINE Goal ==
         /\ KeysTypeOK' /\ chats' \subseteq ChatRow /\ messages' \subseteq MessageRow
         /\ attested' \subseteq [turn : Request, agent : Agent]
         /\ creator' \in [Agent -> Owner \cup {NULL}] /\ merged' \subseteq Guest \X Account
<1>0. /\ TypeOK /\ KeysTypeOK /\ chats \subseteq ChatRow /\ messages \subseteq MessageRow
      /\ attested \subseteq [turn : Request, agent : Agent]
      /\ creator \in [Agent -> Owner \cup {NULL}] /\ merged \subseteq Guest \X Account
  BY DEF ShapeInv, TypeOK
<1>1. CASE UNCHANGED <<now, keys, records>>
  BY <1>0, <1>1 DEF records, KeysTypeOK
<1>2. ASSUME NEW q \in WebRequest, CreateAgent(r, q)
      PROVE  Goal
  <2>1. q.owner \in Owner
    BY WebRequestAssumption DEF WebRequestType
  <2>2. creator' \in [Agent -> Owner \cup {NULL}]
    BY <1>0, <1>2, <2>1 DEF CreateAgent
  <2>3. QED
    BY <1>0, <1>2, <2>2 DEF CreateAgent, KeysTypeOK
<1>3. ASSUME NEW q \in WebRequest, SignIn(r, q)
      PROVE  Goal
  <2>1. q.owner \in Guest /\ q.to \in Account
    BY <1>3, WebRequestAssumption DEF SignIn, WebRequestType
  <2>2. CASE Merge(q.owner, q.to)
    <3>1. keys' \subseteq KeyRow
      BY <1>0, <2>1, <2>2 DEF Merge, MoveKeys, KeysTypeOK, KeyRow, Owner
    <3>2. chats' \subseteq ChatRow
      BY <1>0, <2>1, <2>2 DEF Merge, ChatRow, Owner
    <3>3. merged' \subseteq Guest \X Account
      BY <1>0, <2>1, <2>2 DEF Merge
    <3>4. QED
      BY <1>0, <1>3, <3>1, <3>2, <3>3 DEF SignIn, KeysTypeOK
  <2>3. CASE UNCHANGED <<keys, chats, merged>>
    BY <1>0, <1>3, <2>3 DEF SignIn, KeysTypeOK
  <2>4. QED
    BY <1>3, <2>2, <2>3 DEF SignIn
<1>4. CASE StoreKey(r) \/ PruneKey(r) \/ SlideKey(r)
  <2>1. /\ web[r].agent \in Agent /\ OwnerOf(r) \in Owner /\ web[r].stamp \in 0..(MaxTime + Window)
    BY <1>4, RequestTyped DEF StoreKey, PruneKey, SlideKey, At, PastKey, ShapeInv, Shaped
  <2>2. \A k \in KeyRow : [k EXCEPT !.expires = web[r].stamp] \in KeyRow
    BY <2>1 DEF KeyRow
  <2>3. keys' \subseteq KeyRow
    BY <1>0, <1>4, <2>1, <2>2
       DEF StoreKey, PruneKey, SlideKey, SetKey, DeleteKey, TouchKey, KeyOf, KeysTypeOK, KeyRow
  <2>4. QED
    BY <1>0, <1>4, <2>3 DEF StoreKey, PruneKey, SlideKey, KeysTypeOK, records
<1>5. CASE InsertSession(r)
  <2>1. web[r].agent \in Agent /\ OwnerOf(r) \in Owner
    BY <1>5, RequestTyped DEF InsertSession, At, PastKey
  <2>2. chats' \subseteq ChatRow
    BY <1>0, <1>5, <2>1 DEF InsertSession, ChatRow
  <2>3. QED
    BY <1>0, <1>5, <2>2 DEF InsertSession, KeysTypeOK
<1>6. CASE Run(r)
  <2>1. web[r].agent \in Agent
    BY <1>6, RequestTyped DEF Run, At, PastKey
  <2>2. attested' \subseteq [turn : Request, agent : Agent]
    BY <1>0, <1>6, <2>1 DEF Run
  <2>3. QED
    BY <1>0, <1>6, <2>2 DEF Run, KeysTypeOK
<1>7. CASE AppendQuestion(r) \/ AppendReply(r)
  <2>1. messages' \subseteq MessageRow
    BY <1>0, <1>7 DEF AppendQuestion, AppendReply, AppendMessage, ChatOf, ChatRow, MessageRow
  <2>2. QED
    BY <1>0, <1>7, <2>1 DEF AppendQuestion, AppendReply, KeysTypeOK
<1>8. QED
  BY <1>1, <1>2, <1>3, <1>4, <1>5, <1>6, <1>7
     DEF Begin, ChatStart, Continue, Abort, ReadKey, JudgeKey, FindSession, RereadSession

LEMMA NextShape == ShapeInv /\ [Next]_vars => ShapeInv'
<1> SUFFICES ASSUME ShapeInv, [Next]_vars PROVE ShapeInv'
  OBVIOUS
<1>1. ASSUME NEW r \in Request, Begin(r) \/ Continue(r) \/ Abort(r)
      PROVE  ShapeInv'
  <2>1. web' \in [Request -> RequestState] /\ Shaped(web'[r])
    BY <1>1, BeginShape, ContinueShape
  <2>2. TypeOK'
    BY <1>1, <2>1, TablesTyped DEF TypeOK
  <2>3. \A t \in Request : Shaped(web'[t])
    BY <1>1, <2>1, OthersRest DEF ShapeInv
  <2>4. QED
    BY <2>2, <2>3 DEF ShapeInv
<1>2. CASE Tick /\ UNCHANGED <<records, web>>
  <2>1. KeysTypeOK'
    BY <1>2, WindowAssumption DEF Tick, ShapeInv, TypeOK, KeysTypeOK
  <2>2. QED
    BY <1>2, <2>1 DEF ShapeInv, TypeOK, Shaped, records
<1>3. CASE UNCHANGED vars
  BY <1>3 DEF vars, ShapeInv, TypeOK, KeysTypeOK, Shaped
<1>4. QED
  BY <1>1, <1>2, <1>3 DEF Next

LEMMA ShapeInvariant == Spec => []ShapeInv
<1>1. Init => ShapeInv
  BY IdleIsState, WindowAssumption
     DEF Init, KeysInit, ShapeInv, TypeOK, KeysTypeOK, Shaped, PastKey, IdleRequest
<1>2. QED
  BY <1>1, NextShape, PTL DEF Spec

(* Every table and every request has its type. *)
THEOREM WebTypeCorrect == Spec => []TypeOK
<1>1. ShapeInv => TypeOK
  BY DEF ShapeInv
<1>2. QED
  BY <1>1, ShapeInvariant, PTL

----------------------------------------------------------------------------
(* Who may hold what *)

Created(r) == web[r].pc # "idle" /\ web[r].req.op = "create"

(* An agent is created by one request, for its owner. *)
CreationsKnown ==
  \A r \in Request : Created(r) =>
    /\ creator[web[r].agent] = OwnerOf(r)
    /\ \A t \in Request : Created(t) /\ web[t].agent = web[r].agent => t = r

KeysHeld ==
  /\ KeyHasOneHolder
  /\ \A k \in keys : k.owner \in Tenants(k.agent)

(* Until its key is stored nobody holds one of the agent, or has read one.  *)
Waiting ==
  \A r \in Request : web[r].pc = "custody" =>
    /\ \A k \in keys : k.agent # web[r].agent
    /\ \A t \in Request : web[t].pc \in PastKey => web[t].agent # web[r].agent

(* Whoever has read a key is a tenant, wherever the key has moved since.    *)
ReadersAreTenants ==
  \A r \in Request : web[r].pc \in PastKey => OwnerOf(r) \in Tenants(web[r].agent)

HolderInv == CreationsKnown /\ KeysHeld /\ Waiting /\ ReadersAreTenants

(* Nobody is a tenant of an agent that was not created. *)
LEMMA NoTenants ==
  ASSUME ShapeInv, NEW a \in Agent, creator[a] = NULL
  PROVE  Tenants(a) = {}
<1>1. NULL \notin Owner /\ merged \subseteq Owner \X Owner
  BY WebRequestAssumption DEF ShapeInv, TypeOK, Owner
<1>2. QED
  BY <1>1 DEF Tenants

(* A guest is the tenant of what it created, accounts are of what merged.   *)
LEMMA GuestIsCreator ==
  ASSUME ShapeInv, NEW a \in Agent, NEW o \in Tenants(a), o \in Guest
  PROVE  creator[a] = o
<1>1. o = creator[a] \/ <<creator[a], o>> \in Guest \X Account
  BY DEF Tenants, ShapeInv, TypeOK
<1>2. o \notin Account
  BY OwnerAssumption
<1>3. QED
  BY <1>1, <1>2

(* Tenants stay tenants. *)
LEMMA TenantsStay ==
  ASSUME ShapeInv, NEW r \in Request, Begin(r) \/ Continue(r) \/ Abort(r), NEW a \in Agent
  PROVE  Tenants(a) \subseteq Tenants(a)'
<1>1. merged \subseteq merged'
  BY DEF Begin, CreateAgent, ChatStart, SignIn, Merge, Continue, Abort, StoreKey, ReadKey, JudgeKey, PruneKey,
         SlideKey, FindSession, InsertSession, RereadSession, Run, AppendQuestion, AppendReply, records
<1>2. CASE creator[a] = NULL
  BY <1>2, NoTenants
<1>3. CASE creator[a] # NULL
  <2>1. creator'[a] = creator[a]
    BY <1>3 DEF Begin, CreateAgent, ChatStart, SignIn, Continue, Abort, StoreKey, ReadKey, JudgeKey, PruneKey,
                SlideKey, FindSession, InsertSession, RereadSession, Run, AppendQuestion, AppendReply, records,
                ShapeInv, TypeOK
  <2>2. QED
    BY <1>1, <2>1 DEF Tenants
<1>4. QED
  BY <1>2, <1>3

LEMMA CreateAgentEffect ==
  ASSUME ShapeInv, NEW r \in Request, NEW q \in WebRequest, CreateAgent(r, q)
  PROVE  /\ web[r].pc = "idle" /\ web'[r].pc = "custody" /\ web'[r].req = q /\ q.op = "create"
         /\ web'[r].agent \in Agent /\ creator[web'[r].agent] = NULL
         /\ web'[r].stamp = now + Window /\ web'[r].result = "none"
         /\ creator' = [creator EXCEPT ![web'[r].agent] = q.owner]
         /\ UNCHANGED <<now, keys, chats, messages, attested, merged>>
<1> DEFINE s(a) == [IdleRequest EXCEPT !.pc = "custody", !.req = q, !.agent = a, !.stamp = now + Window]
<1>1. PICK a \in Agent : /\ Step(r, s(a)) /\ creator[a] = NULL
                         /\ creator' = [creator EXCEPT ![a] = q.owner]
  BY DEF CreateAgent
<1>2. /\ s(a).pc = "custody" /\ s(a).req = q /\ s(a).agent = a /\ s(a).stamp = now + Window
      /\ s(a).result = "none"
  BY DEF IdleRequest
<1> HIDE DEF s
<1>3. web'[r] = s(a)
  BY <1>1, StepIsOwn DEF ShapeInv
<1>4. QED
  BY <1>1, <1>2, <1>3 DEF CreateAgent, At

LEMMA CustodyBegins ==
  ASSUME ShapeInv, NEW r \in Request, Begin(r), web'[r].pc = "custody"
  PROVE  \E q \in WebRequest : CreateAgent(r, q)
<1>1. PICK q \in WebRequest : CreateAgent(r, q) \/ ChatStart(r, q) \/ SignIn(r, q)
  BY DEF Begin
<1> DEFINE s == [IdleRequest EXCEPT !.pc = "key", !.req = q, !.agent = q.agent]
<1> DEFINE u == [IdleRequest EXCEPT !.pc = "done", !.req = q, !.result = "ok"]
<1>2. s.pc = "key" /\ u.pc = "done"
  BY DEF IdleRequest
<1>3. (ChatStart(r, q) => Step(r, s)) /\ (SignIn(r, q) => Step(r, u))
  BY DEF ChatStart, SignIn
<1> HIDE DEF s, u
<1>4. ~ ChatStart(r, q) /\ ~ SignIn(r, q)
  BY <1>2, <1>3, StepIsOwn DEF ShapeInv
<1>5. QED
  BY <1>1, <1>4

LEMMA CreationsStayKnown ==
  ASSUME ShapeInv, CreationsKnown, NEW r \in Request, Begin(r) \/ Continue(r) \/ Abort(r)
  PROVE  CreationsKnown'
<1>0. \A t \in Request \ {r} : web'[t] = web[t]
  BY OthersRest
<1>t. /\ creator \in [Agent -> Owner \cup {NULL}] /\ NULL \notin Owner
      /\ \A t \in Request : Created(t) => web[t].agent \in Agent /\ OwnerOf(t) \in Owner
  BY RequestTyped, WebRequestAssumption DEF ShapeInv, TypeOK, Created
<1>1. ASSUME NEW q \in WebRequest, CreateAgent(r, q)
      PROVE  CreationsKnown'
  <2>1. /\ web'[r].req.owner = q.owner /\ web'[r].agent \in Agent /\ creator[web'[r].agent] = NULL
        /\ creator' = [creator EXCEPT ![web'[r].agent] = q.owner]
    BY <1>1, CreateAgentEffect
  <2>2. \A t \in Request \ {r} : Created(t) => web[t].agent # web'[r].agent
    BY <1>t, <2>1 DEF CreationsKnown
  <2>3. \A t \in Request \ {r} : Created(t)' <=> Created(t)
    BY <1>0 DEF Created
  <2>4. creator'[web'[r].agent] = q.owner
    BY <1>t, <2>1
  <2>5. \A t \in Request \ {r} : Created(t) => creator'[web[t].agent] = creator[web[t].agent]
    BY <1>t, <2>1, <2>2
  <2>6. QED
    BY <1>0, <2>1, <2>2, <2>3, <2>4, <2>5 DEF CreationsKnown, OwnerOf
<1>2. ASSUME NEW q \in WebRequest, ChatStart(r, q) \/ SignIn(r, q)
      PROVE  CreationsKnown'
  <2>1. web'[r].req.op # "create"
    <3> DEFINE s == [IdleRequest EXCEPT !.pc = "key", !.req = q, !.agent = q.agent]
    <3> DEFINE u == [IdleRequest EXCEPT !.pc = "done", !.req = q, !.result = "ok"]
    <3>1. s.req = q /\ u.req = q
      BY DEF IdleRequest
    <3>2. (Step(r, s) /\ q.op = "chat") \/ (Step(r, u) /\ q.op = "signin")
      BY <1>2 DEF ChatStart, SignIn
    <3> HIDE DEF s, u
    <3>3. web'[r] = s \/ web'[r] = u
      BY <3>2, StepIsOwn DEF ShapeInv
    <3>4. QED
      BY <3>1, <3>2, <3>3
  <2>2. creator' = creator
    BY <1>2 DEF ChatStart, SignIn, records
  <2>3. QED
    BY <1>0, <2>1, <2>2 DEF CreationsKnown, Created, OwnerOf
<1>3. CASE Continue(r) \/ Abort(r)
  <2>1. web'[r].req = web[r].req /\ web'[r].agent = web[r].agent /\ web[r].pc # "idle" /\ web'[r].pc # "idle"
    BY <1>3, ContinueShape
  <2>2. creator' = creator
    BY <1>3 DEF Continue, Abort, StoreKey, ReadKey, JudgeKey, PruneKey, SlideKey, FindSession, InsertSession,
                RereadSession, Run, AppendQuestion, AppendReply, records
  <2>3. QED
    BY <1>0, <2>1, <2>2 DEF CreationsKnown, Created, OwnerOf
<1>4. QED
  BY <1>1, <1>2, <1>3 DEF Begin

LEMMA KeysStayHeld ==
  ASSUME ShapeInv, HolderInv, NEW r \in Request, Begin(r) \/ Continue(r) \/ Abort(r)
  PROVE  KeysHeld'
<1>0. /\ keys \subseteq KeyRow /\ KeyHasOneHolder
      /\ \A k \in keys : k.agent \in Agent /\ k.owner \in Tenants(k.agent)
      /\ \A a \in Agent : Tenants(a) \subseteq Tenants(a)'
  BY TenantsStay DEF ShapeInv, TypeOK, KeysTypeOK, HolderInv, KeysHeld, KeyRow
<1>1. CASE UNCHANGED keys
  BY <1>0, <1>1 DEF KeysHeld, KeyHasOneHolder
<1>2. CASE StoreKey(r)
  <2>1. /\ web[r].pc = "custody" /\ Created(r) /\ web[r].agent \in Agent /\ OwnerOf(r) \in Owner
    BY <1>2, RequestTyped DEF StoreKey, At, Created, ShapeInv, Shaped
  <2>2. OwnerOf(r) \in Tenants(web[r].agent)
    BY <2>1 DEF HolderInv, CreationsKnown, Tenants
  <2>3. keys' = keys \cup {[agent |-> web[r].agent, owner |-> OwnerOf(r), expires |-> web[r].stamp]}
    BY <1>2, <2>1 DEF StoreKey, SetKey, KeyOf, HolderInv, Waiting
  <2>4. \A k \in keys : k.agent # web[r].agent
    BY <2>1 DEF HolderInv, Waiting
  <2>5. KeyHasOneHolder'
    BY <1>0, <2>3, <2>4 DEF KeyHasOneHolder
  <2>6. \A k \in keys' : k.owner \in Tenants(k.agent)'
    BY <1>0, <2>1, <2>2, <2>3
  <2>7. QED
    BY <2>5, <2>6 DEF KeysHeld
<1>3. CASE PruneKey(r)
  BY <1>0, <1>3 DEF PruneKey, DeleteKey, KeysHeld, KeyHasOneHolder
<1>4. CASE SlideKey(r)
  <2>1. \A k \in keys' : \E l \in keys : k.agent = l.agent /\ k.owner = l.owner /\
                            (k = l \/ k = [l EXCEPT !.expires = web[r].stamp])
    BY <1>0, <1>4 DEF SlideKey, TouchKey, KeyOf, KeyRow
  <2>2. \A k \in keys' : k.owner \in Tenants(k.agent)'
    BY <1>0, <2>1
  <2>3. \A k \in keys : k \in KeyOf(web[r].agent, OwnerOf(r)) =>
          k \notin keys' \/ k = [k EXCEPT !.expires = web[r].stamp]
    BY <1>0, <1>4 DEF SlideKey, TouchKey, KeyOf, KeyHasOneHolder, KeyRow
  <2>4. KeyHasOneHolder'
    <3> SUFFICES ASSUME NEW k \in keys', NEW l \in keys', k.agent = l.agent PROVE k = l
      BY DEF KeyHasOneHolder
    <3>1. keys' = (keys \ KeyOf(web[r].agent, OwnerOf(r))) \cup
                    {[m EXCEPT !.expires = web[r].stamp] : m \in KeyOf(web[r].agent, OwnerOf(r))}
      BY <1>4 DEF SlideKey, TouchKey
    <3>2. PICK m \in keys : m.agent = k.agent /\ (k = m \/ k = [m EXCEPT !.expires = web[r].stamp])
      BY <2>1
    <3>3. l = m \/ l = [m EXCEPT !.expires = web[r].stamp]
      BY <1>0, <2>1, <3>2 DEF KeyHasOneHolder
    <3>4. CASE m \in KeyOf(web[r].agent, OwnerOf(r))
      BY <2>3, <3>2, <3>3, <3>4
    <3>5. CASE m \notin KeyOf(web[r].agent, OwnerOf(r))
      <4>1. \A n \in KeyOf(web[r].agent, OwnerOf(r)) : n.agent # m.agent
        BY <1>0, <3>5 DEF KeyOf, KeyHasOneHolder
      <4>2. \A n \in keys : [n EXCEPT !.expires = web[r].stamp].agent = n.agent
        BY <1>0 DEF KeyRow
      <4>3. ASSUME NEW x \in keys', x.agent = m.agent
            PROVE  x \in keys
        <5>1. x \in keys \/ \E n \in KeyOf(web[r].agent, OwnerOf(r)) : x = [n EXCEPT !.expires = web[r].stamp]
          BY <3>1
        <5>2. \A n \in KeyOf(web[r].agent, OwnerOf(r)) : [n EXCEPT !.expires = web[r].stamp].agent # m.agent
          BY <4>1, <4>2 DEF KeyOf
        <5>3. QED
          BY <4>3, <5>1, <5>2
      <4>4. QED
        BY <1>0, <3>2, <4>3 DEF KeyHasOneHolder
    <3>6. QED
      BY <3>4, <3>5
  <2>5. QED
    BY <2>2, <2>4 DEF KeysHeld
<1>5. ASSUME NEW q \in WebRequest, SignIn(r, q), ~ UNCHANGED keys
      PROVE  KeysHeld'
  <2>1. q.owner \in Guest /\ q.to \in Account
    BY <1>5, WebRequestAssumption DEF SignIn, WebRequestType
  <2>2. MoveKeys(q.owner, q.to) /\ <<q.owner, q.to>> \in merged' /\ creator' = creator
    BY <1>5 DEF SignIn, Merge
  <2> DEFINE Moved(k) == IF k.owner = q.owner THEN [k EXCEPT !.owner = q.to] ELSE k
  <2>3. keys' = {Moved(k) : k \in keys}
    BY <2>2 DEF MoveKeys
  <2>4. \A k \in keys : Moved(k).agent = k.agent /\ Moved(k).owner = IF k.owner = q.owner THEN q.to ELSE k.owner
    BY <1>0 DEF KeyRow
  <2>5. \A k \in keys : k.owner = q.owner => creator[k.agent] = q.owner
    BY <1>0, <2>1, GuestIsCreator
  <2> HIDE DEF Moved
  <2>6. KeyHasOneHolder'
    BY <1>0, <2>3, <2>4 DEF KeyHasOneHolder
  <2>7. \A k \in keys : Moved(k).owner \in Tenants(k.agent)'
    <3> SUFFICES ASSUME NEW k \in keys PROVE Moved(k).owner \in Tenants(k.agent)'
      OBVIOUS
    <3>1. CASE k.owner = q.owner
      BY <2>1, <2>2, <2>4, <2>5, <3>1 DEF Tenants, Owner
    <3>2. CASE k.owner # q.owner
      BY <1>0, <2>4, <3>2
    <3>3. QED
      BY <3>1, <3>2
  <2>8. QED
    BY <2>3, <2>4, <2>6, <2>7 DEF KeysHeld
<1>6. QED
  BY <1>1, <1>2, <1>3, <1>4, <1>5
     DEF Begin, CreateAgent, ChatStart, Continue, Abort, ReadKey, JudgeKey, FindSession, InsertSession,
         RereadSession, Run, AppendQuestion, AppendReply


(* Only a request that holds a key row of an agent reads past it, *)
LEMMA ReaderEffect ==
  ASSUME ShapeInv, NEW r \in Request, Begin(r) \/ Continue(r) \/ Abort(r), web'[r].pc \in PastKey
  PROVE  /\ web'[r].req = web[r].req /\ web'[r].agent = web[r].agent
         /\ web[r].pc \in PastKey \/ \E k \in keys : k.agent = web[r].agent /\ k.owner = OwnerOf(r)
<1>1. Continue(r) \/ Abort(r)
  BY BeginShape DEF PastKey
<1>2. web'[r].req = web[r].req /\ web'[r].agent = web[r].agent
  BY <1>1, ContinueShape
<1>3. CASE StoreKey(r) \/ Abort(r)
  BY <1>3, AnswerShape DEF StoreKey, Abort, At, PastKey
<1>4. CASE ReadKey(r)
  <2>1. ~ Answer(r, "MISSING_SESSION")
    BY <1>4, AnswerShape DEF ReadKey, At, PastKey
  <2>2. QED
    BY <1>2, <1>4, <2>1 DEF ReadKey, KeyOf
<1>5. CASE Continue(r) /\ ~ StoreKey(r) /\ ~ ReadKey(r)
  BY <1>2, <1>5
     DEF Continue, JudgeKey, PruneKey, SlideKey, FindSession, InsertSession, RereadSession, Run, AppendQuestion,
         AppendReply, At, PastKey
<1>6. QED
  BY <1>1, <1>3, <1>4, <1>5

(* and only the one that created it stores the first. *)
LEMMA KeyEffect ==
  ASSUME ShapeInv, NEW r \in Request, Begin(r) \/ Continue(r) \/ Abort(r), NEW k \in keys'
  PROVE  \/ \E l \in keys : l.agent = k.agent
         \/ web[r].pc = "custody" /\ web'[r].pc = "done" /\ k.agent = web[r].agent
<1>0. keys \subseteq KeyRow
  BY DEF ShapeInv, TypeOK, KeysTypeOK
<1>1. CASE UNCHANGED keys
  BY <1>1
<1>2. CASE StoreKey(r)
  <2>1. web[r].pc = "custody" /\ web'[r].pc = "done"
    BY <1>2, AnswerShape DEF StoreKey, At
  <2>2. QED
    BY <1>2, <2>1 DEF StoreKey, SetKey
<1>3. CASE PruneKey(r)
  BY <1>3 DEF PruneKey, DeleteKey
<1>4. CASE SlideKey(r)
  BY <1>0, <1>4 DEF SlideKey, TouchKey, KeyOf, KeyRow
<1>5. ASSUME NEW q \in WebRequest, SignIn(r, q), ~ UNCHANGED keys
      PROVE  \E l \in keys : l.agent = k.agent
  BY <1>0, <1>5 DEF SignIn, Merge, MoveKeys, KeyRow
<1>6. QED
  BY <1>1, <1>2, <1>3, <1>4, <1>5
     DEF Begin, CreateAgent, ChatStart, Continue, Abort, ReadKey, JudgeKey, FindSession, InsertSession,
         RereadSession, Run, AppendQuestion, AppendReply

LEMMA WaitingStays ==
  ASSUME ShapeInv, HolderInv, NEW r \in Request, Begin(r) \/ Continue(r) \/ Abort(r)
  PROVE  Waiting'
<1>0. /\ \A t \in Request \ {r} : web'[t] = web[t]
      /\ \A k \in keys : k.agent \in Agent /\ k.owner \in Tenants(k.agent)
  BY OthersRest DEF HolderInv, KeysHeld, ShapeInv, TypeOK, KeysTypeOK, KeyRow
<1> SUFFICES ASSUME NEW w \in Request, web'[w].pc = "custody"
             PROVE  /\ \A k \in keys' : k.agent # web'[w].agent
                    /\ \A t \in Request : web'[t].pc \in PastKey => web'[t].agent # web'[w].agent
  BY DEF Waiting
<1>1. CASE w = r
  <2>1. Begin(r) /\ web'[r].req.op = "create"
    BY <1>1, ContinueShape, BeginShape
  <2>2. PICK q \in WebRequest : CreateAgent(r, q)
    BY <1>1, <2>1, CustodyBegins
  <2>3. /\ web[r].pc = "idle" /\ web'[r].pc = "custody" /\ web'[r].agent \in Agent
        /\ creator[web'[r].agent] = NULL /\ keys' = keys
    BY <2>2, CreateAgentEffect
  <2>4. Tenants(web'[r].agent) = {}
    BY <2>3, NoTenants
  <2>5. \A k \in keys' : k.agent # web'[w].agent
    BY <1>0, <1>1, <2>3, <2>4
  <2>6. ASSUME NEW t \in Request, web'[t].pc \in PastKey PROVE web'[t].agent # web'[w].agent
    <3>1. t # r
      BY <2>3, <2>6 DEF PastKey
    <3>2. OwnerOf(t) \in Tenants(web[t].agent) /\ web'[t] = web[t]
      BY <1>0, <2>6, <3>1 DEF HolderInv, ReadersAreTenants
    <3>3. QED
      BY <1>1, <2>4, <3>2
  <2>7. QED
    BY <2>5, <2>6
<1>2. CASE w # r
  <2>1. /\ web'[w] = web[w] /\ web[w].pc = "custody" /\ Created(w)
    BY <1>0, <1>2 DEF Created, ShapeInv, Shaped
  <2>2. /\ \A k \in keys : k.agent # web[w].agent
        /\ \A t \in Request : web[t].pc \in PastKey => web[t].agent # web[w].agent
    BY <2>1 DEF HolderInv, Waiting
  <2>3. web[r].pc = "custody" => web[r].agent # web[w].agent
    BY <1>2, <2>1 DEF HolderInv, CreationsKnown, Created, ShapeInv, Shaped
  <2>4. \A k \in keys' : k.agent # web'[w].agent
    BY <2>1, <2>2, <2>3, KeyEffect
  <2>5. ASSUME NEW t \in Request, web'[t].pc \in PastKey PROVE web'[t].agent # web'[w].agent
    BY <1>0, <2>1, <2>2, <2>5, ReaderEffect
  <2>6. QED
    BY <2>4, <2>5
<1>3. QED
  BY <1>1, <1>2

LEMMA ReadersStayTenants ==
  ASSUME ShapeInv, HolderInv, NEW r \in Request, Begin(r) \/ Continue(r) \/ Abort(r)
  PROVE  ReadersAreTenants'
<1> SUFFICES ASSUME NEW t \in Request, (web[t].pc \in PastKey)'
             PROVE  (OwnerOf(t) \in Tenants(web[t].agent))'
  BY DEF ReadersAreTenants
<1>1. /\ web'[t].req = web[t].req /\ web'[t].agent = web[t].agent
      /\ web[t].pc \in PastKey \/ \E k \in keys : k.agent = web[t].agent /\ k.owner = OwnerOf(t)
  BY OthersRest, ReaderEffect
<1>2. OwnerOf(t) \in Tenants(web[t].agent) /\ web[t].agent \in Agent
  BY <1>1, RequestTyped
     DEF HolderInv, ReadersAreTenants, KeysHeld, ShapeInv, TypeOK, KeysTypeOK, KeyRow, PastKey
<1>3. \A a \in Agent : Tenants(a) \subseteq Tenants(a)'
  BY TenantsStay
<1>4. web[t].req.owner \in Owner /\ (web[t].req.owner = creator'[web[t].agent]
                                     \/ <<creator'[web[t].agent], web[t].req.owner>> \in merged')
  BY <1>2, <1>3 DEF Tenants, OwnerOf
<1>5. QED
  BY <1>1, <1>4 DEF Tenants, OwnerOf

LEMMA NextHolder == ShapeInv /\ HolderInv /\ [Next]_vars => HolderInv'
<1> SUFFICES ASSUME ShapeInv, HolderInv, [Next]_vars PROVE HolderInv'
  OBVIOUS
<1>1. ASSUME NEW r \in Request, Begin(r) \/ Continue(r) \/ Abort(r)
      PROVE  HolderInv'
  BY <1>1, CreationsStayKnown, KeysStayHeld, WaitingStays, ReadersStayTenants DEF HolderInv
<1>2. CASE UNCHANGED <<keys, creator, merged, web>>
  BY <1>2 DEF HolderInv, CreationsKnown, Created, KeysHeld, KeyHasOneHolder, Waiting, ReadersAreTenants, Tenants,
              OwnerOf
<1>3. QED
  BY <1>1, <1>2 DEF Next, Tick, records, vars

LEMMA HolderInvariant == Spec => [](ShapeInv /\ HolderInv)
<1>1. Init => HolderInv
  BY DEF Init, KeysInit, HolderInv, CreationsKnown, Created, KeysHeld, KeyHasOneHolder, Waiting,
         ReadersAreTenants, PastKey, IdleRequest
<1>2. QED
  BY <1>1, NextHolder, ShapeInvariant, PTL DEF Spec

(* At any moment one owner at most holds a key of an agent, in the guest's  *)
(* table or the account's, through merges that race chats and creates.      *)
THEOREM OneHolder == Spec => []KeyHasOneHolder
<1>1. HolderInv => KeyHasOneHolder
  BY DEF HolderInv, KeysHeld
<1>2. QED
  BY <1>1, HolderInvariant, PTL


----------------------------------------------------------------------------
(* Transcripts *)

(* The stages of a turn that may have inserted its session. *)
Late == {"reread", "run", "question", "reply", "done"}

(* A session belongs to a tenant, and to the one turn that inserted it. *)
ChatsOwned ==
  /\ \A c \in chats : c.owner \in Tenants(c.agent) /\ web[c.id].pc \in Late
  /\ \A c, d \in chats : c.id = d.id => c = d

(* A turn is signed for the agent it addressed, by a tenant, before it      *)
(* writes its question.                                                     *)
TurnsSigned ==
  /\ \A t \in attested : /\ web[t.turn].pc # "idle" /\ t.agent = web[t.turn].agent
                         /\ OwnerOf(t.turn) \in Tenants(t.agent)
  /\ \A r \in Request : web[r].pc \in {"question", "reply"} =>
       [turn |-> r, agent |-> web[r].agent] \in attested

(* A message is in a session of its turn's agent and owner, or of the       *)
(* account that owner merged into; a reply's turn is signed.                *)
MessagesPlaced ==
  \A m \in messages :
    /\ web[m.turn].pc # "idle" /\ SessionOf(m) # {}
    /\ \A c \in SessionOf(m) :
         /\ web[m.turn].agent = c.agent
         /\ OwnerOf(m.turn) = c.owner \/ <<OwnerOf(m.turn), c.owner>> \in merged
    /\ m.role = "assistant" => [turn |-> m.turn, agent |-> web[m.turn].agent] \in attested

TranscriptInv == ChatsOwned /\ TurnsSigned /\ MessagesPlaced

(* A request once begun keeps what it asks. *)
LEMMA RequestKept ==
  ASSUME ShapeInv, NEW r \in Request, Begin(r) \/ Continue(r) \/ Abort(r),
         NEW t \in Request, web[t].pc # "idle"
  PROVE  web'[t].pc # "idle" /\ web'[t].req = web[t].req /\ web'[t].agent = web[t].agent
  BY OthersRest, BeginShape, ContinueShape

LEMMA LateStays ==
  ASSUME ShapeInv, NEW r \in Request, Begin(r) \/ Continue(r) \/ Abort(r),
         NEW t \in Request, web[t].pc \in Late
  PROVE  web'[t].pc \in Late
<1>1. CASE t # r
  BY <1>1, OthersRest
<1>2. CASE t = r
  <2>1. web[r].pc # "idle" /\ ~ Begin(r)
    BY <1>2, BeginShape DEF Late
  <2>2. RereadSession(r) \/ Run(r) \/ AppendQuestion(r) \/ AppendReply(r) \/ Abort(r)
    BY <1>2, <2>1
       DEF Continue, StoreKey, ReadKey, JudgeKey, PruneKey, SlideKey, FindSession, InsertSession, At, Late
  <2>3. \/ \E code \in {"ok", "error", "MISSING_SESSION"} : Answer(r, code)
        \/ \E pc \in {"run", "question", "reply"} : Goto(r, pc) /\ web[r].pc \in PastKey
    BY <2>2 DEF RereadSession, Run, AppendQuestion, AppendReply, Abort, At, PastKey
  <2>4. QED
    BY <1>2, <2>1, <2>3, AnswerShape, GotoShape DEF PastKey, Late
<1>3. QED
  BY <1>1, <1>2

(* What happens to the sessions: nothing, an insert, or a merge. *)
LEMMA ChatsEffect ==
  ASSUME ShapeInv, NEW r \in Request, Begin(r) \/ Continue(r) \/ Abort(r)
  PROVE  \/ UNCHANGED chats
         \/ /\ web[r].pc = "insert" /\ web'[r].pc = "reread"
            /\ chats' = chats \cup {[id |-> r, agent |-> web[r].agent, owner |-> OwnerOf(r)]}
            /\ UNCHANGED <<messages, creator, merged>>
         \/ \E from \in Guest, to \in Account :
              /\ chats' = {IF c.owner = from THEN [c EXCEPT !.owner = to] ELSE c : c \in chats}
              /\ merged' = merged \cup {<<from, to>>}
              /\ UNCHANGED <<messages, creator>>
<1>1. CASE InsertSession(r)
  <2>1. web'[r].pc = "reread" /\ web[r].pc = "insert"
    BY <1>1, GotoShape DEF InsertSession, At, PastKey
  <2>2. QED
    BY <1>1, <2>1 DEF InsertSession
<1>2. ASSUME NEW q \in WebRequest, SignIn(r, q), ~ UNCHANGED chats
      PROVE  \E from \in Guest, to \in Account :
               /\ chats' = {IF c.owner = from THEN [c EXCEPT !.owner = to] ELSE c : c \in chats}
               /\ merged' = merged \cup {<<from, to>>}
               /\ UNCHANGED <<messages, creator>>
  <2>1. q.owner \in Guest /\ q.to \in Account
    BY <1>2, WebRequestAssumption DEF SignIn, WebRequestType
  <2>2. Merge(q.owner, q.to) /\ UNCHANGED <<messages, creator>>
    BY <1>2 DEF SignIn
  <2>3. QED
    BY <2>1, <2>2 DEF Merge
<1>3. QED
  BY <1>1, <1>2
     DEF Begin, CreateAgent, ChatStart, Continue, Abort, StoreKey, ReadKey, JudgeKey, PruneKey, SlideKey,
         FindSession, RereadSession, Run, AppendQuestion, AppendReply, records

LEMMA ChatsStayOwned ==
  ASSUME ShapeInv, HolderInv, TranscriptInv, NEW r \in Request, Begin(r) \/ Continue(r) \/ Abort(r)
  PROVE  ChatsOwned'
<1>0. /\ chats \subseteq ChatRow /\ merged \subseteq Guest \X Account
      /\ \A c \in chats : c.id \in Request /\ c.agent \in Agent /\ c.owner \in Tenants(c.agent)
      /\ \A c \in chats : web[c.id].pc \in Late
      /\ \A c, d \in chats : c.id = d.id => c = d
      /\ \A a \in Agent : Tenants(a) \subseteq Tenants(a)'
  BY TenantsStay DEF ShapeInv, TypeOK, TranscriptInv, ChatsOwned, ChatRow
<1>1. \A t \in Request : web[t].pc \in Late => web'[t].pc \in Late
  BY LateStays
<1>2. CASE UNCHANGED chats
  BY <1>0, <1>1, <1>2 DEF ChatsOwned
<1>3. CASE /\ web[r].pc = "insert" /\ web'[r].pc = "reread"
           /\ chats' = chats \cup {[id |-> r, agent |-> web[r].agent, owner |-> OwnerOf(r)]}
  <2>1. OwnerOf(r) \in Tenants(web[r].agent) /\ web[r].agent \in Agent
    BY <1>3, RequestTyped DEF HolderInv, ReadersAreTenants, PastKey
  <2>2. \A c \in chats : c.id # r
    BY <1>0, <1>3 DEF Late
  <2>3. \A c \in chats' : c.owner \in Tenants(c.agent)' /\ web'[c.id].pc \in Late
    BY <1>0, <1>1, <1>3, <2>1 DEF Late
  <2>4. \A c, d \in chats' : c.id = d.id => c = d
    BY <1>0, <1>3, <2>2
  <2>5. QED
    BY <2>3, <2>4 DEF ChatsOwned
<1>4. ASSUME NEW from \in Guest, NEW to \in Account,
             chats' = {IF c.owner = from THEN [c EXCEPT !.owner = to] ELSE c : c \in chats},
             merged' = merged \cup {<<from, to>>}, UNCHANGED creator
      PROVE  ChatsOwned'
  <2> DEFINE Moved(c) == IF c.owner = from THEN [c EXCEPT !.owner = to] ELSE c
  <2>1. chats' = {Moved(c) : c \in chats}
    BY <1>4
  <2>2. \A c \in chats : /\ Moved(c).id = c.id /\ Moved(c).agent = c.agent
                         /\ Moved(c).owner = IF c.owner = from THEN to ELSE c.owner
    BY <1>0 DEF ChatRow
  <2> HIDE DEF Moved
  <2>3. \A c \in chats : c.owner = from => creator[c.agent] = from
    BY <1>0, GuestIsCreator
  <2>4. \A c \in chats : Moved(c).owner \in Tenants(c.agent)'
    <3> SUFFICES ASSUME NEW c \in chats PROVE Moved(c).owner \in Tenants(c.agent)'
      OBVIOUS
    <3>1. CASE c.owner = from
      BY <1>4, <2>2, <2>3, <3>1 DEF Tenants, Owner
    <3>2. CASE c.owner # from
      BY <1>0, <2>2, <3>2
    <3>3. QED
      BY <3>1, <3>2
  <2>5. \A c \in chats' : c.owner \in Tenants(c.agent)' /\ web'[c.id].pc \in Late
    <3> SUFFICES ASSUME NEW c \in chats' PROVE c.owner \in Tenants(c.agent)' /\ web'[c.id].pc \in Late
      OBVIOUS
    <3>1. PICK d \in chats : c = Moved(d)
      BY <2>1
    <3>2. c.id = d.id /\ c.agent = d.agent
      BY <2>2, <3>1
    <3>3. c.owner \in Tenants(c.agent)'
      BY <2>4, <3>1, <3>2 DEF Tenants
    <3>4. QED
      BY <1>0, <1>1, <3>2, <3>3
  <2>6. \A c, d \in chats' : c.id = d.id => c = d
    BY <1>0, <2>1, <2>2
  <2>7. QED
    BY <2>5, <2>6 DEF ChatsOwned
<1>5. QED
  BY <1>2, <1>3, <1>4, ChatsEffect


(* A turn writes its question after its run was signed, and then its reply. *)
LEMMA SignedBefore ==
  ASSUME ShapeInv, NEW r \in Request, Begin(r) \/ Continue(r) \/ Abort(r), web'[r].pc \in {"question", "reply"}
  PROVE  Run(r) \/ web[r].pc = "question"
<1>0. TypeOK /\ web[r] \in RequestState
  BY DEF ShapeInv, TypeOK
<1>1. Continue(r) \/ Abort(r)
  BY BeginShape
<1>2. ASSUME NEW code \in {"ok", "error", "MISSING_SESSION"}, Answer(r, code), web[r].pc # "idle"
      PROVE  FALSE
  BY <1>2, AnswerShape
<1>3. ASSUME NEW pc \in {"prune", "session", "insert", "reread", "run"}, Goto(r, pc)
      PROVE  FALSE
  <2>1. [web[r] EXCEPT !.pc = pc].pc = pc
    BY <1>0 DEF RequestState
  <2>2. QED
    BY <1>0, <1>3, <2>1, StepIsOwn DEF Goto
<1>4. ~ StoreKey(r) /\ ~ PruneKey(r) /\ ~ AppendReply(r) /\ ~ Abort(r)
  BY <1>2 DEF StoreKey, PruneKey, AppendReply, Abort, At
<1>5. ~ SlideKey(r) /\ ~ FindSession(r) /\ ~ InsertSession(r) /\ ~ RereadSession(r)
  BY <1>2, <1>3 DEF SlideKey, FindSession, InsertSession, RereadSession, At
<1>6. ~ ReadKey(r)
  <2> SUFFICES ASSUME ReadKey(r) PROVE FALSE
    OBVIOUS
  <2>1. PICK k : Step(r, [web[r] EXCEPT !.pc = "judge", !.seen = k])
    BY <1>2 DEF ReadKey, At
  <2>2. [web[r] EXCEPT !.pc = "judge", !.seen = k].pc = "judge"
    BY <1>0 DEF RequestState
  <2>3. QED
    BY <1>0, <2>1, <2>2, StepIsOwn
<1>7. ~ JudgeKey(r)
  <2> SUFFICES ASSUME JudgeKey(r) PROVE FALSE
    OBVIOUS
  <2>1. Step(r, [web[r] EXCEPT !.pc = "touch", !.stamp = Slide(web[r].seen)])
    BY <1>3 DEF JudgeKey
  <2>2. [web[r] EXCEPT !.pc = "touch", !.stamp = Slide(web[r].seen)].pc = "touch"
    BY <1>0 DEF RequestState
  <2>3. QED
    BY <1>0, <2>1, <2>2, StepIsOwn
<1>8. AppendQuestion(r) => web[r].pc = "question"
  BY DEF AppendQuestion, At
<1>9. QED
  BY <1>1, <1>4, <1>5, <1>6, <1>7, <1>8 DEF Continue

LEMMA TurnsStaySigned ==
  ASSUME ShapeInv, HolderInv, TranscriptInv, NEW r \in Request, Begin(r) \/ Continue(r) \/ Abort(r)
  PROVE  TurnsSigned' /\ attested \subseteq attested'
<1>1. attested' = attested \/ (Run(r) /\ attested' = attested \cup {[turn |-> r, agent |-> web[r].agent]})
  BY DEF Begin, CreateAgent, ChatStart, SignIn, Continue, Abort, StoreKey, ReadKey, JudgeKey, PruneKey,
         SlideKey, FindSession, InsertSession, RereadSession, Run, AppendQuestion, AppendReply, records
<1>2. /\ \A t \in Request : web[t].pc # "idle" =>
           web'[t].pc # "idle" /\ web'[t].req = web[t].req /\ web'[t].agent = web[t].agent
      /\ \A a \in Agent : Tenants(a) \subseteq Tenants(a)'
  BY RequestKept, TenantsStay
<1>3. \A t \in attested : /\ t.turn \in Request /\ t.agent \in Agent /\ web[t.turn].pc # "idle"
                          /\ t.agent = web[t.turn].agent /\ web[t.turn].req.owner \in Tenants(t.agent)
  BY DEF TranscriptInv, TurnsSigned, ShapeInv, TypeOK, OwnerOf
<1>4. Run(r) => /\ web[r].pc # "idle" /\ web[r].agent \in Agent
                /\ web[r].req.owner \in Tenants(web[r].agent)
  BY RequestTyped DEF Run, At, PastKey, HolderInv, ReadersAreTenants, OwnerOf
<1>5. \A t \in attested' : /\ t.turn \in Request /\ t.agent \in Agent /\ web[t.turn].pc # "idle"
                           /\ t.agent = web[t.turn].agent /\ web[t.turn].req.owner \in Tenants(t.agent)
  BY <1>1, <1>3, <1>4
<1>6. ASSUME NEW t \in attested'
      PROVE  (web[t.turn].pc # "idle" /\ t.agent = web[t.turn].agent /\ OwnerOf(t.turn) \in Tenants(t.agent))'
  <2>1. web'[t.turn].pc # "idle" /\ web'[t.turn].req = web[t.turn].req /\ web'[t.turn].agent = web[t.turn].agent
    BY <1>2, <1>5
  <2>2. web[t.turn].req.owner \in Tenants(t.agent)'
    BY <1>2, <1>5
  <2>3. QED
    BY <1>5, <2>1, <2>2 DEF OwnerOf
<1>7. ASSUME NEW w \in Request, web'[w].pc \in {"question", "reply"}
      PROVE  [turn |-> w, agent |-> web'[w].agent] \in attested'
  <2>1. CASE w # r
    BY <1>1, <1>7, <2>1, OthersRest DEF TranscriptInv, TurnsSigned
  <2>2. CASE w = r /\ Run(r)
    <3>1. attested' = attested \cup {[turn |-> r, agent |-> web[r].agent]}
      BY <2>2 DEF Run
    <3>2. QED
      BY <1>2, <1>4, <2>2, <3>1
  <2>3. CASE w = r /\ web[r].pc = "question"
    BY <1>1, <1>2, <2>3 DEF TranscriptInv, TurnsSigned
  <2>4. QED
    BY <1>7, <2>1, <2>2, <2>3, SignedBefore
<1>8. QED
  BY <1>1, <1>6, <1>7 DEF TurnsSigned

(* A message is new only by an append, into the session of its own pair. *)
LEMMA MessagesEffect ==
  ASSUME ShapeInv, NEW r \in Request, Begin(r) \/ Continue(r) \/ Abort(r), NEW m \in messages', m \notin messages
  PROVE  /\ UNCHANGED <<chats, merged, attested>> /\ web[r].pc \in {"question", "reply"} /\ m.turn = r
         /\ m.role = "assistant" => web[r].pc = "reply"
         /\ \E c \in ChatOf(web[r].agent, OwnerOf(r)) : m.session = c.id
<1>1. AppendQuestion(r) \/ AppendReply(r)
  BY DEF Begin, CreateAgent, ChatStart, SignIn, Continue, Abort, StoreKey, ReadKey, JudgeKey, PruneKey,
         SlideKey, FindSession, InsertSession, RereadSession, Run, records
<1>2. CASE AppendQuestion(r)
  <2>1. PICK c \in ChatOf(web[r].agent, OwnerOf(r)) : m = [turn |-> r, role |-> "user", session |-> c.id]
    BY <1>2 DEF AppendQuestion, AppendMessage
  <2>2. QED
    BY <1>2, <2>1 DEF AppendQuestion, At
<1>3. CASE AppendReply(r)
  <2>1. PICK c \in ChatOf(web[r].agent, OwnerOf(r)) : m = [turn |-> r, role |-> "assistant", session |-> c.id]
    BY <1>3 DEF AppendReply, AppendMessage
  <2>2. QED
    BY <1>3, <2>1 DEF AppendReply, At
<1>4. QED
  BY <1>1, <1>2, <1>3


(* Whatever happens to the sessions, a message stays in the session it has, *)
(* and that session passes at most to an account its owner merged into.     *)
LEMMA SessionKept ==
  ASSUME ShapeInv, TranscriptInv, NEW r \in Request, Begin(r) \/ Continue(r) \/ Abort(r), NEW m \in messages
  PROVE  /\ \E c \in chats' : c.id = m.session
         /\ \A d \in chats' : d.id = m.session =>
              \E c \in SessionOf(m) : /\ d.agent = c.agent
                                      /\ d.owner = c.owner \/ (c.owner \in Guest /\ <<c.owner, d.owner>> \in merged')
<1>0. /\ chats \subseteq ChatRow /\ \A c \in chats : web[c.id].pc \in Late
      /\ SessionOf(m) # {} /\ SessionOf(m) = {c \in chats : c.id = m.session}
  BY DEF ShapeInv, TypeOK, TranscriptInv, ChatsOwned, MessagesPlaced, SessionOf
<1>1. CASE UNCHANGED chats
  BY <1>0, <1>1
<1>2. CASE /\ web[r].pc = "insert"
           /\ chats' = chats \cup {[id |-> r, agent |-> web[r].agent, owner |-> OwnerOf(r)]}
  <2>1. m.session # r
    BY <1>0, <1>2 DEF Late
  <2>2. {c \in chats' : c.id = m.session} = {c \in chats : c.id = m.session}
    BY <1>2, <2>1
  <2>3. QED
    BY <1>0, <2>2
<1>3. ASSUME NEW from \in Guest, NEW to \in Account,
             chats' = {IF c.owner = from THEN [c EXCEPT !.owner = to] ELSE c : c \in chats},
             merged' = merged \cup {<<from, to>>}
      PROVE  /\ \E c \in chats' : c.id = m.session
             /\ \A d \in chats' : d.id = m.session =>
                  \E c \in SessionOf(m) : /\ d.agent = c.agent
                                          /\ d.owner = c.owner \/ (c.owner \in Guest /\ <<c.owner, d.owner>> \in merged')
  <2> DEFINE Moved(c) == IF c.owner = from THEN [c EXCEPT !.owner = to] ELSE c
  <2>1. chats' = {Moved(c) : c \in chats}
    BY <1>3
  <2>2. \A c \in chats : /\ Moved(c).id = c.id /\ Moved(c).agent = c.agent
                         /\ Moved(c).owner = IF c.owner = from THEN to ELSE c.owner
    BY <1>0 DEF ChatRow
  <2> HIDE DEF Moved
  <2>3. \E c \in chats' : c.id = m.session
    BY <1>0, <2>1, <2>2
  <2>4. ASSUME NEW d \in chats', d.id = m.session
        PROVE  \E c \in SessionOf(m) : /\ d.agent = c.agent
                                       /\ d.owner = c.owner \/ (c.owner \in Guest /\ <<c.owner, d.owner>> \in merged')
    <3>1. PICK c \in chats : d = Moved(c)
      BY <2>1
    <3>2. /\ c \in SessionOf(m) /\ d.agent = c.agent
          /\ d.owner = IF c.owner = from THEN to ELSE c.owner
      BY <1>0, <2>2, <2>4, <3>1
    <3>3. d.owner = c.owner \/ (c.owner \in Guest /\ <<c.owner, d.owner>> \in merged')
      BY <1>3, <3>2
    <3>4. QED
      BY <3>2, <3>3
  <2>5. QED
    BY <2>3, <2>4
<1>4. QED
  BY <1>1, <1>2, <1>3, ChatsEffect

LEMMA MessagesStayPlaced ==
  ASSUME ShapeInv, TranscriptInv, TurnsSigned', attested \subseteq attested',
         NEW r \in Request, Begin(r) \/ Continue(r) \/ Abort(r)
  PROVE  MessagesPlaced'
<1>0. /\ messages \subseteq MessageRow /\ merged \subseteq Guest \X Account
      /\ \A c, d \in chats : c.id = d.id => c = d
      /\ \A t \in Request : web[t].pc # "idle" =>
           web'[t].pc # "idle" /\ web'[t].req = web[t].req /\ web'[t].agent = web[t].agent
  BY RequestKept DEF ShapeInv, TypeOK, TranscriptInv, ChatsOwned
<1>g. merged \subseteq merged'
  BY DEF Begin, CreateAgent, ChatStart, SignIn, Merge, Continue, Abort, StoreKey, ReadKey, JudgeKey, PruneKey,
         SlideKey, FindSession, InsertSession, RereadSession, Run, AppendQuestion, AppendReply, records
<1> SUFFICES ASSUME NEW m \in messages'
             PROVE  /\ web'[m.turn].pc # "idle" /\ \E c \in chats' : c.id = m.session
                    /\ \A d \in chats' : d.id = m.session =>
                         /\ web'[m.turn].agent = d.agent
                         /\ web'[m.turn].req.owner = d.owner \/ <<web'[m.turn].req.owner, d.owner>> \in merged'
                    /\ m.role = "assistant" => [turn |-> m.turn, agent |-> web'[m.turn].agent] \in attested'
  BY DEF MessagesPlaced, SessionOf, OwnerOf
<1>1. CASE m \in messages
  <2>1. /\ web[m.turn].pc # "idle" /\ m.turn \in Request
        /\ \A c \in SessionOf(m) : /\ web[m.turn].agent = c.agent
                                   /\ web[m.turn].req.owner = c.owner \/ <<web[m.turn].req.owner, c.owner>> \in merged
        /\ m.role = "assistant" => [turn |-> m.turn, agent |-> web[m.turn].agent] \in attested
    BY <1>0, <1>1 DEF TranscriptInv, MessagesPlaced, MessageRow, OwnerOf
  <2>2. /\ web'[m.turn].pc # "idle" /\ web'[m.turn].req = web[m.turn].req
        /\ web'[m.turn].agent = web[m.turn].agent
    BY <1>0, <2>1
  <2>3. /\ \E c \in chats' : c.id = m.session
        /\ \A d \in chats' : d.id = m.session =>
             \E c \in SessionOf(m) : /\ d.agent = c.agent
                                     /\ d.owner = c.owner \/ (c.owner \in Guest /\ <<c.owner, d.owner>> \in merged')
    BY <1>1, SessionKept
  <2>4. ASSUME NEW d \in chats', d.id = m.session
        PROVE  /\ web[m.turn].agent = d.agent
               /\ web[m.turn].req.owner = d.owner \/ <<web[m.turn].req.owner, d.owner>> \in merged'
    <3>1. PICK c \in SessionOf(m) : /\ d.agent = c.agent
                                    /\ d.owner = c.owner \/ (c.owner \in Guest /\ <<c.owner, d.owner>> \in merged')
      BY <2>3, <2>4
    <3>2. <<web[m.turn].req.owner, c.owner>> \in merged => c.owner \notin Guest
      BY <1>0, OwnerAssumption
    <3>3. QED
      BY <1>g, <2>1, <3>1, <3>2
  <2>5. QED
    BY <2>1, <2>2, <2>3, <2>4
<1>2. CASE m \notin messages
  <2>1. /\ chats' = chats /\ web[r].pc \in {"question", "reply"} /\ m.turn = r
        /\ \E c \in ChatOf(web[r].agent, OwnerOf(r)) : m.session = c.id
    BY <1>2, MessagesEffect
  <2>2. PICK c \in chats : c.agent = web[r].agent /\ c.owner = web[r].req.owner /\ m.session = c.id
    BY <2>1 DEF ChatOf, OwnerOf
  <2>3. /\ web'[r].pc # "idle" /\ web'[r].req = web[r].req /\ web'[r].agent = web[r].agent
    BY <1>0, <2>1
  <2>4. [turn |-> r, agent |-> web[r].agent] \in attested'
    BY <2>1 DEF TranscriptInv, TurnsSigned
  <2>5. \A d \in chats' : d.id = m.session => d = c
    BY <1>0, <2>1, <2>2
  <2>6. QED
    BY <2>1, <2>2, <2>3, <2>4, <2>5
<1>3. QED
  BY <1>1, <1>2

LEMMA NextTranscript == ShapeInv /\ HolderInv /\ TranscriptInv /\ [Next]_vars => TranscriptInv'
<1> SUFFICES ASSUME ShapeInv, HolderInv, TranscriptInv, [Next]_vars PROVE TranscriptInv'
  OBVIOUS
<1>1. ASSUME NEW r \in Request, Begin(r) \/ Continue(r) \/ Abort(r)
      PROVE  TranscriptInv'
  BY <1>1, ChatsStayOwned, TurnsStaySigned, MessagesStayPlaced DEF TranscriptInv
<1>2. CASE UNCHANGED <<records, web>>
  BY <1>2 DEF TranscriptInv, ChatsOwned, TurnsSigned, MessagesPlaced, records, Tenants, SessionOf, OwnerOf
<1>3. QED
  BY <1>1, <1>2 DEF Next, records, vars

LEMMA TranscriptInvariant == Spec => [](ShapeInv /\ HolderInv /\ TranscriptInv)
<1>1. Init => TranscriptInv
  BY DEF Init, TranscriptInv, ChatsOwned, TurnsSigned, MessagesPlaced, IdleRequest
<1>2. QED
  BY <1>1, NextTranscript, HolderInvariant, PTL DEF Spec

(* Keys, conversations, signed turns and messages of an agent stay with its *)
(* creator and the accounts the creator merged into, whichever requests and *)
(* merges interleave.                                                       *)
THEOREM TenantsIsolated == Spec => []TenantIsolation
<1>1. HolderInv /\ TranscriptInv => TenantIsolation
  BY DEF HolderInv, KeysHeld, TranscriptInv, ChatsOwned, TurnsSigned, MessagesPlaced, TenantIsolation, SessionOf
<1>2. QED
  BY <1>1, TranscriptInvariant, PTL

(* A reply a user sees in a transcript was signed for that agent before.    *)
THEOREM TranscriptsAttested == Spec => []RepliesAttested
<1>1. TranscriptInv => RepliesAttested
  BY DEF TranscriptInv, MessagesPlaced, RepliesAttested
<1>2. QED
  BY <1>1, TranscriptInvariant, PTL


----------------------------------------------------------------------------
(* Keys until their first window ends *)

(* The key an agent was reported created with: no row of it ends earlier,   *)
(* no chat holds an older read or a smaller stamp, none prunes in time.     *)
Kept(r) ==
  /\ \A k \in keys : k.agent = web[r].agent => web[r].stamp <= k.expires
  /\ now < web[r].stamp => \E k \in keys : k.agent = web[r].agent
  /\ \A t \in Request : web[t].agent = web[r].agent =>
       /\ web[t].pc \in {"judge", "prune"} => web[r].stamp <= web[t].seen.expires
       /\ web[t].pc = "touch" => web[r].stamp <= web[t].stamp
       /\ web[t].pc = "prune" => web[r].stamp <= now

UsableInv ==
  \A r \in Request : Created(r) =>
    /\ web[r].stamp <= now + Window
    /\ web[r].result = "ok" => Kept(r)

(* A creation has its stamp from the start, and is reported only with its   *)
(* key stored.                                                              *)
LEMMA CreationEffect ==
  ASSUME ShapeInv, NEW r \in Request, Begin(r) \/ Continue(r) \/ Abort(r), NEW w \in Request, Created(w)'
  PROVE  \/ w = r /\ web'[r].stamp = now + Window /\ web'[r].result = "none"
         \/ /\ Created(w) /\ web'[w].agent = web[w].agent /\ web'[w].stamp = web[w].stamp
            /\ web'[w].result = "ok" => web[w].result = "ok" \/ (w = r /\ StoreKey(r))
<1>1. CASE w # r
  BY <1>1, OthersRest DEF Created
<1>2. CASE w = r /\ Begin(r)
  <2>1. web'[r].pc = "custody"
    BY <1>2, BeginShape DEF Created
  <2>2. PICK q \in WebRequest : CreateAgent(r, q)
    BY <1>2, <2>1, CustodyBegins
  <2>3. QED
    BY <1>2, <2>2, CreateAgentEffect
<1>3. CASE w = r /\ (Continue(r) \/ Abort(r))
  <2>1. /\ Created(r) /\ web'[r].agent = web[r].agent
    BY <1>3, ContinueShape DEF Created
  <2>2. web[r].pc \notin PastKey \cup {"key"} /\ web[r].pc # "idle"
    BY <2>1 DEF Created, ShapeInv, Shaped
  <2>3. StoreKey(r) \/ Abort(r)
    BY <1>3, <2>2
       DEF Continue, ReadKey, JudgeKey, PruneKey, SlideKey, FindSession, InsertSession, RereadSession, Run,
           AppendQuestion, AppendReply, At, PastKey
  <2>4. /\ web'[r].stamp = web[r].stamp
        /\ Abort(r) => web'[r].result = "error"
    BY <2>2, <2>3, AnswerShape DEF StoreKey, Abort
  <2>5. QED
    BY <1>3, <2>1, <2>3, <2>4
<1>4. QED
  BY <1>1, <1>2, <1>3

(* A chat judges a row of its agent, prunes it if it has expired, and       *)
(* otherwise moves it to a window from then.                                *)
LEMMA JudgedBefore ==
  ASSUME ShapeInv, NEW r \in Request, Begin(r) \/ Continue(r) \/ Abort(r)
  PROVE  /\ web'[r].pc = "judge" => web'[r].seen \in keys /\ web'[r].seen.agent = web[r].agent
         /\ web'[r].pc = "prune" => /\ web[r].pc = "judge" /\ Expired(web[r].seen)
                                    /\ web'[r].seen = web[r].seen
         /\ web'[r].pc = "touch" => web[r].pc = "judge" /\ web'[r].stamp = now + Window
<1> DEFINE Goal ==
         /\ web'[r].pc = "judge" => web'[r].seen \in keys /\ web'[r].seen.agent = web[r].agent
         /\ web'[r].pc = "prune" => /\ web[r].pc = "judge" /\ Expired(web[r].seen)
                                    /\ web'[r].seen = web[r].seen
         /\ web'[r].pc = "touch" => web[r].pc = "judge" /\ web'[r].stamp = now + Window
<1>0. TypeOK /\ web[r] \in RequestState
  BY DEF ShapeInv, TypeOK
<1>1. CASE Begin(r)
  BY <1>1, BeginShape
<1>2. ASSUME NEW code \in {"ok", "error", "MISSING_SESSION"}, Answer(r, code), web[r].pc # "idle"
      PROVE  Goal
  BY <1>2, AnswerShape
<1>3. ASSUME NEW pc \in {"prune", "session", "insert", "reread", "run", "question", "reply"}, Goto(r, pc)
      PROVE  web'[r].pc = pc /\ web'[r].seen = web[r].seen
  <2>1. [web[r] EXCEPT !.pc = pc].pc = pc /\ [web[r] EXCEPT !.pc = pc].seen = web[r].seen
    BY <1>0 DEF RequestState
  <2>2. QED
    BY <1>0, <1>3, <2>1, StepIsOwn DEF Goto
<1>4. CASE StoreKey(r) \/ PruneKey(r) \/ AppendReply(r) \/ Abort(r)
  BY <1>2, <1>4 DEF StoreKey, PruneKey, AppendReply, Abort, At
<1>5. CASE SlideKey(r) \/ FindSession(r) \/ InsertSession(r)
  BY <1>3, <1>5 DEF SlideKey, FindSession, InsertSession
<1>6. CASE RereadSession(r) \/ Run(r) \/ AppendQuestion(r)
  BY <1>2, <1>3, <1>6 DEF RereadSession, Run, AppendQuestion, At
<1>7. CASE ReadKey(r)
  <2>1. CASE Answer(r, "MISSING_SESSION")
    BY <1>2, <1>7, <2>1 DEF ReadKey, At
  <2>2. CASE \E k \in KeyOf(web[r].agent, OwnerOf(r)) : Step(r, [web[r] EXCEPT !.pc = "judge", !.seen = k])
    <3>1. PICK k \in KeyOf(web[r].agent, OwnerOf(r)) : Step(r, [web[r] EXCEPT !.pc = "judge", !.seen = k])
      BY <2>2
    <3> DEFINE s == [web[r] EXCEPT !.pc = "judge", !.seen = k]
    <3>2. s.pc = "judge" /\ s.seen = k
      BY <1>0 DEF RequestState
    <3> HIDE DEF s
    <3>3. web'[r] = s
      BY <1>0, <3>1, StepIsOwn DEF s
    <3>4. QED
      BY <3>1, <3>2, <3>3 DEF KeyOf
  <2>3. QED
    BY <1>7, <2>1, <2>2 DEF ReadKey
<1>8. CASE JudgeKey(r)
  <2>1. CASE Goto(r, "prune") /\ Expired(web[r].seen)
    BY <1>3, <1>8, <2>1 DEF JudgeKey, At
  <2>2. CASE Step(r, [web[r] EXCEPT !.pc = "touch", !.stamp = Slide(web[r].seen)])
    <3> DEFINE s == [web[r] EXCEPT !.pc = "touch", !.stamp = Slide(web[r].seen)]
    <3>1. s.pc = "touch" /\ s.stamp = now + Window
      BY <1>0 DEF RequestState, Slide
    <3> HIDE DEF s
    <3>2. web'[r] = s
      BY <1>0, <2>2, StepIsOwn DEF s
    <3>3. QED
      BY <1>8, <3>1, <3>2 DEF JudgeKey, At
  <2>3. QED
    BY <1>8, <2>1, <2>2 DEF JudgeKey
<1>9. QED
  BY <1>1, <1>4, <1>5, <1>6, <1>7, <1>8 DEF Continue


(* Rows keep their expiry but for the stamp of a store or a touch, and are  *)
(* gone only by a prune.                                                    *)
LEMMA RowsEffect ==
  ASSUME ShapeInv, NEW r \in Request, Begin(r) \/ Continue(r) \/ Abort(r)
  PROVE  /\ now' = now
         /\ \A k \in keys' :
              \/ \E l \in keys : l.agent = k.agent /\ l.expires = k.expires
              \/ web[r].pc \in {"custody", "touch"} /\ k.agent = web[r].agent /\ k.expires = web[r].stamp
         /\ \A l \in keys : (\E k \in keys' : k.agent = l.agent)
                              \/ (web[r].pc = "prune" /\ l.agent = web[r].agent)
<1> DEFINE Goal ==
         /\ now' = now
         /\ \A k \in keys' :
              \/ \E l \in keys : l.agent = k.agent /\ l.expires = k.expires
              \/ web[r].pc \in {"custody", "touch"} /\ k.agent = web[r].agent /\ k.expires = web[r].stamp
         /\ \A l \in keys : (\E k \in keys' : k.agent = l.agent)
                              \/ (web[r].pc = "prune" /\ l.agent = web[r].agent)
<1>0. keys \subseteq KeyRow
  BY DEF ShapeInv, TypeOK, KeysTypeOK
<1>1. CASE UNCHANGED <<now, keys>>
  BY <1>1
<1>2. CASE StoreKey(r)
  <2>1. /\ now' = now /\ web[r].pc = "custody"
        /\ keys' = (keys \ KeyOf(web[r].agent, OwnerOf(r)))
                     \cup {[agent |-> web[r].agent, owner |-> OwnerOf(r), expires |-> web[r].stamp]}
    BY <1>2 DEF StoreKey, SetKey, At
  <2>2. \A k \in keys' : k \in keys \/ (k.agent = web[r].agent /\ k.expires = web[r].stamp)
    BY <2>1
  <2>3. \E k \in keys' : k.agent = web[r].agent
    <3> DEFINE k == [agent |-> web[r].agent, owner |-> OwnerOf(r), expires |-> web[r].stamp]
    <3>1. k \in keys' /\ k.agent = web[r].agent
      BY <2>1
    <3> HIDE DEF k
    <3>2. QED
      BY <3>1
  <2>4. \A l \in keys : l \in keys' \/ l.agent = web[r].agent
    BY <2>1 DEF KeyOf
  <2>5. QED
    BY <2>1, <2>2, <2>3, <2>4
<1>3. CASE PruneKey(r)
  <2>1. now' = now /\ web[r].pc = "prune" /\ keys' = keys \ KeyOf(web[r].agent, OwnerOf(r))
    BY <1>3 DEF PruneKey, DeleteKey, At
  <2>2. QED
    BY <2>1 DEF KeyOf
<1>4. CASE SlideKey(r)
  <2> DEFINE Touched(k) == [k EXCEPT !.expires = web[r].stamp]
  <2>1. /\ now' = now /\ web[r].pc = "touch"
        /\ keys' = (keys \ KeyOf(web[r].agent, OwnerOf(r))) \cup {Touched(k) : k \in KeyOf(web[r].agent, OwnerOf(r))}
    BY <1>4 DEF SlideKey, TouchKey, At
  <2>2. \A k \in keys : Touched(k).agent = k.agent /\ Touched(k).expires = web[r].stamp
    BY <1>0 DEF KeyRow
  <2> HIDE DEF Touched
  <2>3. \A k \in keys' : k \in keys \/ \E l \in KeyOf(web[r].agent, OwnerOf(r)) : k = Touched(l)
    BY <2>1
  <2>4. \A l \in keys : l \in keys' \/ (l \in KeyOf(web[r].agent, OwnerOf(r)) /\ Touched(l) \in keys')
    BY <2>1
  <2>5. \A k \in keys' : k \in keys \/ (k.agent = web[r].agent /\ k.expires = web[r].stamp)
    BY <2>2, <2>3 DEF KeyOf
  <2>6. \A l \in keys : \E k \in keys' : k.agent = l.agent
    BY <2>2, <2>4
  <2>7. QED
    BY <2>1, <2>5, <2>6
<1>5. ASSUME NEW q \in WebRequest, SignIn(r, q), ~ UNCHANGED keys
      PROVE  Goal
  <2> DEFINE Moved(k) == IF k.owner = q.owner THEN [k EXCEPT !.owner = q.to] ELSE k
  <2>1. now' = now /\ keys' = {Moved(k) : k \in keys}
    BY <1>5 DEF SignIn, Merge, MoveKeys
  <2>2. \A k \in keys : Moved(k).agent = k.agent /\ Moved(k).expires = k.expires
    BY <1>0 DEF KeyRow
  <2> HIDE DEF Moved
  <2>3. QED
    BY <2>1, <2>2
<1>6. ASSUME NEW q \in WebRequest, SignIn(r, q)
      PROVE  now' = now
  BY <1>6 DEF SignIn
<1>7. QED
  BY <1>1, <1>2, <1>3, <1>4, <1>5, <1>6
     DEF Begin, CreateAgent, ChatStart, Continue, Abort, ReadKey, JudgeKey, FindSession, InsertSession,
         RereadSession, Run, AppendQuestion, AppendReply

LEMMA StoreKeeps ==
  ASSUME ShapeInv, HolderInv, NEW r \in Request, StoreKey(r)
  PROVE  Kept(r)'
<1>1. /\ web[r].pc = "custody" /\ web'[r].pc = "done" /\ now' = now
      /\ web'[r].agent = web[r].agent /\ web'[r].stamp = web[r].stamp
  BY AnswerShape DEF StoreKey, At
<1>2. /\ \A k \in keys : k.agent # web[r].agent
      /\ \A t \in Request : web[t].pc \in PastKey => web[t].agent # web[r].agent
  BY <1>1 DEF HolderInv, Waiting
<1>3. keys' = keys \cup {[agent |-> web[r].agent, owner |-> OwnerOf(r), expires |-> web[r].stamp]}
  BY <1>2 DEF StoreKey, SetKey, KeyOf
<1>4. web[r].stamp \in Nat
  BY <1>1, RequestTyped
<1>5. \A t \in Request : web'[t].agent = web'[r].agent => web'[t].pc \notin {"judge", "prune", "touch"}
  <2>1. \A t \in Request \ {r} : web'[t] = web[t]
    BY OthersRest DEF Continue
  <2>2. QED
    BY <1>1, <1>2, <2>1 DEF PastKey
<1>6. (\A k \in keys : k.agent = web[r].agent => web[r].stamp <= k.expires)'
  <2>1. \A k \in keys' : k.agent = web[r].agent => k.expires = web[r].stamp
    BY <1>2, <1>3
  <2>2. web[r].stamp <= web[r].stamp
    BY <1>4
  <2>3. QED
    BY <1>1, <2>1, <2>2
<1>7. (\E k \in keys : k.agent = web[r].agent)'
  <2> DEFINE k == [agent |-> web[r].agent, owner |-> OwnerOf(r), expires |-> web[r].stamp]
  <2>1. k \in keys' /\ k.agent = web'[r].agent
    BY <1>1, <1>3
  <2> HIDE DEF k
  <2>2. QED
    BY <2>1
<1>8. QED
  BY <1>5, <1>6, <1>7 DEF Kept

LEMMA KeptStays ==
  ASSUME ShapeInv, HolderInv, UsableInv, NEW r \in Request, Begin(r) \/ Continue(r) \/ Abort(r),
         NEW w \in Request, Created(w), web[w].result = "ok",
         web'[w].agent = web[w].agent, web'[w].stamp = web[w].stamp
  PROVE  Kept(w)'
<1> DEFINE a == web[w].agent
           e == web[w].stamp
<1>0. /\ e \in Nat /\ now \in Nat /\ web[w].pc = "done" /\ e <= now + Window /\ Window \in Nat
      /\ keys \subseteq KeyRow
  <2>1. web[w].pc = "done" /\ e <= now + Window
    BY DEF Created, ShapeInv, Shaped, UsableInv
  <2>2. now \in Nat /\ Window \in Nat /\ keys \subseteq KeyRow
    BY WindowAssumption DEF ShapeInv, TypeOK, KeysTypeOK
  <2>3. e \in Nat
    BY RequestTyped DEF Created
  <2>4. QED
    BY <2>1, <2>2, <2>3
<1>1. /\ \A k \in keys : k.agent = a => e <= k.expires
      /\ now < e => \E k \in keys : k.agent = a
      /\ \A t \in Request : web[t].agent = a =>
           /\ web[t].pc \in {"judge", "prune"} => e <= web[t].seen.expires
           /\ web[t].pc = "touch" => e <= web[t].stamp
           /\ web[t].pc = "prune" => e <= now
  BY DEF UsableInv, Kept
<1>2. /\ now' = now
      /\ \A k \in keys' :
           \/ \E l \in keys : l.agent = k.agent /\ l.expires = k.expires
           \/ web[r].pc \in {"custody", "touch"} /\ k.agent = web[r].agent /\ k.expires = web[r].stamp
      /\ \A l \in keys : (\E k \in keys' : k.agent = l.agent)
                           \/ (web[r].pc = "prune" /\ l.agent = web[r].agent)
  BY RowsEffect
<1>3. web[r].pc = "custody" => web[r].agent # a
  BY <1>0 DEF HolderInv, CreationsKnown, Created, ShapeInv, Shaped
<1>4. \A k \in keys' : k.agent = a => e <= k.expires
  BY <1>1, <1>2, <1>3
<1>5. now' < e => \E k \in keys' : k.agent = a
  <2> SUFFICES ASSUME now < e PROVE \E k \in keys' : k.agent = a
    BY <1>2
  <2>1. PICK l \in keys : l.agent = a
    BY <1>1
  <2>2. ~ (web[r].pc = "prune" /\ web[r].agent = a)
    BY <1>0, <1>1
  <2>3. QED
    BY <1>2, <2>1, <2>2
<1>6. ASSUME NEW t \in Request, web'[t].agent = a
      PROVE  /\ web'[t].pc \in {"judge", "prune"} => e <= web'[t].seen.expires
             /\ web'[t].pc = "touch" => e <= web'[t].stamp
             /\ web'[t].pc = "prune" => e <= now'
  <2>1. CASE t # r
    BY <1>1, <1>2, <1>6, <2>1, OthersRest
  <2>2. CASE t = r /\ web'[r].pc \in {"judge", "prune", "touch"}
    <3>1. web[r].agent = a
      BY <1>6, <2>2, ReaderEffect DEF PastKey
    <3>2. CASE web'[r].pc = "judge"
      BY <1>1, <2>2, <3>1, <3>2, JudgedBefore
    <3>3. CASE web'[r].pc = "prune"
      <4>1. web[r].pc = "judge" /\ Expired(web[r].seen) /\ web'[r].seen = web[r].seen
        BY <3>3, JudgedBefore
      <4>2. e <= web[r].seen.expires /\ web[r].seen.expires <= now /\ web[r].seen.expires \in Nat
        BY <1>1, <3>1, <4>1 DEF Expired, ShapeInv, Shaped, KeyRow
      <4>3. e <= now
        BY <1>0, <4>2
      <4>4. QED
        BY <1>2, <2>2, <3>3, <4>1, <4>2, <4>3
    <3>4. CASE web'[r].pc = "touch"
      BY <1>0, <2>2, <3>4, JudgedBefore
    <3>5. QED
      BY <2>2, <3>2, <3>3, <3>4
  <2>3. QED
    BY <2>1, <2>2
<1>7. QED
  BY <1>4, <1>5, <1>6 DEF Kept

LEMMA NextUsable == ShapeInv /\ HolderInv /\ UsableInv /\ [Next]_vars => UsableInv'
<1> SUFFICES ASSUME ShapeInv, HolderInv, UsableInv, [Next]_vars PROVE UsableInv'
  OBVIOUS
<1>0. /\ now \in Nat /\ Window \in Nat /\ \A r \in Request : web[r].stamp \in Nat
  BY WindowAssumption DEF ShapeInv, TypeOK, KeysTypeOK, RequestState
<1>1. ASSUME NEW r \in Request, Begin(r) \/ Continue(r) \/ Abort(r), NEW w \in Request, Created(w)'
      PROVE  /\ web'[w].stamp <= now' + Window
             /\ web'[w].result = "ok" => Kept(w)'
  <2>1. now' = now
    BY <1>1, RowsEffect
  <2>2. CASE w = r /\ web'[r].stamp = now + Window /\ web'[r].result = "none"
    BY <1>0, <2>1, <2>2
  <2>3. CASE /\ Created(w) /\ web'[w].agent = web[w].agent /\ web'[w].stamp = web[w].stamp
             /\ web'[w].result = "ok" => web[w].result = "ok" \/ (w = r /\ StoreKey(r))
    <3>1. web'[w].stamp <= now' + Window
      BY <2>1, <2>3 DEF UsableInv
    <3>2. web'[w].result = "ok" => Kept(w)'
      BY <1>1, <2>3, KeptStays, StoreKeeps
    <3>3. QED
      BY <3>1, <3>2
  <2>4. QED
    BY <1>1, <2>2, <2>3, CreationEffect
<1>2. CASE Tick /\ UNCHANGED <<records, web>>
  <2>1. now' = now + 1 /\ keys' = keys /\ web' = web
    BY <1>2 DEF Tick
  <2>2. \A r \in Request : web[r].stamp <= now + Window => web[r].stamp <= now' + Window
    BY <1>0, <2>1
  <2>3. ASSUME NEW r \in Request, Kept(r)
        PROVE  Kept(r)'
    <3>1. /\ now' < web[r].stamp => now < web[r].stamp
          /\ web[r].stamp <= now => web[r].stamp <= now'
      BY <1>0, <2>1
    <3>2. QED
      BY <2>1, <2>3, <3>1 DEF Kept
  <2>4. QED
    BY <2>1, <2>2, <2>3 DEF UsableInv, Created
<1>3. CASE UNCHANGED vars
  BY <1>3 DEF vars, UsableInv, Created, Kept
<1>4. QED
  BY <1>1, <1>2, <1>3 DEF Next, UsableInv

LEMMA UsableInvariant == Spec => [](ShapeInv /\ HolderInv /\ UsableInv)
<1>1. Init => UsableInv
  BY DEF Init, UsableInv, Created, IdleRequest
<1>2. QED
  BY <1>1, NextUsable, HolderInvariant, PTL DEF Spec

(* An agent reported created keeps a live key, its creator's or that of the *)
(* account it merged into, until its first window ends: no prune decided on *)
(* an old read and no touch with an old stamp can take it before.           *)
THEOREM CreationsUsable == Spec => []CreatedAgentsUsable
<1>1. ShapeInv /\ HolderInv /\ UsableInv => CreatedAgentsUsable
  <2> SUFFICES ASSUME ShapeInv, HolderInv, UsableInv, NEW r \in Request,
                      web[r].result = "ok", web[r].req.op = "create", now < web[r].stamp
               PROVE  \E k \in keys : k.agent = web[r].agent /\ ~ Expired(k) /\ k.owner \in Tenants(k.agent)
    BY DEF CreatedAgentsUsable
  <2>1. Created(r)
    BY DEF Created, ShapeInv, Shaped
  <2>2. PICK k \in keys : k.agent = web[r].agent
    BY <2>1 DEF UsableInv, Kept
  <2>3. web[r].stamp <= k.expires /\ k.owner \in Tenants(k.agent)
    BY <2>1, <2>2 DEF UsableInv, Kept, HolderInv, KeysHeld
  <2>4. k.expires \in Nat /\ now \in Nat /\ web[r].stamp \in Nat
    BY DEF ShapeInv, TypeOK, KeysTypeOK, KeyRow, RequestState
  <2>5. QED
    BY <2>2, <2>3, <2>4 DEF Expired
<1>2. QED
  BY <1>1, UsableInvariant, PTL

============================================================================
