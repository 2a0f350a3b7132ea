------------------------------- MODULE WebApp -------------------------------
(***************************************************************************)
(* The web app's requests over one database: POST /api/agents (create),    *)
(* POST /api/agents/[id]/chat (chat) and the guest merge of a sign-in.     *)
(* Requests run concurrently, in one server or in many serverless ones,    *)
(* and yield at each await.  The remote (libsql) adapter is the reference: *)
(* each of its statements is an await of its own; the local adapter's      *)
(* interleavings are among these.                                          *)
(*                                                                         *)
(* A chat turn moves through pc:                                           *)
(*   idle -> key -> judge -> touch -> session -> insert -> reread          *)
(*        -> run -> question -> reply -> done        (judge -> prune)      *)
(* A create moves idle -> custody -> done; a sign-in is one transaction.   *)
(***************************************************************************)
EXTENDS SessionKeys

CONSTANTS
  Request,     (* requests                                                  *)
  WebRequest,  (* what requests ask                                         *)
  NULL

VARIABLES
  chats,     (* table chat_sessions                                         *)
  messages,  (* table chat_messages                                         *)
  attested,  (* table attestations, as the turns that wrote its rows        *)
  creator,   (* table agents, with the owner whose request made each row    *)
  merged,    (* history: the merges that committed                          *)
  web        (* the state of every request                                  *)

vars == <<now, keys, chats, messages, attested, creator, merged, web>>

(* to is the account a guest (owner) signs in to. *)
WebRequestType == [op    : {"create", "chat", "signin"},
                   owner : Owner,
                   agent : Agent \cup {NULL},
                   to    : Account \cup {NULL}]

ASSUME WebRequestAssumption ==
  /\ NULL \notin Agent \cup Owner
  /\ WebRequest \subseteq WebRequestType
  /\ \A q \in WebRequest : q.op = "chat" => q.agent # NULL
  /\ \A q \in WebRequest : q.op = "signin" => q.owner \in Guest /\ q.to # NULL

(* A chat session's uuid is named by the turn that inserted it. *)
ChatRow == [id : Request, agent : Agent, owner : Owner]

MessageRow == [turn : Request, role : {"user", "assistant"}, session : Request]

(* agent is the one created or addressed, seen the key row read, stamp the  *)
(* expiry computed for the next write of it.                                *)
RequestState == [pc     : {"idle", "custody", "key", "judge", "prune", "touch", "session", "insert",
                           "reread", "run", "question", "reply", "done"},
                 req    : WebRequest \cup {NULL},
                 agent  : Agent \cup {NULL},
                 seen   : KeyRow \cup {NULL},
                 stamp  : 0..(MaxTime + Window),
                 result : {"none", "ok", "error", "MISSING_SESSION"}]

IdleRequest == [pc |-> "idle", req |-> NULL, agent |-> NULL, seen |-> NULL, stamp |-> 0,
                result |-> "none"]

----------------------------------------------------------------------------
At(r, pc) == web[r].pc = pc

Step(r, s) == web' = [web EXCEPT ![r] = s]

Goto(r, pc) == Step(r, [web[r] EXCEPT !.pc = pc])

Answer(r, code) == Step(r, [web[r] EXCEPT !.pc = "done", !.result = code])

OwnerOf(r) == web[r].req.owner

ChatOf(a, o) == {c \in chats : c.agent = a /\ c.owner = o}

records == <<chats, messages, attested, creator, merged>>

(***************************************************************************)
(* POST /api/agents.  createAgent commits the agent, then the encrypted    *)
(* key is stored for the caller; a failure in between leaves an agent      *)
(* nobody holds a key of.                                                  *)
(***************************************************************************)
CreateAgent(r, q) ==
  /\ At(r, "idle") /\ q.op = "create"
  /\ \E a \in Agent :
       /\ creator[a] = NULL
       /\ creator' = [creator EXCEPT ![a] = q.owner]
       /\ Step(r, [IdleRequest EXCEPT !.pc = "custody", !.req = q, !.agent = a, !.stamp = now + Window])
  /\ UNCHANGED <<now, keys, chats, messages, attested, merged>>

StoreKey(r) ==
  /\ At(r, "custody")
  /\ SetKey(web[r].agent, OwnerOf(r), web[r].stamp)
  /\ \E code \in {"ok", "error"} : Answer(r, code)
  /\ UNCHANGED <<now, records>>

----------------------------------------------------------------------------
(* POST chat: DurableSessionKeyStore.get *)

ChatStart(r, q) ==
  /\ At(r, "idle") /\ q.op = "chat"
  /\ Step(r, [IdleRequest EXCEPT !.pc = "key", !.req = q, !.agent = q.agent])
  /\ UNCHANGED <<now, keys, records>>

ReadKey(r) ==
  /\ At(r, "key")
  /\ \/ /\ KeyOf(web[r].agent, OwnerOf(r)) = {}
        /\ Answer(r, "MISSING_SESSION")
     \/ \E k \in KeyOf(web[r].agent, OwnerOf(r)) :
          Step(r, [web[r] EXCEPT !.pc = "judge", !.seen = k])
  /\ UNCHANGED <<now, keys, records>>

JudgeKey(r) ==
  /\ At(r, "judge")
  /\ IF Expired(web[r].seen)
       THEN Goto(r, "prune")
       ELSE Step(r, [web[r] EXCEPT !.pc = "touch", !.stamp = Slide(web[r].seen)])
  /\ UNCHANGED <<now, keys, records>>

PruneKey(r) ==
  /\ At(r, "prune")
  /\ DeleteKey(web[r].agent, OwnerOf(r))
  /\ Answer(r, "MISSING_SESSION")
  /\ UNCHANGED <<now, records>>

SlideKey(r) ==
  /\ At(r, "touch")
  /\ TouchKey(web[r].agent, OwnerOf(r), web[r].stamp)
  /\ Goto(r, "session")
  /\ UNCHANGED <<now, records>>

----------------------------------------------------------------------------
(* createChatSession: get or create, in three statements. *)

FindSession(r) ==
  /\ At(r, "session")
  /\ Goto(r, IF ChatOf(web[r].agent, OwnerOf(r)) # {} THEN "run" ELSE "insert")
  /\ UNCHANGED <<now, keys, records>>

InsertSession(r) ==
  /\ At(r, "insert")
  /\ IF ChatOf(web[r].agent, OwnerOf(r)) # {}
       THEN UNCHANGED chats
       ELSE chats' = chats \cup {[id |-> r, agent |-> web[r].agent, owner |-> OwnerOf(r)]}
  /\ Goto(r, "reread")
  /\ UNCHANGED <<now, keys, messages, attested, creator, merged>>

(* "cannot miss", but a merge may have moved the row meanwhile. *)
RereadSession(r) ==
  /\ At(r, "reread")
  /\ IF ChatOf(web[r].agent, OwnerOf(r)) # {} THEN Goto(r, "run") ELSE Answer(r, "error")
  /\ UNCHANGED <<now, keys, records>>

FaultyRun(r) ==  \* a failing attest not propagated
  /\ At(r, "run")
  /\ Goto(r, "question")
  /\ UNCHANGED <<now, keys, records>>

(* wrapAgent: a run that converges is attested, and only then returns; the  *)
(* answer of the attest may still be an error (its response was lost).      *)
Run(r) ==
  /\ At(r, "run")
  /\ attested' = attested \cup {[turn |-> r, agent |-> web[r].agent]}
  /\ Goto(r, "question") \/ Answer(r, "error")
  /\ UNCHANGED <<now, keys, chats, messages, creator, merged>>

(* appendChatMessage finds the session by the pair in the same statement.   *)
AppendMessage(r, role) ==
  messages' = messages \cup
    {[turn |-> r, role |-> role, session |-> c.id] : c \in ChatOf(web[r].agent, OwnerOf(r))}

AppendQuestion(r) ==
  /\ At(r, "question")
  /\ AppendMessage(r, "user")
  /\ IF ChatOf(web[r].agent, OwnerOf(r)) # {} THEN Goto(r, "reply") ELSE Answer(r, "error")
  /\ UNCHANGED <<now, keys, chats, attested, creator, merged>>

AppendReply(r) ==
  /\ At(r, "reply")
  /\ AppendMessage(r, "assistant")
  /\ \/ ChatOf(web[r].agent, OwnerOf(r)) # {} /\ Answer(r, "ok")
     \/ Answer(r, "error")
  /\ UNCHANGED <<now, keys, chats, attested, creator, merged>>

----------------------------------------------------------------------------
ChatsCollide(from, to) == \E c \in chats : c.owner = from /\ ChatOf(c.agent, to) # {}

Collide(from, to) == KeysCollide(from, to) \/ ChatsCollide(from, to)

(* mergeOwner: both tables in one transaction. *)
Merge(from, to) ==
  /\ ~ Collide(from, to)
  /\ MoveKeys(from, to)
  /\ chats' = {IF c.owner = from THEN [c EXCEPT !.owner = to] ELSE c : c \in chats}
  /\ merged' = merged \cup {<<from, to>>}

(* mergeGuestIntoAccount: a merge that fails, or collides, is swallowed.    *)
SignIn(r, q) ==
  /\ At(r, "idle") /\ q.op = "signin"
  /\ Merge(q.owner, q.to) \/ UNCHANGED <<keys, chats, merged>>
  /\ Step(r, [IdleRequest EXCEPT !.pc = "done", !.req = q, !.result = "ok"])
  /\ UNCHANGED <<now, messages, attested, creator>>

(* Any await can throw: storage, the provider, a frozen serverless process. *)
Abort(r) ==
  /\ web[r].pc \notin {"idle", "done"}
  /\ Answer(r, "error")
  /\ UNCHANGED <<now, keys, records>>

----------------------------------------------------------------------------
Init ==
  /\ KeysInit
  /\ chats = {} /\ messages = {} /\ attested = {} /\ merged = {}
  /\ creator = [a \in Agent |-> NULL]
  /\ web = [r \in Request |-> IdleRequest]

Begin(r) ==
  \E q \in WebRequest : CreateAgent(r, q) \/ ChatStart(r, q) \/ SignIn(r, q)

Continue(r) ==
  \/ StoreKey(r)
  \/ ReadKey(r) \/ JudgeKey(r) \/ PruneKey(r) \/ SlideKey(r)
  \/ FindSession(r) \/ InsertSession(r) \/ RereadSession(r)
  \/ Run(r) \/ AppendQuestion(r) \/ AppendReply(r)

Next ==
  \/ \E r \in Request : Begin(r) \/ Continue(r) \/ Abort(r)
  \/ Tick /\ UNCHANGED <<records, web>>

Spec == Init /\ [][Next]_vars

----------------------------------------------------------------------------
TypeOK ==
  /\ KeysTypeOK
  /\ chats \subseteq ChatRow
  /\ messages \subseteq MessageRow
  /\ attested \subseteq [turn : Request, agent : Agent]
  /\ creator \in [Agent -> Owner \cup {NULL}]
  /\ merged \subseteq Guest \X Account
  /\ web \in [Request -> RequestState]

(* The owner who created an agent and the accounts that owner merged into.  *)
Tenants(a) == {o \in Owner : o = creator[a] \/ <<creator[a], o>> \in merged}

SessionOf(m) == {c \in chats : c.id = m.session}

(* Nothing of an agent reaches another tenant: its keys, its conversations, *)
(* the turns signed with it and the messages in a conversation belong to    *)
(* its creator or to an account the creator merged into (the pair scoped    *)
(* statements of the adapters under concurrent chats and merges).           *)
TenantIsolation ==
  /\ \A k \in keys : k.owner \in Tenants(k.agent)
  /\ \A c \in chats : c.owner \in Tenants(c.agent)
  /\ \A t \in attested : OwnerOf(t.turn) \in Tenants(t.agent)
  /\ \A m \in messages, c \in chats : m.session = c.id =>
       /\ web[m.turn].agent = c.agent
       /\ OwnerOf(m.turn) = c.owner \/ <<OwnerOf(m.turn), c.owner>> \in merged

(* Every reply in a transcript has its signed attestation, of that agent    *)
(* (the chat route; README.md:126).                                         *)
RepliesAttested ==
  \A m \in messages : m.role = "assistant" =>
    /\ SessionOf(m) # {}
    /\ \A c \in SessionOf(m) : [turn |-> m.turn, agent |-> c.agent] \in attested

(* One owner at a time holds an agent's key, through merges that race chats *)
(* and creates (upsert, touch and merge of session_keys).                   *)
KeyHasOneHolder == \A k, l \in keys : k.agent = l.agent => k = l

(* An agent reported created can be used until its first window ends, by    *)
(* its creator or the account it merged into (create, touch, prune, merge). *)
CreatedAgentsUsable ==
  \A r \in Request :
    web[r].result = "ok" /\ web[r].req.op = "create" /\ now < web[r].stamp
    => \E k \in keys : k.agent = web[r].agent /\ ~ Expired(k) /\ k.owner \in Tenants(k.agent)

============================================================================
