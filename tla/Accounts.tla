------------------------------- MODULE Accounts -------------------------------
(***************************************************************************)
(* Signing in: Auth.js with an external provider (Google) or with email    *)
(* and password, over the users and accounts tables.  Every sign-in is a   *)
(* request of its own, several may run at once, in one server or in many,  *)
(* and each statement is an await that may fail, or fail after it took     *)
(* effect.  A sign-in that resolves its user then moves what the browser's *)
(* guest owns to that user (mergeOwner, whose tables WebApp models).       *)
(*                                                                         *)
(*   google:   link -> owner                                               *)
(*             link -> user -> create -> winner -> join -> relink -> owner *)
(*   password: user -> create -> winner -> link -> join -> verify          *)
(***************************************************************************)
EXTENDS Visits

CONSTANTS
    SignIns,        \* sign-in requests
    Asked           \* what they ask: browser, provider, subject, email, password

VARIABLES
    users,          \* table users: id, email, passwordHash
    links,          \* table accounts: provider, subject, user
    signIn,         \* the state of every sign-in
    token,          \* per browser, the user id in its Auth.js token
    merged          \* history: guests merged, and into which user

accountVars == <<users, links, signIn, token, merged>>

vars == <<visitVars, accountVars>>

Google == "google"
Credentials == "credentials"

ASSUME AskedAssumption ==
    \A q \in Asked : q.browser \in Browsers /\ q.provider \in {Google, Credentials}

Idle == [pc |-> "idle", req |-> NULL, guest |-> NULL, user |-> NULL, faults |-> 0]

\* Rows, and a sign-in on its way. Of the user of a link only the id is known.
User ==
    [id : SignIns, email : {q.email : q \in Asked},
     passwordHash : {q.password : q \in Asked} \cup {NULL}]

Link ==
    [provider : {Google, Credentials}, subject : SignIns \cup {q.subject : q \in Asked},
     user : SignIns]

SignInState ==
    [pc : {"idle", "link", "owner", "user", "create", "winner", "join", "relink", "verify",
           "resolved", "done", "denied"},
     req : Asked \cup {NULL}, guest : Guests \cup {NULL},
     user : User \cup [id : SignIns] \cup {NULL}, faults : {0, 1}]

-----------------------------------------------------------------------------
At(s, pc) == signIn[s].pc = pc

Step(s, new) == signIn' = [signIn EXCEPT ![s] = new]

Goto(s, pc) == Step(s, [signIn[s] EXCEPT !.pc = pc])

With(s, pc, user) == Step(s, [signIn[s] EXCEPT !.pc = pc, !.user = user])

Req(s) == signIn[s].req

ByPassword(s) == Req(s).provider = Credentials

UserByEmail(e) == {u \in users : u.email = e}
UserById(id) == {u \in users : u.id = id}

LinkOf(provider, subject) == {l \in links : l.provider = provider /\ l.subject = subject}

\* The credentials link names the user itself.
SubjectOf(s) == IF ByPassword(s) THEN signIn[s].user.id ELSE Req(s).subject

\* A token without a user id is a session without an account: requests fall back
\* to the guest.
NoUser == ""

\* getOrCreateUserByProvider returned null: a new token all the same. When
\* authorize did, there is none.
NoAccount(s) ==
    token' = IF ByPassword(s) THEN token ELSE [token EXCEPT ![Req(s).browser] = NoUser]

Deny(s) ==
    /\ Goto(s, "denied")
    /\ NoAccount(s)
    /\ UNCHANGED <<users, links, merged>>

\* The users.email and accounts (provider, provider_account_id) constraints.
EmailTaken(e) == UserByEmail(e) # {}

Linked(s) == LinkOf(Req(s).provider, SubjectOf(s)) # {}

-----------------------------------------------------------------------------
Begin(s, q) ==
    /\ At(s, "idle")
    /\ Cardinality({t \in SignIns : ~ At(t, "idle")}) < bound.signIns
    /\ Step(s, [Idle EXCEPT !.pc = IF q.provider = Google THEN "link" ELSE "user",
                            !.req = q, !.guest = GuestOf(q.browser)])
    /\ UNCHANGED <<users, links, token, merged>>

ReadLink(s) ==
    /\ At(s, "link")
    /\ LET found == LinkOf(Req(s).provider, SubjectOf(s)) IN
         IF ByPassword(s) THEN Goto(s, IF found = {} THEN "join" ELSE "verify")
         ELSE IF found = {} THEN Goto(s, "user")
         ELSE \E l \in found : With(s, "owner", [id |-> l.user])
    /\ UNCHANGED <<users, links, token, merged>>

\* The user of the link found.
ReadOwner(s) ==
    /\ At(s, "owner")
    /\ \/ /\ UserById(signIn[s].user.id) = {}
          /\ Deny(s)
       \/ \E u \in UserById(signIn[s].user.id) :
            With(s, "resolved", u) /\ UNCHANGED <<users, links, token, merged>>

\* Once a user is in hand: google links it, authorize looks for its link.
AfterUser(s) == IF ByPassword(s) THEN "link" ELSE "join"

ReadUser(s) ==
    /\ At(s, "user")
    /\ \/ ~ EmailTaken(Req(s).email) /\ Goto(s, "create")
       \/ \E u \in UserByEmail(Req(s).email) : With(s, AfterUser(s), u)
    /\ UNCHANGED <<users, links, token, merged>>

\* The id is random, so it is named by the sign-in that draws it.
Candidate(s) ==
    [id |-> s, email |-> Req(s).email,
     passwordHash |-> IF ByPassword(s) THEN Req(s).password ELSE NULL]

CreateUser(s) ==
    /\ At(s, "create")
    /\ IF EmailTaken(Req(s).email) THEN Goto(s, "winner") /\ UNCHANGED users
       ELSE users' = users \cup {Candidate(s)} /\ With(s, AfterUser(s), Candidate(s))
    /\ UNCHANGED <<links, token, merged>>

FaultyReadWinner(s) ==      \* the loser of the race is turned away
    /\ At(s, "winner")
    /\ Deny(s)

\* Another sign-in created the user meanwhile.
ReadWinner(s) ==
    /\ At(s, "winner")
    /\ \/ ~ EmailTaken(Req(s).email) /\ Deny(s)
       \/ \E u \in UserByEmail(Req(s).email) :
            With(s, AfterUser(s), u) /\ UNCHANGED <<users, links, token, merged>>

NewLink(s) == [provider |-> Req(s).provider, subject |-> SubjectOf(s), user |-> signIn[s].user.id]

FaultyCreateLink(s) ==      \* the loser of the race keeps its own user
    /\ At(s, "join")
    /\ links' = IF Linked(s) THEN links ELSE links \cup {NewLink(s)}
    /\ Goto(s, IF ByPassword(s) THEN "verify" ELSE "resolved")
    /\ UNCHANGED <<users, token, merged>>

CreateLink(s) ==
    /\ At(s, "join")
    /\ links' = IF Linked(s) THEN links ELSE links \cup {NewLink(s)}
    /\ Goto(s, IF ByPassword(s) THEN "verify" ELSE IF Linked(s) THEN "relink" ELSE "resolved")
    /\ UNCHANGED <<users, token, merged>>

\* Another sign-in of this identity linked it first: its user is the one.
ReadLinkAgain(s) ==
    /\ At(s, "relink")
    /\ \/ ~ Linked(s) /\ Deny(s)
       \/ \E l \in LinkOf(Google, Req(s).subject) :
            With(s, "owner", [id |-> l.user]) /\ UNCHANGED <<users, links, token, merged>>

\* The password against the hash read; an account of google alone has none.
Verify(s) ==
    /\ At(s, "verify")
    /\ IF signIn[s].user.passwordHash = Req(s).password
         THEN Goto(s, "resolved") /\ UNCHANGED <<users, links, token, merged>>
         ELSE Deny(s)

\* The token gets the user, after the merge of the guest, whose failure is
\* swallowed.
Finish(s) ==
    /\ At(s, "resolved")
    /\ token' = [token EXCEPT ![Req(s).browser] = signIn[s].user.id]
    /\ \/ signIn[s].guest # NULL /\ merged' = merged \cup {<<signIn[s].guest, signIn[s].user.id>>}
       \/ UNCHANGED merged
    /\ Goto(s, "done")
    /\ UNCHANGED <<users, links>>

\* A statement fails, before its effect or after it. A failing insert is answered
\* with null, a failing read throws out of the callback.
Fault(s) ==
    /\ signIn[s].pc \in {"link", "owner", "user", "create", "winner", "join", "relink"}
    /\ signIn' = [signIn EXCEPT ![s].pc = "denied", ![s].faults = 1]
    /\ \/ UNCHANGED <<users, links>>
       \/ /\ At(s, "create") /\ ~ EmailTaken(Req(s).email)
          /\ users' = users \cup {Candidate(s)} /\ UNCHANGED links
       \/ /\ At(s, "join") /\ ~ Linked(s)
          /\ links' = links \cup {NewLink(s)} /\ UNCHANGED users
    /\ IF signIn[s].pc \in {"create", "join"} THEN NoAccount(s) ELSE UNCHANGED token
    /\ UNCHANGED merged

-----------------------------------------------------------------------------
\* requireSession: whose request it is.
Effective(b) == IF token[b] \in {NULL, NoUser} THEN GuestOf(b) ELSE token[b]

\* A create or a chat turn, each limited per owner by its own route's key: the work
\* of the request itself is WebApp's.
Ask(b) ==
    /\ Effective(b) # NULL
    /\ \E route \in {"user", "chat"} :
         Allow(<<route, Effective(b)>>) \/ Refuse(<<route, Effective(b)>>)
    /\ UNCHANGED <<bound, now, cookie, minted, answers, accountVars>>

SignInStep(s) ==
    \/ \E q \in Asked : Begin(s, q)
    \/ ReadLink(s) \/ ReadOwner(s) \/ ReadUser(s) \/ CreateUser(s) \/ ReadWinner(s)
    \/ CreateLink(s) \/ ReadLinkAgain(s) \/ Verify(s) \/ Finish(s) \/ Fault(s)

Init ==
    /\ VisitInit
    /\ users = {} /\ links = {} /\ merged = {}
    /\ signIn = [s \in SignIns |-> Idle]
    /\ token = [b \in Browsers |-> NULL]

Next ==
    \/ VisitNext /\ UNCHANGED accountVars
    \/ \E s \in SignIns : SignInStep(s) /\ UNCHANGED visitVars
    \/ \E b \in Browsers : Ask(b)

Spec == Init /\ [][Next]_vars

-----------------------------------------------------------------------------
TypeOK ==
    /\ cookie \in [Browsers -> [guest : Guests, until : Nat] \cup {NULL}]
    /\ minted \subseteq Guests /\ answers \subseteq [browser : Browsers, guest : Guests]
    /\ users \subseteq User /\ links \subseteq Link
    /\ signIn \in [SignIns -> SignInState]
    /\ token \in [Browsers -> SignIns \cup {NULL, NoUser}]
    /\ merged \subseteq Guests \X SignIns

Signed == {s \in SignIns : At(s, "done")}

\* One person, one account: sign-ins of one external identity end at one user
\* whatever email they came with, sign-ins by password for one email at one user
\* and with one password, and no two users share an email, through racing first
\* sign-ins and writes that took effect unseen (getOrCreateUserByProvider and
\* authorize over the two unique constraints).
OneAccountPerPerson ==
    /\ \A s, t \in Signed :
         /\ ~ ByPassword(s) /\ ~ ByPassword(t) /\ Req(s).subject = Req(t).subject
              => signIn[s].user.id = signIn[t].user.id
         /\ ByPassword(s) /\ ByPassword(t) /\ Req(s).email = Req(t).email
              => /\ signIn[s].user.id = signIn[t].user.id
                 /\ Req(s).password = Req(t).password
    /\ \A u, v \in users : u.email = v.email => u = v

\* No sign-in is denied by what others left behind: unless one of its own
\* statements failed, it was a password that is not the one of the account with
\* its email (the refetches of auth.ts, "corruption, not a retryable race").
DenialsHaveCause ==
    \A s \in SignIns : At(s, "denied") /\ signIn[s].faults = 0 =>
      /\ ByPassword(s)
      /\ \E u \in UserByEmail(Req(s).email) : u.passwordHash # Req(s).password

=============================================================================
