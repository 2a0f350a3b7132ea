-------------------------------- MODULE Visits --------------------------------
(***************************************************************************)
(* Visits of browsers to the web app: POST /api/session, which every page  *)
(* calls when it mounts, the guest cookie it sets, and the fixed window    *)
(* rate limiter in front of it (one per server process).  Tabs of one      *)
(* browser share its cookie and may be mounting at the same time, so a     *)
(* response can arrive after another tab's.                                *)
(***************************************************************************)
EXTENDS Naturals, FiniteSets

CONSTANTS
    Browsers,
    Guests,         \* user ids of guest sessions
    Window,         \* rateLimitWindowMs, in ticks
    MaxRequests,    \* rateLimitMaxRequests
    SweepThreshold, \* how many buckets start a sweep
    CookieLife,     \* maxAge of the cookie, in ticks
    Bounds,         \* bounds of a behaviour: how many visits, how many sign-ins
                    \* and what time the clock reaches
    NULL

ASSUME WindowAssumption == {Window, MaxRequests, CookieLife} \subseteq Nat \ {0}

VARIABLES
    bound,          \* the bounds of this behaviour
    now,            \* Date.now()
    buckets,        \* the limiter's map: key to windowStart and count
    cookie,         \* per browser, the guest session in its cookie
    minted,         \* the guests so far
    answers,        \* responses of POST /api/session on their way
    granted,        \* history: when the limiter let whom in, numbered per key
    turnedAway      \* history: when it did not

visitVars == <<bound, now, buckets, cookie, minted, answers, granted, turnedAway>>

-----------------------------------------------------------------------------
FaultyElapsed(start) == start <= now    \* the window left out

Elapsed(start) == start + Window <= now

Full(b) == b.count >= MaxRequests

\* A full sweep drops the buckets whose window is over.
Swept(bs) ==
    IF Cardinality(DOMAIN bs) < SweepThreshold THEN bs
    ELSE [k \in {j \in DOMAIN bs : ~ Elapsed(bs[j].windowStart)} |-> bs[k]]

Visits == Cardinality(granted) + Cardinality(turnedAway)

Open(k) == k \in DOMAIN buckets => Elapsed(buckets[k].windowStart)

Allowed(k) == ~ Open(k) => ~ Full(buckets[k])

Opened(k) ==
    Swept([j \in DOMAIN buckets \cup {k} |->
              IF j = k THEN [windowStart |-> now, count |-> 1] ELSE buckets[j]])

Grants(k) == {g \in granted : g.key = k}

Allow(k) ==
    /\ Visits < bound.visits
    /\ Allowed(k)
    /\ buckets' = IF Open(k) THEN Opened(k) ELSE [buckets EXCEPT ![k].count = @ + 1]
    /\ granted' = granted \cup {[key |-> k, at |-> now, nr |-> Cardinality(Grants(k)) + 1]}
    /\ UNCHANGED turnedAway

Refuse(k) ==
    /\ Visits < bound.visits
    /\ ~ Allowed(k)
    /\ turnedAway' = turnedAway \cup {[key |-> k, at |-> now]}
    /\ UNCHANGED <<buckets, granted>>

-----------------------------------------------------------------------------
\* The browser sends the cookie while it lives.
GuestOf(b) == IF cookie[b] # NULL /\ now < cookie[b].until THEN cookie[b].guest ELSE NULL

\* A visit without a session is limited by its address, and all browsers here
\* share one.
Address == "address"

LimitKey(b) == IF GuestOf(b) # NULL THEN <<"session", GuestOf(b)>> ELSE <<"ip", Address>>

\* The existing session is returned, or a new one minted.
Visit(b) ==
    /\ \/ Refuse(LimitKey(b)) /\ UNCHANGED <<minted, answers>>
       \/ /\ Allow(LimitKey(b))
          /\ IF GuestOf(b) # NULL THEN UNCHANGED <<minted, answers>>
             ELSE \E g \in Guests \ minted :
                    /\ minted' = minted \cup {g}
                    /\ answers' = answers \cup {[browser |-> b, guest |-> g]}
    /\ UNCHANGED <<bound, now, cookie>>

\* Set-Cookie: the life of the cookie counts from its arrival.
Arrive(a) ==
    /\ a \in answers
    /\ answers' = answers \ {a}
    /\ cookie' = [cookie EXCEPT ![a.browser] = [guest |-> a.guest, until |-> now + CookieLife]]
    /\ UNCHANGED <<bound, now, buckets, minted, granted, turnedAway>>

Pass ==
    /\ now < bound.time
    /\ now' = now + 1
    /\ UNCHANGED <<bound, buckets, cookie, minted, answers, granted, turnedAway>>

VisitInit ==
    /\ bound \in Bounds
    /\ now = 0
    /\ buckets = [k \in {} |-> NULL]
    /\ cookie = [b \in Browsers |-> NULL]
    /\ minted = {} /\ answers = {} /\ granted = {} /\ turnedAway = {}

VisitNext ==
    \/ Pass
    \/ \E b \in Browsers : Visit(b)
    \/ \E a \in answers : Arrive(a)

-----------------------------------------------------------------------------
\* The limiter is as strict as windows that start at a first request are, and no
\* stricter: in no stretch of one window's length does it let a key in twice its
\* maximum, and whoever is turned away was let in as often as allowed within the
\* last window (FixedWindowRateLimiter.allow and its sweep).
LimitIsExact ==
    /\ \A k \in {g.key : g \in granted} : \A t \in 0..now :
         Cardinality({g \in Grants(k) : t <= g.at /\ g.at < t + Window}) < 2 * MaxRequests
    /\ \A r \in turnedAway :
         Cardinality({g \in Grants(r.key) : r.at < g.at + Window /\ g.at <= r.at}) >= MaxRequests

=============================================================================
