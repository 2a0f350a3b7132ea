----------------------------- MODULE SafeFetch ------------------------------
(***************************************************************************)
(* safeFetch, which every tool on the network goes through: a gate before  *)
(* each hop, redirects followed by hand, a timer per hop and a bounded     *)
(* body. Names resolve as they please at every hop, and servers answer as  *)
(* they please or not at all.                                              *)
(***************************************************************************)
EXTENDS Integers

CONSTANTS
  Origins,          \* the origins a URL may have
  Literals,         \* those whose host is an address: a function to its class
  Statuses,         \* the answers that are not redirects
  MaxRedirects,     \* TOOL_MAX_REDIRECTS
  MaxBytes,         \* TOOL_MAX_RESPONSE_BYTES, in chunks
  Absent

ASSUME FetchAssumption ==
  /\ DOMAIN Literals \subseteq Origins
  /\ \A o \in DOMAIN Literals : Literals[o] \in {"public", "sensitive", "scheme"}
  /\ MaxRedirects \in Nat /\ MaxBytes \in Nat
  /\ Absent \notin Origins

VARIABLES
  fetch,            \* the call in progress or its end
  sent              \* the last request of this call, and how many it made

fetchVars == <<fetch, sent>>

NoFetch == [pc |-> "none", at |-> Absent, home |-> Absent, headers |-> FALSE, redirects |-> 0, bytes |-> 0,
            status |-> 0]
NoRequest == [to |-> Absent, headers |-> FALSE, count |-> 0]

Fetching == fetch.pc \in {"gate", "request", "waiting", "reading"}

(* The classes of address a host may be found at, {} when lookup fails.     *)
Found(o) == IF o \in DOMAIN Literals THEN {{Literals[o]}} ELSE SUBSET {"public", "sensitive"}

StartFetch(o, headers) ==
  /\ fetch' = [NoFetch EXCEPT !.pc = "gate", !.at = o, !.home = o, !.headers = headers]
  /\ sent' = NoRequest

Fails == fetch' = [fetch EXCEPT !.pc = "failed"] /\ UNCHANGED sent

(* assertPublicUrl: one address out of bounds refuses the host.             *)
Gate(found) ==
  /\ fetch.pc = "gate"
  /\ IF found = {"public"}
     THEN fetch' = [fetch EXCEPT !.pc = "request"] /\ UNCHANGED sent
     ELSE Fails

Carries == fetch.headers /\ fetch.at = fetch.home

FaultyRequest ==          \* the headers follow every redirect
  /\ fetch.pc = "request"
  /\ sent' = [to |-> fetch.at, headers |-> fetch.headers, count |-> sent.count + 1]
  /\ fetch' = [fetch EXCEPT !.pc = "waiting", !.bytes = 0]

Request ==
  /\ fetch.pc = "request"
  /\ sent' = [to |-> fetch.at, headers |-> Carries, count |-> sent.count + 1]
  /\ fetch' = [fetch EXCEPT !.pc = "waiting", !.bytes = 0]

Redirect(o) ==
  /\ fetch.pc = "waiting"
  /\ IF fetch.redirects < MaxRedirects
     THEN fetch' = [fetch EXCEPT !.pc = "gate", !.at = o, !.redirects = @ + 1] /\ UNCHANGED sent
     ELSE Fails

RedirectNowhere ==
  /\ fetch.pc = "waiting"
  /\ fetch' = [fetch EXCEPT !.pc = "done", !.status = 302]
  /\ UNCHANGED sent

Headers(status) ==
  /\ fetch.pc = "waiting"
  /\ fetch' = [fetch EXCEPT !.pc = "reading", !.status = status]
  /\ UNCHANGED sent

Chunk ==
  /\ fetch.pc = "reading"
  /\ IF fetch.bytes < MaxBytes
     THEN fetch' = [fetch EXCEPT !.bytes = @ + 1] /\ UNCHANGED sent
     ELSE Fails

BodyEnds ==
  /\ fetch.pc = "reading"
  /\ fetch' = [fetch EXCEPT !.pc = "done"]
  /\ UNCHANGED sent

FaultyBreaks == fetch.pc = "waiting" /\ Fails      \* the timer ends with the headers

(* The hop's timer, or the network; a lookup has neither above it.          *)
Breaks == fetch.pc \in {"waiting", "reading"} /\ Fails

Server ==
  \/ \E o \in Origins : Redirect(o)
  \/ RedirectNowhere
  \/ \E s \in Statuses : Headers(s)
  \/ Chunk
  \/ BodyEnds

FetchStep ==
  \/ \E found \in Found(fetch.at) : Gate(found)
  \/ Request
  \/ Server
  \/ Breaks
=============================================================================
