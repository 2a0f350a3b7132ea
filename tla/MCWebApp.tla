------------------------------ MODULE MCWebApp ------------------------------
(***************************************************************************)
(* Small instances of WebApp: a guest g1 who creates agents, chats and     *)
(* signs in to the account u1, which creates and chats too, and a stranger *)
(* g2 who tries to chat.                                                   *)
(***************************************************************************)
EXTENDS WebApp, TLC

CONSTANTS p1, g1, u1

Ask(op, owner, agent, to) == [op |-> op, owner |-> owner, agent |-> agent, to |-> to]

MCWebRequests ==
  {Ask("create", o, NULL, NULL) : o \in {g1, u1}}
    \cup {Ask("chat", o, p1, NULL) : o \in Owner}
    \cup {Ask("signin", g1, NULL, u1)}

Symmetry == Permutations(Request)

============================================================================
