------------------------------ MODULE MCAccounts ------------------------------
(***************************************************************************)
(* Browsers of one address.  The first signs in over and over: with one    *)
(* external identity under two emails, with another under one of them,     *)
(* and by two passwords.  A behaviour has many visits, or many sign-ins.   *)
(***************************************************************************)
EXTENDS Accounts, TLC

CONSTANTS b1, e1, e2, p1, p2

Ext(subject, email) ==
    [browser |-> b1, provider |-> Google, subject |-> subject, email |-> email, password |-> NULL]

ByPass(email, password) ==
    [browser |-> b1, provider |-> Credentials, subject |-> NULL, email |-> email,
     password |-> password]

MCAsked == {Ext("sub1", e1), Ext("sub1", e2), Ext("sub2", e1), ByPass(e1, p1), ByPass(e1, p2)}

MCBounds == 
    { [visits |-> 5, signIns |-> 0, time |-> 4],
      [visits |-> 3, signIns |-> 1, time |-> 2],
      [visits |-> 1, signIns |-> 3, time |-> 0] }

Symmetry == Permutations(SignIns)
=============================================================================
