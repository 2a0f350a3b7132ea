------------------------------- MODULE MCPages -------------------------------
(***************************************************************************)
(* One tab, one agent held at first or created, a guest and an account.    *)
(***************************************************************************)
EXTENDS Pages
=============================================================================
