---------------------------- MODULE MCChatScreen ----------------------------
(***************************************************************************)
(* Small instances of ChatScreen.  The limits keep the proportions of the  *)
(* code: an output may be twice as long as a turn of the history, and the  *)
(* budget holds fewer of the longest turns than the cap allows turns.      *)
(***************************************************************************)
EXTENDS ChatScreen

CONSTANTS short, long, full, essay, blank

MCContent == {short, long, full, essay, blank}

MCSizeOf ==
  (short :> 1) @@ (long :> 2) @@ (full :> 2) @@ (essay :> 4) @@ (blank :> 0)

============================================================================
