------------------------------ MODULE MCUpgrade ------------------------------
(***************************************************************************)
(* Two openings of one database of an older version, or of none.           *)
(***************************************************************************)
EXTENDS Upgrade

CONSTANTS a1, a2

\* Two turns with one text, of one agent or of two; the second attested within
\* the second of the first or later, before the first one's reply is stored or
\* after.
Turn(a, attested, stored) == [agent |-> a, attested |-> attested, stored |-> stored]

Histories ==
    {<<Turn(a1, 0, s), Turn(a, t, 3)>> : s \in {0, 2}, a \in {a1, a2}, t \in {1, 2}}

LedgerOf(turns) ==
    [i \in DOMAIN turns |-> [agent |-> turns[i].agent, output |-> "text",
                             time |-> turns[i].attested]]
MessagesOf(turns) ==
    [i \in DOMAIN turns |-> [agent |-> turns[i].agent, content |-> "text",
                             time |-> turns[i].stored, link |-> NULL, own |-> i, new |-> FALSE]]

MCLegacy ==
    { [tables |-> {}, columns |-> {}, ledger |-> <<>>, messages |-> <<>>],
      [tables |-> {"agents", "attestations"}, columns |-> {},
       ledger |-> <<[agent |-> a1, output |-> "text", time |-> 0]>>, messages |-> <<>>] }
    \cup { [tables |-> AllTables, columns |-> AllColumns \ c,
            ledger |-> LedgerOf(h), messages |-> MessagesOf(h)] :
           h \in Histories, c \in {{"attestation_id"}, {"visibility", "attestation_id"}} }

MCReplies == {[agent |-> a1, text |-> "text"]}
=============================================================================
