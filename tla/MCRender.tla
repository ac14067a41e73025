------------------------------ MODULE MCRender ------------------------------
(* A small instance of Render: two issues of one write, the shorter of which    *)
(* fits where the other does not, and an intent that ties with them; another    *)
(* intent, more recent and less salient; a profile fact of a verified source.   *)
EXTENDS Render

CONSTANTS parcel, came, wants, refund, today, late, again, box, n1, n2

Memory(id, type, words, salience, created, trust, nonces) ==
  [id |-> id, type |-> type, words |-> words, salience |-> salience,
   created |-> created, trust |-> trust, nonces |-> nonces]

MCCatalog ==
  { Memory("a", "issue", <<parcel, came, today, late, again>>, 9, 1, 1, {n1}),
    Memory("b", "issue", <<late, again, box, came>>, 9, 1, 1, {n1, n2}),
    Memory("d", "intent", <<wants, refund, today>>, 9, 1, 2, {}),
    Memory("e", "intent", <<wants, box, again>>, 6, 5, 1, {n2}),
    Memory("f", "profile", <<parcel, refund>>, 3, 6, 3, {}) }

\* The later intent takes back what the second issue asked for.
MCOpposed == {p \in MCCatalog \X MCCatalog : {p[1].id, p[2].id} = {"b", "e"}}
=============================================================================
