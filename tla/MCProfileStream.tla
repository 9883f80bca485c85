--------------------------- MODULE MCProfileStream ---------------------------
(* Constants and symmetry for TLC.  What the events hold and how long they    *)
(* stay are independent: under a retention limit other than the least, one    *)
(* profile without an edge is published and withdrawn, to clients without the *)
(* edge opt-in.                                                               *)
EXTENDS ProfileStream, TLC

Kinds == {profiles[t] : t \in Tracks} \cup {events[s].profile : s \in DOMAIN events}

Small ==
    \/ \A limit \in Limits : retention <= limit
    \/ /\ Cardinality(Kinds \ {None}) <= 1
       /\ \A t \in Tracks : edges[t] = None
       /\ \A c \in Clients : ~clients[c].refs

SmallSpec == Init /\ [][Next /\ Small']_vars

Interchangeable ==
    Permutations(Medias) \cup Permutations(Waves) \cup Permutations(Digests)
      \cup Permutations(Clients)
=============================================================================
