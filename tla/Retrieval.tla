----------------------------- MODULE Retrieval -----------------------------
(***************************************************************************)
(* What a question sees of canonical: neighborhood_facts of                *)
(* src/kgi/retrieval/search.py, the hop-by-hop walk from the entities a    *)
(* question is about, with the temporal filter of every edge.  The store   *)
(* returns the rows of a hop in any order, so that the walk, which stops   *)
(* at the fact limit, has several results.                                 *)
(*                                                                         *)
(* A definition marked "Fault:" is no part of the model: it is the         *)
(* definition after it with a bug seeded.                                  *)
(***************************************************************************)
EXTENDS CanonicalReads, FiniteSetsExt

-----------------------------------------------------------------------------
\* Fault: an edge is still shown at the moment it ends.
ValidClosed(edge, as_of) ==
    IF as_of = None THEN edge.valid_to = None
    ELSE /\ edge.valid_from = None \/ edge.valid_from <= as_of
         /\ edge.valid_to = None \/ edge.valid_to >= as_of

\* _TEMPORAL_FILTER: current knowledge, or what held at as_of (open ends pass).
Valid(edge, as_of) ==
    IF as_of = None THEN edge.valid_to = None
    ELSE /\ edge.valid_from = None \/ edge.valid_from <= as_of
         /\ edge.valid_to = None \/ edge.valid_to > as_of

Ends(g, facts) == UNION {{g.edge[e].subject, g.edge[e].object} : e \in facts}

\* The rows of one hop: the valid edges with an end in the frontier.
Rows(g, frontier, as_of) ==
    {e \in DOMAIN g.edge : Valid(g.edge[e], as_of) /\ Ends(g, {e}) \cap frontier # {}}

At(facts, frontier, seen) == [facts |-> facts, frontier |-> frontier, seen |-> seen]

\* Fault: after the first hop the walk goes on from objects only.
HopToObjects(g, w, as_of, limit) ==
    LET new == Rows(g, w.frontier, as_of) \ w.facts
        room == limit - Cardinality(w.facts)
    IN  {LET met == {g.edge[e].object : e \in took} \ w.seen
         IN  At(w.facts \cup took, met, w.seen \cup met) :
            took \in IF Cardinality(new) <= room THEN {new} ELSE kSubset(room, new)}

\* One hop of the walk w, as far as the limit allows.  Rows beyond the limit
\* are lost with their nodes, but then no hop follows.
Hop(g, w, as_of, limit) ==
    LET new == Rows(g, w.frontier, as_of) \ w.facts
        room == limit - Cardinality(w.facts)
    IN  {LET met == Ends(g, took) \ w.seen
         IN  At(w.facts \cup took, met, w.seen \cup met) :
            took \in IF Cardinality(new) <= room THEN {new} ELSE kSubset(room, new)}

\* The facts neighborhood_facts may return.
Neighborhoods(g, anchors, hops, as_of, limit) ==
    LET walks[n \in 0 .. hops] ==
            IF n = 0 THEN {At({}, anchors, anchors)}
            ELSE UNION {IF w.frontier = {} \/ Cardinality(w.facts) >= limit THEN {w}
                        ELSE Hop(g, w, as_of, limit) : w \in walks[n - 1]}
    IN  {w.facts : w \in walks[hops]}

-----------------------------------------------------------------------------
(* What the walk is for, without a walk. *)

\* The nodes at most n valid edges away from the anchors.
WithinReach(g, anchors, as_of, n) ==
    {b \in DOMAIN g.node :
        \E path \in [0 .. n -> DOMAIN g.node] :
            /\ path[0] \in anchors
            /\ path[n] = b
            /\ \A i \in 1 .. n :
                \/ path[i] = path[i - 1]
                \/ \E e \in DOMAIN g.edge : /\ Valid(g.edge[e], as_of)
                                            /\ Ends(g, {e}) = {path[i - 1], path[i]}}

\* The valid facts whose nearer end is at most n edges away.
Nearby(g, anchors, as_of, n) ==
    {e \in DOMAIN g.edge : /\ Valid(g.edge[e], as_of)
                           /\ Ends(g, {e}) \cap WithinReach(g, anchors, as_of, n) # {}}
=============================================================================
