--------------------------- MODULE CanonicalReads ---------------------------
(***************************************************************************)
(* The canonical graph as a value, and the queries of                      *)
(* src/kgi/stores/neo4j.py that resolution, correlation and extraction     *)
(* make of it.  A graph is a record: node maps a canonical id to [name,    *)
(* entity_type, description, attr], edge an edge id to [subject,           *)
(* predicate, object, valid_from, valid_to, support].  attr stands for any *)
(* property other than the description.                                    *)
(***************************************************************************)
EXTENDS Integers, Sequences, FiniteSets

CONSTANTS
    None,
    Fold        \* name -> the key toLower gives it

\* A description is a sequence of statements.  Ids are pairs of numbers.  Predicates
\* and entity types are strings; those the code coins itself are listed for the
\* provers, which know no literal to be one.
EntityNames == DOMAIN Fold
Labels == STRING \cup {"IS_A", "FLOWS_TO", "Concept"}
Descriptions == Seq(STRING) \cup {None}
Values == STRING \cup {None}
Dates == Nat \cup {None}
Ids == Nat \X Nat

ASSUME NoneAssumption ==
    /\ None \notin Nat
    /\ None \notin Seq(STRING)
    /\ None \notin Ids

\* A graph: its edges join nodes it has.
IsGraph(g) ==
    /\ DOMAIN g = {"node", "edge"}
    /\ g.node \in [DOMAIN g.node ->
            [name : EntityNames, entity_type : Labels, description : Descriptions, attr : Values]]
    /\ g.edge \in [DOMAIN g.edge ->
            [subject : DOMAIN g.node, predicate : Labels, object : DOMAIN g.node,
             valid_from : Dates, valid_to : Dates, support : Nat \ {0}]]
    /\ IsFiniteSet(DOMAIN g.edge)

CurrentEdges(g) == {e \in DOMAIN g.edge : g.edge[e].valid_to = None}

\* find_by_name, whose LIMIT 1 takes any of these.
FindByName(g, name) == {n \in DOMAIN g.node : Fold[g.node[n].name] = Fold[name]}

EdgesFrom(g, s, p) ==
    {e \in CurrentEdges(g) : g.edge[e].subject = s /\ g.edge[e].predicate = p}

EdgesTo(g, o, p) ==
    {e \in CurrentEdges(g) : g.edge[e].object = o /\ g.edge[e].predicate = p}

EdgesBetween(g, s, o, p) == EdgesFrom(g, s, p) \cap EdgesTo(g, o, p)

KnownPredicates(g) == {g.edge[e].predicate : e \in DOMAIN g.edge}

KnownEntityTypes(g) == {g.node[n].entity_type : n \in DOMAIN g.node}
=============================================================================
