---------------------------- MODULE ResolvePatch ----------------------------
(***************************************************************************)
(* From candidates to a scored and routed patch: resolve_node and          *)
(* score_route_node of src/kgi/pipeline/graph.py, with the resolution      *)
(* cascade (src/kgi/resolution/cascade.py) and the conflict engine         *)
(* (src/kgi/conflict/engine.py).  All of it reads canonical and writes     *)
(* nothing, so it is a function of the graph, the candidates and the       *)
(* answers of those it asks: answers has, for every mention that is not    *)
(* found by its name, how near the vector store finds the nodes and which  *)
(* node the judge says it is (or None); verdict says how a current edge    *)
(* fares against a new relation that contends with it.                     *)
(*                                                                         *)
(* A description is a sequence of statements; "n in o" of the code is      *)
(* a run of statements inside another.  An op refers to an op of the same  *)
(* patch by its place in the patch.                                        *)
(*                                                                         *)
(* A definition marked "Fault:" is no part of the model: it is the         *)
(* definition after it with a bug seeded.                                  *)
(***************************************************************************)
EXTENDS Extraction, Routing

CONSTANTS
    Key,        \* name -> what strip().lower() makes of it
    PredicateKey, \* predicate -> what strip().lower() makes of it
    Cosines,    \* the tables [a |-> [b |-> similarity, in percent]] the embedder may give
    Paraphrase, \* predicate -> the predicate it paraphrases (0.85 or more), or None
    DescCap,    \* the longest description, in statements (_DESC_CAP)
    Today,      \* date.today()
    Confidences \* confidences the model may state for its own judgements, in percent

ASSUME ResolutionAssumption ==
    /\ \A a, b \in EntityNames : Fold[a] = Fold[b] => Key[a] = Key[b]
    /\ Cosines \subseteq [EntityNames -> [EntityNames -> -100 .. 100]]
    /\ DescCap \in Nat
    /\ Today \in Nat
    /\ Confidences \subseteq Percent

EMBEDDING_ACCEPT == 90
EMBEDDING_REJECT == 60

-----------------------------------------------------------------------------
(* Before any canonical lookup: normalize_predicate and _dedupe_batch. *)

\* The nearest indexed predicate is the predicate itself when it is indexed.
NormalizePredicate(g, p) ==
    IF p \notin KnownPredicates(g) /\ Paraphrase[p] \in KnownPredicates(g)
    THEN Paraphrase[p] ELSE p

\* The elements of s grouped by their keys, the groups in the order of their first
\* element.
Groups(s, key) ==
    LET firsts == Picked([i \in DOMAIN s |-> i],
                         {i \in DOMAIN s : \A j \in 1 .. i - 1 : key[j] # key[i]})
    IN  [n \in DOMAIN firsts |-> Picked(s, {i \in DOMAIN s : key[i] = key[firsts[n]]})]

\* A property of merged mentions: the first mention that has it gives it.
FirstGiven(values) ==
    LET i == SelectInSeq(values, LAMBDA v : v # None)
    IN  IF i = 0 THEN None ELSE values[i]

\* The first of the most confident mentions.
MostConfident(s) ==
    s[CHOOSE i \in DOMAIN s : /\ \A j \in DOMAIN s : s[j].conf <= s[i].conf
                              /\ \A j \in 1 .. i - 1 : s[j].conf < s[i].conf]

\* extraction and support are the signals of score_op: one evidence span a mention.
MergeMentions(ms) ==
    [temp_id |-> ms[1].temp_id, name |-> ms[1].name,
     entity_type |-> MostConfident(ms).entity_type,
     description |-> FirstGiven([i \in DOMAIN ms |-> ms[i].description]),
     attr |-> FirstGiven([i \in DOMAIN ms |-> ms[i].attr]),
     extraction |-> MostConfident(ms).conf, support |-> Len(ms)]

Survivors(entities) ==
    LET groups == Groups(entities, [i \in DOMAIN entities |-> Key[entities[i].name]])
    IN  [i \in DOMAIN groups |-> MergeMentions(groups[i])]

\* alias: the survivor's temp_id for that of any mention.
Alias(entities, t) ==
    LET e == entities[SelectInSeq(entities, LAMBDA x : x.temp_id = t)]
    IN  entities[SelectInSeq(entities, LAMBDA x : Key[x.name] = Key[e.name])].temp_id

\* Fault: the predicate is no part of a relation's key.
KeyWithoutPredicate(r) == <<r.subject, r.object>>

RelationKey(r) == <<r.subject, PredicateKey[r.predicate], r.object>>

MergedRelations(g, entities, relations) ==
    LET aliased == [i \in DOMAIN relations |->
                        [relations[i] EXCEPT !.subject = Alias(entities, @),
                                             !.object = Alias(entities, @),
                                             !.predicate = NormalizePredicate(g, @)]]
        groups == Groups(aliased, [i \in DOMAIN aliased |-> RelationKey(aliased[i])])
    IN  [i \in DOMAIN groups |->
            [subject |-> groups[i][1].subject, predicate |-> groups[i][1].predicate,
             object |-> groups[i][1].object,
             valid_from |-> FirstGiven([j \in DOMAIN groups[i] |-> groups[i][j].valid_from]),
             extraction |-> MostConfident(groups[i]).conf, support |-> Len(groups[i])]]

-----------------------------------------------------------------------------
(* resolve_entity: exact name, then embedding, then the judge. *)

\* vectors.nearest: the hits that have at least this score.  Of all nodes the store
\* returns the five nearest, and which of those that are equally near is its choice.
Hits(near, score) ==
    {n \in DOMAIN near :
        near[n] >= score /\ Cardinality({x \in DOMAIN near : near[x] > near[n]}) < 5}

\* The candidates the judge is asked about; none when an earlier tier decides.
Band(near) == IF Hits(near, EMBEDDING_ACCEPT) # {} THEN {} ELSE Hits(near, EMBEDDING_REJECT)

Match(id, score, method) == [id |-> id, score |-> score, method |-> method]

ResolveEntity(g, e, answers) ==
    LET near == answers.near[e]
        said == answers.said[e]
        top == CHOOSE n \in DOMAIN near : \A x \in DOMAIN near : near[x] <= near[n]
    IN  IF FindByName(g, e.name) # {}
        THEN Match(CHOOSE n \in FindByName(g, e.name) : TRUE, 100, "rules")
        ELSE IF Hits(near, EMBEDDING_ACCEPT) # {} THEN Match(top, near[top], "embedding")
        ELSE IF Band(near) # {} THEN Match(said.id, said.score, "llm")
        ELSE Match(None, 0, "none")

\* What the store and the judge can answer.  The texts that are compared are names
\* with descriptions, which every commit may change: so each document has a table of
\* similarities of its own.  An id outside the band counts as no match (_llm_tier).
Answers(g, entities) ==
    LET mentions == {e \in ToSet(Survivors(entities)) : FindByName(g, e.name) = {}}
        near(cosine) == [e \in mentions |-> [n \in DOMAIN g.node |-> cosine[e.name][g.node[n].name]]]
        asked(f) == {e \in mentions : Band(f[e]) # {}}
        said(f) == {s \in [asked(f) -> [id : DOMAIN g.node \cup {None}, score : Confidences]] :
                        \A e \in asked(f) : s[e].id \in Band(f[e]) \cup {None}}
    IN  UNION {[near : {near(cosine)}, said : said(near(cosine))] : cosine \in Cosines}

-----------------------------------------------------------------------------
(* The ops (models/patch.py) and their preconditions. *)

Precondition(kind, subject, predicate, object, value) ==
    [kind |-> kind, subject |-> subject, predicate |-> predicate, object |-> object,
     value |-> value]
NodeExists(id) == Precondition("node_exists", id, None, None, None)
EdgeExists(id) == Precondition("edge_exists", id, None, None, None)
EdgeAbsent(s, p, o) == Precondition("edge_absent", s, p, o, None)
NameAbsent(name) == Precondition("name_absent", name, None, None, None)
PropEquals(id, value) == Precondition("prop_equals", id, None, None, value)

\* A NodeRef has exactly one of the two.
Ref(temp_id, canonical_id) == [temp_id |-> temp_id, canonical_id |-> canonical_id]
NoRef == Ref(None, None)

\* One record for all kinds, a field the kind does not have is None; with the
\* signals _add keeps beside the op.
Op(kind) ==
    [kind |-> kind, depends_on |-> {}, preconditions |-> {},
     temp_id |-> None, target |-> None, name |-> None, entity_type |-> None,
     description |-> None, attr |-> None,
     subject |-> NoRef, predicate |-> None, object |-> NoRef,
     valid_from |-> None, valid_to |-> None,
     extraction |-> 0, resolution |-> 0, new_type |-> FALSE, support |-> 1,
     semantic |-> FALSE]

\* Is s a run of statements inside t ?
Within(s, t) == \E i \in 0 .. Len(t) - Len(s) : SubSeq(t, i + 1, i + Len(s)) = s

Capped(s) == IF Len(s) > DescCap THEN SubSeq(s, 1, DescCap) ELSE s

\* Fault: the joined description is the new one alone.
NewerDescription(old, new) == new

\* Fault: a statement the description has already is joined to it again.
AppendedDescription(old, new) == Capped(old \o new)

MergedDescription(old, new) ==
    IF Within(new, old) THEN None
    ELSE IF Within(old, new) THEN Capped(new)
    ELSE Capped(old \o new)

\* _extend_props: what the node n gains from the mention e.  Only a joined
\* description notes the value it was joined with.
ExtendProps(n, record, e) ==
    LET joined == record.description # None /\ e.description # None
        merged == MergedDescription(record.description, e.description)
    IN  [description |-> IF joined THEN merged ELSE e.description,
         attr |-> IF record.attr = None THEN e.attr ELSE None,
         preconditions |-> IF joined /\ merged # None
                           THEN {PropEquals(n, record.description)} ELSE {}]

\* Fault: the folded update does not wait for the second mention's merge.
FoldWithoutDeps(op, gain, e, deps) ==
    [op EXCEPT
        !.description = IF gain.description = None THEN @
                        ELSE IF @ = None THEN gain.description
                        ELSE LET merged == MergedDescription(@, e.description)
                             IN  IF merged = None THEN @ ELSE merged,
        !.attr = IF @ = None THEN gain.attr ELSE @]

\* _propose_update, second mention of a node: folded into the node's one update,
\* whose preconditions stay those of the first mention.
FoldUpdate(op, gain, e, deps) ==
    [op EXCEPT
        !.description = IF gain.description = None THEN @
                        ELSE IF @ = None THEN gain.description
                        ELSE LET merged == MergedDescription(@, e.description)
                             IN  IF merged = None THEN @ ELSE merged,
        !.attr = IF @ = None THEN gain.attr ELSE @,
        !.depends_on = @ \cup deps]

\* Fault: an update of its own for every mention.
SeparateUpdate(ops, n, gain, e, deps, score, new_type) ==
    IF gain.description = None /\ gain.attr = None THEN ops
    ELSE Append(ops, [Op("UpdateNodeProps") EXCEPT
            !.target = n, !.depends_on = deps,
            !.description = gain.description, !.attr = gain.attr,
            !.preconditions = {NodeExists(n)} \cup gain.preconditions,
            !.extraction = e.extraction, !.resolution = score,
            !.new_type = new_type, !.support = e.support])

ProposeUpdate(ops, n, gain, e, deps, score, new_type) ==
    LET i == SelectInSeq(ops, LAMBDA o : o.kind = "UpdateNodeProps" /\ o.target = n)
    IN  IF gain.description = None /\ gain.attr = None THEN ops
        ELSE IF i # 0 THEN [ops EXCEPT ![i] = FoldUpdate(@, gain, e, deps)]
        ELSE Append(ops, [Op("UpdateNodeProps") EXCEPT
                !.target = n, !.depends_on = deps,
                !.description = gain.description, !.attr = gain.attr,
                !.preconditions = {NodeExists(n)} \cup gain.preconditions,
                !.extraction = e.extraction, !.resolution = score,
                !.new_type = new_type, !.support = e.support])

\* Fault: a create does not note that the name was free.
CreateUnguarded(e, new_type) ==
    [Op("CreateNode") EXCEPT
        !.temp_id = e.temp_id, !.name = e.name, !.entity_type = e.entity_type,
        !.description = e.description, !.attr = e.attr,
        !.extraction = e.extraction, !.resolution = 50,
        !.new_type = new_type, !.support = e.support]

\* Fault: "no match" counts as a certain answer.
CreateConfident(e, new_type) ==
    [Op("CreateNode") EXCEPT
        !.temp_id = e.temp_id, !.name = e.name, !.entity_type = e.entity_type,
        !.description = e.description, !.attr = e.attr,
        !.preconditions = {NameAbsent(e.name)},
        !.extraction = e.extraction, !.resolution = 100,
        !.new_type = new_type, !.support = e.support]

Create(e, new_type) ==
    [Op("CreateNode") EXCEPT
        !.temp_id = e.temp_id, !.name = e.name, !.entity_type = e.entity_type,
        !.description = e.description, !.attr = e.attr,
        !.preconditions = {NameAbsent(e.name)},
        !.extraction = e.extraction, !.resolution = 50,
        !.new_type = new_type, !.support = e.support]

Merge(e, match, new_type) ==
    [Op("MergeInto") EXCEPT
        !.temp_id = e.temp_id, !.target = match.id,
        !.preconditions = {NodeExists(match.id)},
        !.extraction = e.extraction, !.resolution = match.score,
        !.new_type = new_type, !.support = e.support]

\* The ops of one entity: an exact match has no op of its own, any other match a
\* MergeInto that the update of the node waits for.
EntityOps(g, ops, e, match, new_type) ==
    IF match.id = None THEN Append(ops, Create(e, new_type))
    ELSE LET gain == ExtendProps(match.id, g.node[match.id], e)
             merged == IF match.method = "rules" THEN ops
                       ELSE Append(ops, Merge(e, match, new_type))
             deps == IF match.method = "rules" THEN {} ELSE {Len(merged)}
         IN  ProposeUpdate(merged, match.id, gain, e, deps, match.score, new_type)

-----------------------------------------------------------------------------
(* correlate_relation. *)

Verdicts == {"compatible", "temporal_supersession", "semantic_conflict"}

\* Current edges with the relation's predicate and one of its canonical ends.
Colliding(g, r, s, o) ==
    {e \in EdgesFrom(g, s.canonical_id, r.predicate) : g.edge[e].object # o.canonical_id}
    \cup {e \in EdgesTo(g, o.canonical_id, r.predicate) : g.edge[e].subject # s.canonical_id}

Reinforce(r, e) ==
    [Op("ReinforceEdge") EXCEPT
        !.target = e, !.preconditions = {EdgeExists(e)},
        !.extraction = r.extraction, !.resolution = 100, !.support = r.support]

BothCanonical(s, o) == s.canonical_id # None /\ o.canonical_id # None

\* Fault: an assertion does not note that the fact was absent.
AssertUnguarded(r, s, o, deps, semantic) ==
    [Op("AssertEdge") EXCEPT
        !.depends_on = deps, !.subject = s, !.predicate = r.predicate, !.object = o,
        !.valid_from = r.valid_from,
        !.extraction = r.extraction, !.resolution = 50, !.support = r.support,
        !.semantic = semantic]

\* Fault: an assertion waits for no CreateNode.
AssertIndependent(r, s, o, deps, semantic) ==
    [Op("AssertEdge") EXCEPT
        !.subject = s, !.predicate = r.predicate, !.object = o,
        !.preconditions = IF BothCanonical(s, o)
                          THEN {EdgeAbsent(s.canonical_id, r.predicate, o.canonical_id)}
                          ELSE {},
        !.valid_from = r.valid_from,
        !.extraction = r.extraction, !.resolution = 50, !.support = r.support,
        !.semantic = semantic]

AssertFact(r, s, o, deps, semantic) ==
    [Op("AssertEdge") EXCEPT
        !.depends_on = deps, !.subject = s, !.predicate = r.predicate, !.object = o,
        !.preconditions = IF BothCanonical(s, o)
                          THEN {EdgeAbsent(s.canonical_id, r.predicate, o.canonical_id)}
                          ELSE {},
        !.valid_from = r.valid_from,
        !.extraction = r.extraction, !.resolution = 50, !.support = r.support,
        !.semantic = semantic]

Invalidate(r, e, judgment) ==
    [Op("InvalidateEdge") EXCEPT
        !.target = e, !.valid_to = IF r.valid_from # None THEN r.valid_from ELSE Today,
        !.preconditions = {EdgeExists(e)},
        !.extraction = r.extraction, !.resolution = judgment.score, !.support = r.support,
        !.semantic = (judgment.verdict = "semantic_conflict")]

\* The same fact is reinforced; otherwise it is asserted, and each edge that
\* contends with it is left, superseded or contested as the adjudicator says.
Correlate(g, r, s, o, deps, verdict) ==
    LET exact == EdgesBetween(g, s.canonical_id, o.canonical_id, r.predicate)
        judgment(e) == verdict[<<RelationKey(r), e>>]
        judged(v) == {e \in Colliding(g, r, s, o) : judgment(e).verdict = v}
        closed == SetToSeq(judged("temporal_supersession") \cup judged("semantic_conflict"))
    IN  IF exact # {} THEN <<Reinforce(r, CHOOSE e \in exact : TRUE)>>
        ELSE <<AssertFact(r, s, o, deps, judged("semantic_conflict") # {})>>
             \o [i \in DOMAIN closed |-> Invalidate(r, closed[i], judgment(closed[i]))]

-----------------------------------------------------------------------------
(* resolve_node. *)

\* refs: how an edge refers to the entity of a surviving mention.
Refers(g, entities, answers, t) ==
    LET e == entities[SelectInSeq(entities, LAMBDA x : x.temp_id = t)]
        match == ResolveEntity(g, e, answers)
    IN  IF match.id = None THEN Ref(t, None) ELSE Ref(None, match.id)

\* What the adjudicator can say of each pair of a relation and a contending edge.
Adjudications(g, candidates, answers) ==
    LET entities == Survivors(candidates.entities)
        relations == ToSet(MergedRelations(g, candidates.entities, candidates.relations))
        s(r) == Refers(g, entities, answers, r.subject)
        o(r) == Refers(g, entities, answers, r.object)
        new == {r \in relations : EdgesBetween(g, s(r).canonical_id, o(r).canonical_id,
                                               r.predicate) = {}}
    IN  [UNION {{RelationKey(r)} \X Colliding(g, r, s(r), o(r)) : r \in new} ->
            [verdict : Verdicts, score : Confidences]]

\* The ops after the first k entities.
EntityPatch(g, entities, types, answers) ==
    LET patch[k \in 0 .. Len(entities)] ==
            IF k = 0 THEN <<>>
            ELSE EntityOps(g, patch[k - 1], entities[k], ResolveEntity(g, entities[k], answers),
                           entities[k].entity_type \in types)
    IN  patch

\* What an edge waits for: the ops that create its ends (dep_of).
Creators(ops, ts) == {i \in DOMAIN ops : ops[i].kind = "CreateNode" /\ ops[i].temp_id \in ts}

\* The ops after the first k relations.  The plain assertion between two new entities
\* is Correlate with nothing to collide with.
RelationPatch(g, entities, relations, entityOps, answers, verdict) ==
    LET patch[k \in 0 .. Len(relations)] ==
            IF k = 0 THEN entityOps
            ELSE LET r == relations[k]
                 IN  patch[k - 1]
                     \o Correlate(g, r, Refers(g, entities, answers, r.subject),
                                  Refers(g, entities, answers, r.object),
                                  Creators(entityOps, {r.subject, r.object}), verdict)
    IN  patch

ResolveNode(g, candidates, answers, verdict) ==
    LET entities == Survivors(candidates.entities)
        relations == MergedRelations(g, candidates.entities, candidates.relations)
        types == NewTypes(g, candidates.entities)
        entityOps == EntityPatch(g, entities, types, answers)[Len(entities)]
    IN  RelationPatch(g, entities, relations, entityOps, answers, verdict)[Len(relations)]

\* score_route_node, one op: it gives route_op no degree.
RoutedStatus(op) ==
    LET score == Score(op.extraction, op.support, op.resolution, ~op.new_type)
        route == Route(op.kind, score, op.new_type, op.semantic, 0)
    IN  CASE route = "auto_approve" -> "approved"
          [] route = "auto_reject" -> "rejected"
          [] OTHER -> "pending"
=============================================================================
