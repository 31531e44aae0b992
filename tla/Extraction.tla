----------------------------- MODULE Extraction -----------------------------
(***************************************************************************)
(* From a parsed document to candidate entities and relations:             *)
(* src/kgi/decomposition/atomizer.py, src/kgi/extraction/ and              *)
(* extract_node.  What the language model answers for a unit of text is    *)
(* given with the document (Content); here is what the code makes of it.   *)
(***************************************************************************)
EXTENDS CanonicalReads, SequencesExt

CONSTANTS
    Content,    \* document -> [elements, flows, blocks]: its BPMN elements and flows
                \* (none in prose), its blocks, what the model extracts from each
    SeedTypes,  \* the entity types of the seed ontology
    Unnamed     \* the names _is_unnamed calls pronouns or generic references

\* The answers are schema-checked (models/candidates.py): a confidence is a percentage.
EntityAnswers ==
    [name : EntityNames, entity_type : Labels, description : Descriptions, attr : Values,
     conf : 0 .. 100]
RelationAnswers ==
    [subject : EntityNames, predicate : Labels, object : EntityNames, valid_from : Dates,
     conf : 0 .. 100]
UnitAnswers == [entities : Seq(EntityAnswers), relations : Seq(RelationAnswers)]
Blocks == [kind : STRING, blank : BOOLEAN, unit : UnitAnswers]
Elements == [id : EntityNames, name : EntityNames \cup {None}, tag : Labels]
Flows == [source : EntityNames \cup {None}, target : EntityNames \cup {None}]
Documents == [elements : Seq(Elements), flows : Seq(Flows), blocks : Seq(Blocks)]

ASSUME ContentAssumption == Content \in [DOMAIN Content -> Documents]

\* A candidate is known by its temp_id: <<unit, place>>, unit 0 being the
\* ground-truth triples.  Each mention carries one evidence span.
Entity(temp_id, name, type, description, attr, conf) ==
    [temp_id |-> temp_id, name |-> name, entity_type |-> type,
     description |-> description, attr |-> attr, conf |-> conf]

Relation(s, p, o, valid_from, conf) ==
    [subject |-> s, predicate |-> p, object |-> o, valid_from |-> valid_from, conf |-> conf]

\* The elements of s at the places in P, in their order.
Picked(s, P) ==
    LET upTo[i \in 0 .. Len(s)] ==
            IF i = 0 THEN <<>>
            ELSE IF i \in P THEN Append(upTo[i - 1], s[i]) ELSE upTo[i - 1]
    IN  upTo[Len(s)]

\* decompose: headings travel as context, blank blocks say nothing.
Units(d) ==
    LET blocks == Content[d].blocks
    IN  Picked(blocks, {i \in DOMAIN blocks : blocks[i].kind # "heading" /\ ~blocks[i].blank})

-----------------------------------------------------------------------------
(* extract_unit. *)

\* by_name: of two entities of one name, the relations mean the last.
Mention(unit, name) == SelectLastInSeq(unit.entities, LAMBDA e : e.name = name)

UnitEntities(unit, k) ==
    [i \in DOMAIN unit.entities |->
        LET e == unit.entities[i]
        IN  Entity(<<k, i>>, e.name, e.entity_type, e.description, e.attr, e.conf)]

UnitRelations(unit, k) ==
    LET said == unit.relations
        both == Picked(said, {i \in DOMAIN said : /\ Mention(unit, said[i].subject) # 0
                                                  /\ Mention(unit, said[i].object) # 0})
    IN  [i \in DOMAIN both |->
            Relation(<<k, Mention(unit, both[i].subject)>>, both[i].predicate,
                     <<k, Mention(unit, both[i].object)>>, both[i].valid_from, both[i].conf)]

DropUnnamed(entities, relations) ==
    LET dropped == {e.temp_id : e \in {x \in ToSet(entities) : x.name \in Unnamed}}
    IN  [entities |-> Picked(entities,
                             {i \in DOMAIN entities : entities[i].temp_id \notin dropped}),
         relations |-> Picked(relations,
                              {i \in DOMAIN relations :
                                {relations[i].subject, relations[i].object} \cap dropped = {}})]

ExtractUnit(unit, k) == DropUnnamed(UnitEntities(unit, k), UnitRelations(unit, k))

-----------------------------------------------------------------------------
(* BpmnParser.parse and ground_truth_candidates: no model involved. *)

\* An element without a name is known by its id; a flow needs both of its ends.
ElementName(x, id) ==
    LET i == SelectLastInSeq(x.elements, LAMBDA e : e.id = id)
    IN  IF i = 0 \/ x.elements[i].name = None THEN id ELSE x.elements[i].name

Triples(x) ==
    LET flows == Picked(x.flows, {i \in DOMAIN x.flows : /\ x.flows[i].source # None
                                                          /\ x.flows[i].target # None})
    IN  [i \in DOMAIN x.elements |->
            [subject |-> ElementName(x, x.elements[i].id), predicate |-> "IS_A",
             object |-> x.elements[i].tag]]
        \o [i \in DOMAIN flows |->
            [subject |-> ElementName(x, flows[i].source), predicate |-> "FLOWS_TO",
             object |-> ElementName(x, flows[i].target)]]

\* _ensure_entity: the first triple that mentions a name gives its type.
EnsureEntity(entities, name, type) ==
    IF \E i \in DOMAIN entities : entities[i].name = name THEN entities
    ELSE Append(entities, Entity(<<0, Len(entities) + 1>>, name, type, None, None, 100))

\* The entities after the first k of a sequence of names with the types they suggest.
Ensured(mentions) ==
    LET ensured[k \in 0 .. Len(mentions)] ==
            IF k = 0 THEN <<>>
            ELSE EnsureEntity(ensured[k - 1], mentions[k].name, mentions[k].type)
    IN  ensured

Suggests(name, type) == [name |-> name, type |-> type]

GroundTruth(triples) ==
    LET isA == Picked(triples, {i \in DOMAIN triples : triples[i].predicate = "IS_A"})
        structural == Picked(triples, {i \in DOMAIN triples : triples[i].predicate # "IS_A"})
        mentions == [i \in DOMAIN isA |-> Suggests(isA[i].subject, isA[i].object)]
                    \o FlattenSeq([i \in DOMAIN structural |->
                                    <<Suggests(structural[i].subject, "Concept"),
                                      Suggests(structural[i].object, "Concept")>>])
        all == Ensured(mentions)[Len(mentions)]
        temp(name) == all[SelectInSeq(all, LAMBDA e : e.name = name)].temp_id
    IN  [entities |-> all,
         relations |-> [i \in DOMAIN structural |->
            Relation(temp(structural[i].subject), structural[i].predicate,
                     temp(structural[i].object), None, 100)]]

-----------------------------------------------------------------------------
\* extract_node: all candidates of a document, the ground truth first.
Extract(d) ==
    LET truth == GroundTruth(Triples(Content[d]))
        units == Units(d)
        found == [k \in DOMAIN units |-> ExtractUnit(units[k].unit, k)]
    IN  [entities |-> truth.entities \o FlattenSeq([k \in DOMAIN found |-> found[k].entities]),
         relations |-> truth.relations \o FlattenSeq([k \in DOMAIN found |-> found[k].relations])]

\* Types that were never approved, in the seed ontology or in canonical.
NewTypes(g, entities) ==
    {e.entity_type : e \in ToSet(entities)} \ (SeedTypes \cup KnownEntityTypes(g))
=============================================================================
