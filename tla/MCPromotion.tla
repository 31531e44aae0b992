----------------------------- MODULE MCPromotion -----------------------------
(* Documents about a company that moves.  Canonical knows Acme and Basel and   *)
(* that Acme has had its headquarters in Basel from moment 1 on; the mention   *)
(* AcmeCorp is close to Acme, and it depends on their descriptions whether the *)
(* embedding tier is sure.  Zurich is also written with a blank behind it.     *)
EXTENDS Promotion

CONSTANTS Acme, AcmeCorp, Basel, Zurich, ZurichBlank, TheCity, Start, Sign,
          Move, Alias1, Both, Flow

Names == {Acme, AcmeCorp, Basel, Zurich, ZurichBlank, TheCity, Start, Sign}

mc_Fold == [n \in Names |-> n]
mc_Key == [n \in Names |-> IF n = ZurichBlank THEN Zurich ELSE n]
Table(close) ==
    [a \in Names |-> [b \in Names |->
        IF a = b THEN 100 ELSE IF {a, b} = {Acme, AcmeCorp} THEN close ELSE 50]]
mc_Cosines == {Table(80), Table(92)}
mc_Paraphrase == [p \in {"hq", "HQ", "seat", "owns", "FLOWS_TO"} |-> IF p = "seat" THEN "hq" ELSE None]
mc_PredicateKey ==
    [p \in {"hq", "HQ", "seat", "owns", "FLOWS_TO", "IS_A"} |-> IF p = "HQ" THEN "hq" ELSE p]

Node(name, type, description) ==
    [name |-> name, entity_type |-> type, description |-> description, attr |-> None]

mc_Graph0 ==
    [node |-> <<0, 1>> :> Node(Acme, "Company", <<"s0">>) @@ <<0, 2>> :> Node(Basel, "City", None),
     edge |-> <<0, 1>> :> [subject |-> <<0, 1>>, predicate |-> "hq", object |-> <<0, 2>>,
                           valid_from |-> 1, valid_to |-> None, support |-> 1]]

\* What the model finds in a unit of text.
E(name, type, description, attr) ==
    [name |-> name, entity_type |-> type, description |-> description, attr |-> attr, conf |-> 95]
R(subject, predicate, object, from) ==
    [subject |-> subject, predicate |-> predicate, object |-> object, valid_from |-> from,
     conf |-> 95]
Block(kind, blank, entities, relations) ==
    [kind |-> kind, blank |-> blank, unit |-> [entities |-> entities, relations |-> relations]]
Text(entities, relations) == Block("paragraph", FALSE, entities, relations)
Prose(blocks) == [elements |-> <<>>, flows |-> <<>>, blocks |-> blocks]

\* Three units say that Acme is in Zurich from moment 3 on, one with a paraphrase.
Moving(p, zurich) ==
    Text(<<E(Acme, "Company", None, None), E(zurich, "City", <<"z1">>, None),
           E(TheCity, "City", None, None)>>,
         <<R(Acme, p, zurich, 3), R(Acme, "owns", zurich, None), R(Acme, p, TheCity, None)>>)

mc_Content ==
    Move :> Prose(<<Block("heading", FALSE, <<>>, <<>>), Moving("hq", Zurich), Moving("seat", ZurichBlank),
                    Moving("HQ", Zurich)>>)
    @@ Alias1 :> Prose(<<Text(<<E(AcmeCorp, "Company", <<"s1">>, None),
                                E(Basel, "City", <<"b1">>, "a1")>>,
                              <<R(AcmeCorp, "owns", Basel, None)>>),
                         Block("paragraph", TRUE, <<>>, <<>>)>>)
    @@ Both :> Prose(<<Text(<<E(Acme, "Company", <<"s2">>, "a2"), E(AcmeCorp, "Company", <<"s3">>, None),
                              E(Basel, "City", <<"b2">>, "a3")>>,
                            <<R(Acme, "owns", Basel, 2)>>)>>)
    @@ Flow :> [elements |-> <<[id |-> Start, name |-> None, tag |-> "Task"],
                               [id |-> Sign, name |-> Sign, tag |-> "Gateway"]>>,
                flows |-> <<[source |-> Start, target |-> Sign], [source |-> Start, target |-> None]>>,
                blocks |-> <<Text(<<>>, <<>>), Text(<<E(Sign, "Task", <<"f1">>, None)>>, <<>>)>>]
=============================================================================
