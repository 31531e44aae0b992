-------------------------- MODULE PromotionProofs --------------------------
(***************************************************************************)
(* What canonical is after any number of documents were promoted to it,    *)
(* for every content, every answer of the model and every decision of the  *)
(* reviewer.  PatchProofs says what a patch is when it is diffed; here     *)
(* IInv says what is left of that when it is committed, after others.      *)
(***************************************************************************)
EXTENDS Promotion, PatchProofs

-----------------------------------------------------------------------------
(* Graphs that follow each other. *)

Distinct(g) ==
    \A m, n \in DOMAIN g.node : Fold[g.node[m].name] = Fold[g.node[n].name] => m = n

\* The edge x waited for nothing its own patch introduces (ps: the patches).
Guarded(ps, x) ==
    x[1] # 0 => BothCanonical(ps[x[1]].ops[x[2]].subject, ps[x[1]].ops[x[2]].object)

NoTwins(g, ps) ==
    \A e, f \in CurrentEdges(g) :
        Fact(g, e) = Fact(g, f) /\ Guarded(ps, e) /\ Guarded(ps, f) => e = f

\* h has what g has: names and facts stay, an edge that was closed stays closed.
Grows(g, h) ==
    /\ DOMAIN g.node \subseteq DOMAIN h.node
    /\ DOMAIN g.edge \subseteq DOMAIN h.edge
    /\ \A n \in DOMAIN g.node : h.node[n].name = g.node[n].name
    /\ \A e \in DOMAIN g.edge :
        /\ Fact(h, e) = Fact(g, e)
        /\ h.edge[e].valid_from = g.edge[e].valid_from
        /\ g.edge[e].valid_to # None => h.edge[e].valid_to = g.edge[e].valid_to

\* and only this id more.
Mints(g, h, id) ==
    /\ DOMAIN h.node \subseteq DOMAIN g.node \cup {id}
    /\ DOMAIN h.edge \subseteq DOMAIN g.edge \cup {id}

\* What a committed op leaves in the graph.
Effect(g, p, i, op) ==
    /\ op.kind = "CreateNode" => <<p, i>> \in DOMAIN g.node
    /\ op.kind = "AssertEdge" => /\ <<p, i>> \in DOMAIN g.edge
                                 /\ g.edge[<<p, i>>].valid_from = op.valid_from
    /\ op.kind = "InvalidateEdge" => /\ op.target \in DOMAIN g.edge
                                     /\ g.edge[op.target].valid_to = op.valid_to
                                     /\ op.valid_to \in Nat

\* One op was applied to g, ps[p].ops[i] being the op.
Applied(g, h, ps, p, i, op) ==
    /\ GraphOK(h)
    /\ Grows(g, h)
    /\ Mints(g, h, <<p, i>>)
    /\ Effect(h, p, i, op)
    /\ Distinct(g) => Distinct(h)
    /\ NoTwins(g, ps) => NoTwins(h, ps)

LEMMA EffectGrows ==
    ASSUME NEW g, NEW h, Grows(g, h), NEW p, NEW i, NEW op, Effect(g, p, i, op)
    PROVE  Effect(h, p, i, op)
<1>1. None \notin Nat
  BY NoneAssumption
<1>2. QED
  BY <1>1 DEF Effect, Grows

\* A graph with other nodes.
NodesChanged(g, h, nodes) ==
    /\ DOMAIN h = DOMAIN g /\ h.node = nodes /\ h.edge = g.edge

LEMMA NodesChange ==
    ASSUME NEW g, GraphOK(g), NEW h, NEW nodes, NodesChanged(g, h, nodes),
           DOMAIN g.node \subseteq DOMAIN nodes, DOMAIN nodes \subseteq Ids,
           nodes \in [DOMAIN nodes ->
            [name : EntityNames, entity_type : Labels, description : Descriptions, attr : Values]],
           \A n \in DOMAIN g.node : nodes[n].name = g.node[n].name,
           NEW id, DOMAIN nodes \subseteq DOMAIN g.node \cup {id}
    PROVE  /\ GraphOK(h) /\ Grows(g, h) /\ Mints(g, h, id)
           /\ CurrentEdges(h) = CurrentEdges(g)
           /\ \A e \in DOMAIN g.edge : Fact(h, e) = Fact(g, e)
<1>1. \A e \in DOMAIN g.edge :
        g.edge[e] \in [subject : DOMAIN nodes, predicate : Labels, object : DOMAIN nodes,
             valid_from : Dates, valid_to : Dates, support : Nat \ {0}]
  <2> TAKE e \in DOMAIN g.edge
  <2>1. g.edge[e] \in [subject : DOMAIN g.node, predicate : Labels, object : DOMAIN g.node,
             valid_from : Dates, valid_to : Dates, support : Nat \ {0}]
    BY DEF GraphOK, IsGraph
  <2>2. QED
    BY <2>1
<1>2. GraphOK(h)
  <2>1. g.edge \in [DOMAIN g.edge ->
            [subject : DOMAIN nodes, predicate : Labels, object : DOMAIN nodes,
             valid_from : Dates, valid_to : Dates, support : Nat \ {0}]]
    BY <1>1 DEF GraphOK, IsGraph
  <2>2. QED
    BY <2>1 DEF NodesChanged, GraphOK, IsGraph
<1>3. /\ CurrentEdges(h) = CurrentEdges(g)
      /\ \A e \in DOMAIN g.edge : Fact(h, e) = Fact(g, e)
  BY DEF NodesChanged, CurrentEdges, Fact
<1>4. Grows(g, h) /\ Mints(g, h, id)
  BY <1>3 DEF NodesChanged, Grows, Mints
<1>5. QED
  BY <1>2, <1>3, <1>4

\* k is f with v for x.
Extended(k, f, D, R, x, v) ==
    /\ DOMAIN k = D \cup {x}
    /\ k \in [D \cup {x} -> R]
    /\ k[x] = v
    /\ \A y \in D : y # x => k[y] = f[y]

LEMMA PutOK ==
    ASSUME NEW R, NEW D, NEW f \in [D -> R], NEW x, NEW v \in R
    PROVE  Extended(Put(f, x, v), f, D, R, x, v)
  BY DEF Put, Extended

LEMMA SameFacts ==
    ASSUME NEW g, NEW h, NEW ps, NoTwins(g, ps), CurrentEdges(h) \subseteq CurrentEdges(g),
           \A e \in DOMAIN g.edge : Fact(h, e) = Fact(g, e)
    PROVE  NoTwins(h, ps)
<1>1. CurrentEdges(g) \subseteq DOMAIN g.edge
  BY DEF CurrentEdges
<1>2. QED
  BY <1>1 DEF NoTwins

LEMMA CreateApplied ==
    ASSUME NEW g, GraphOK(g), NEW p \in Nat, NEW i \in Nat, <<p, i>> \notin DOMAIN g.node,
           NEW ops, NEW ps, NEW op, op = ops[i], op.kind = "CreateNode", NEW base, CreateSound(base, op),
           FindByName(g, op.name) = {},
           NEW h, h = ApplyOp(g, p, ops, i)
    PROVE  Applied(g, h, ps, p, i, op)
<1> DEFINE R == [name : EntityNames, entity_type : Labels, description : Descriptions,
                 attr : Values]
           v == [name |-> op.name, entity_type |-> op.entity_type,
                 description |-> op.description, attr |-> op.attr]
           id == <<p, i>>
           nodes == Put(g.node, id, v)
<1>1. h = [g EXCEPT !.node = nodes]
  BY DEF ApplyOp
<1>2. NodesChanged(g, h, nodes)
  <2>1. DOMAIN g = {"node", "edge"}
    BY DEF GraphOK, IsGraph
  <2> HIDE DEF nodes
  <2>2. QED
    BY <1>1, <2>1 DEF NodesChanged
<1>3. v \in R
  BY DEF CreateSound
<1>4. g.node \in [DOMAIN g.node -> R] /\ id \in Ids /\ DOMAIN g.node \subseteq Ids
  BY DEF GraphOK, IsGraph, Ids
<1> HIDE DEF R, v, id
<1>5. /\ DOMAIN nodes = DOMAIN g.node \cup {id}
      /\ nodes \in [DOMAIN g.node \cup {id} -> R]
      /\ nodes[id] = v
      /\ \A n \in DOMAIN g.node : nodes[n] = g.node[n]
  <2>1. id \notin DOMAIN g.node
    BY DEF id
  <2>2. Extended(nodes, g.node, DOMAIN g.node, R, id, v)
    BY <1>3, <1>4, PutOK
  <2> HIDE DEF nodes
  <2>3. QED
    BY <2>1, <2>2 DEF Extended
<1> HIDE DEF nodes
<1>6. /\ GraphOK(h) /\ Grows(g, h) /\ Mints(g, h, id)
      /\ CurrentEdges(h) = CurrentEdges(g)
      /\ \A e \in DOMAIN g.edge : Fact(h, e) = Fact(g, e)
  BY <1>2, <1>4, <1>5, NodesChange DEF R
<1>7. Effect(h, p, i, op)
  BY <1>2, <1>5 DEF Effect, NodesChanged, id
<1>8. ASSUME Distinct(g) PROVE Distinct(h)
  <2>1. \A n \in DOMAIN g.node : Fold[g.node[n].name] # Fold[v.name]
    BY DEF FindByName, v
  <2>2. QED
    BY <1>2, <1>5, <1>8, <2>1 DEF NodesChanged, Distinct
<1>9. NoTwins(g, ps) => NoTwins(h, ps)
  BY <1>6, SameFacts
<1>10. QED
  BY <1>6, <1>7, <1>8, <1>9 DEF Applied, id

LEMMA UpdateApplied ==
    ASSUME NEW g, GraphOK(g), NEW p, NEW i,
           NEW ops, NEW ps, NEW op, op = ops[i], op.kind = "UpdateNodeProps",
           op.description \in Descriptions, op.attr \in Values, op.target \in DOMAIN g.node,
           NEW h, h = ApplyOp(g, p, ops, i)
    PROVE  Applied(g, h, ps, p, i, op)
<1> DEFINE R == [name : EntityNames, entity_type : Labels, description : Descriptions,
                 attr : Values]
           t == op.target
           description == Given(op.description, g.node[t].description)
           attr == Given(op.attr, g.node[t].attr)
           nodes == [[g.node EXCEPT ![t].description = description] EXCEPT ![t].attr = attr]
<1>1. g.node \in [DOMAIN g.node -> R] /\ DOMAIN g.node \subseteq Ids /\ DOMAIN g = {"node", "edge"}
  BY DEF GraphOK, IsGraph
<1>2. g.node[t] \in R /\ description \in Descriptions /\ attr \in Values
  <2>1. g.node[t] \in R
    BY <1>1
  <2>2. QED
    BY <2>1 DEF Given
<1>3. h = [[g EXCEPT !.node[t].description = Given(op.description, @)]
                EXCEPT !.node[t].attr = Given(op.attr, @)]
  BY DEF ApplyOp
<1>4. h.node = nodes /\ h.edge = g.edge /\ DOMAIN h = DOMAIN g
  BY <1>1, <1>2, <1>3
<1> HIDE DEF description, attr
<1>5. /\ DOMAIN nodes = DOMAIN g.node /\ nodes \in [DOMAIN g.node -> R]
      /\ \A n \in DOMAIN g.node : nodes[n].name = g.node[n].name
  <2>1. [[g.node[t] EXCEPT !.description = description] EXCEPT !.attr = attr] \in R
    BY <1>2
  <2>2. [[g.node[t] EXCEPT !.description = description] EXCEPT !.attr = attr].name = g.node[t].name
    BY <1>2
  <2>3. nodes = [g.node EXCEPT ![t] =
                    [[g.node[t] EXCEPT !.description = description] EXCEPT !.attr = attr]]
    BY <1>1
  <2> HIDE DEF R, nodes
  <2>4. QED
    BY <1>1, <2>1, <2>2, <2>3
<1> HIDE DEF nodes, t
<1>6. NodesChanged(g, h, nodes)
  BY <1>4 DEF NodesChanged
<1>7. /\ GraphOK(h) /\ Grows(g, h) /\ Mints(g, h, <<p, i>>)
      /\ CurrentEdges(h) = CurrentEdges(g)
      /\ \A e \in DOMAIN g.edge : Fact(h, e) = Fact(g, e)
  BY <1>1, <1>5, <1>6, NodesChange
<1>8. Effect(h, p, i, op)
  BY DEF Effect
<1>9. Distinct(g) => Distinct(h)
  BY <1>4, <1>5 DEF Distinct
<1>10. NoTwins(g, ps) => NoTwins(h, ps)
  BY <1>7, SameFacts
<1>11. QED
  BY <1>7, <1>8, <1>9, <1>10 DEF Applied

LEMMA MergeApplied ==
    ASSUME NEW g, GraphOK(g), NEW p, NEW i,
           NEW ops, NEW ps, NEW op, op = ops[i], op.kind = "MergeInto",
           NEW h, h = ApplyOp(g, p, ops, i)
    PROVE  Applied(g, h, ps, p, i, op)
<1>1. h = g
  BY DEF ApplyOp
<1>2. QED
  BY <1>1 DEF Applied, Grows, Mints, Effect

EdgesTyped(nodes, edges) ==
    edges \in [DOMAIN edges -> [subject : nodes, predicate : Labels, object : nodes,
                                valid_from : Dates, valid_to : Dates, support : Nat \ {0}]]

\* A graph with other edges.
EdgesChanged(g, h, edges) ==
    /\ DOMAIN h = DOMAIN g /\ h.node = g.node /\ h.edge = edges

LEMMA EdgesChange ==
    ASSUME NEW g, GraphOK(g), NEW h, NEW edges, EdgesChanged(g, h, edges),
           DOMAIN g.edge \subseteq DOMAIN edges, DOMAIN edges \subseteq Ids,
           IsFiniteSet(DOMAIN edges),
           EdgesTyped(DOMAIN g.node, edges),
           \A e \in DOMAIN g.edge :
                /\ edges[e].subject = g.edge[e].subject
                /\ edges[e].predicate = g.edge[e].predicate
                /\ edges[e].object = g.edge[e].object
                /\ edges[e].valid_from = g.edge[e].valid_from
                /\ g.edge[e].valid_to # None => edges[e].valid_to = g.edge[e].valid_to,
           NEW id, DOMAIN edges \subseteq DOMAIN g.edge \cup {id}
    PROVE  /\ GraphOK(h) /\ Grows(g, h) /\ Mints(g, h, id)
           /\ Distinct(g) => Distinct(h)
           /\ \A e \in DOMAIN g.edge : Fact(h, e) = Fact(g, e)
           /\ CurrentEdges(h) \subseteq CurrentEdges(g) \cup {id}
<1>1. GraphOK(h)
  BY DEF GraphOK, IsGraph, EdgesChanged, EdgesTyped
<1>2. \A e \in DOMAIN g.edge : Fact(h, e) = Fact(g, e)
  BY DEF EdgesChanged, Fact
<1>3. Grows(g, h) /\ Mints(g, h, id) /\ (Distinct(g) => Distinct(h))
  BY <1>2 DEF EdgesChanged, Grows, Mints, Distinct
<1>4. CurrentEdges(h) \subseteq CurrentEdges(g) \cup {id}
  BY DEF EdgesChanged, CurrentEdges
<1>5. QED
  BY <1>1, <1>2, <1>3, <1>4

LEMMA AssertApplied ==
    ASSUME NEW g, GraphOK(g), NEW p \in Nat \ {0}, NEW i \in Nat, <<p, i>> \notin DOMAIN g.edge,
           NEW ops, NEW ps, NEW op, op = ops[i], op.kind = "AssertEdge",
           ps[p].ops = ops,
           op.predicate \in Labels, op.valid_from \in Dates,
           Resolved(p, ops, op.subject) \in DOMAIN g.node,
           Resolved(p, ops, op.object) \in DOMAIN g.node,
           BothCanonical(op.subject, op.object) =>
                EdgesBetween(g, op.subject.canonical_id, op.object.canonical_id, op.predicate) = {},
           NEW h, h = ApplyOp(g, p, ops, i)
    PROVE  Applied(g, h, ps, p, i, op)
<1> DEFINE R == [subject : DOMAIN g.node, predicate : Labels, object : DOMAIN g.node,
                 valid_from : Dates, valid_to : Dates, support : Nat \ {0}]
           s == Resolved(p, ops, op.subject)
           o == Resolved(p, ops, op.object)
           v == [subject |-> s, predicate |-> op.predicate, object |-> o,
                 valid_from |-> op.valid_from, valid_to |-> None, support |-> 1]
           id == <<p, i>>
           edges == Put(g.edge, id, v)
<1>1. h = [g EXCEPT !.edge = edges]
  BY DEF ApplyOp
<1>2. EdgesChanged(g, h, edges)
  <2>1. DOMAIN g = {"node", "edge"}
    BY DEF GraphOK, IsGraph
  <2> HIDE DEF edges
  <2>2. QED
    BY <1>1, <2>1 DEF EdgesChanged
<1>3. v \in R
  BY DEF Dates
<1>4. /\ g.edge \in [DOMAIN g.edge -> R] /\ id \in Ids /\ DOMAIN g.edge \subseteq Ids
      /\ IsFiniteSet(DOMAIN g.edge)
  BY DEF GraphOK, IsGraph, Ids
<1>5. /\ v.subject = s /\ v.predicate = op.predicate /\ v.object = o
      /\ v.valid_from = op.valid_from
  OBVIOUS
<1>6. s = IF op.subject.canonical_id # None THEN op.subject.canonical_id ELSE s
  BY DEF Resolved
<1>7. o = IF op.object.canonical_id # None THEN op.object.canonical_id ELSE o
  BY DEF Resolved
<1> HIDE DEF R, v, id, s, o
<1>8. /\ DOMAIN edges = DOMAIN g.edge \cup {id}
      /\ edges \in [DOMAIN g.edge \cup {id} -> R]
      /\ edges[id] = v
      /\ \A e \in DOMAIN g.edge : edges[e] = g.edge[e]
  <2>1. id \notin DOMAIN g.edge
    BY DEF id
  <2>2. Extended(edges, g.edge, DOMAIN g.edge, R, id, v)
    BY <1>3, <1>4, PutOK
  <2> HIDE DEF edges
  <2>3. QED
    BY <2>1, <2>2 DEF Extended
<1> HIDE DEF edges
<1>9. IsFiniteSet(DOMAIN edges)
  BY <1>4, <1>8, FS_AddElement
<1>10. EdgesTyped(DOMAIN g.node, edges)
  BY <1>8 DEF EdgesTyped, R
<1>11. /\ GraphOK(h) /\ Grows(g, h) /\ Mints(g, h, id)
       /\ Distinct(g) => Distinct(h)
       /\ \A e \in DOMAIN g.edge : Fact(h, e) = Fact(g, e)
       /\ CurrentEdges(h) \subseteq CurrentEdges(g) \cup {id}
  BY <1>2, <1>4, <1>8, <1>9, <1>10, EdgesChange
<1>12. Effect(h, p, i, op)
  BY <1>2, <1>5, <1>8 DEF Effect, EdgesChanged, id
<1>13. Fact(h, id) = <<s, op.predicate, o>>
  BY <1>2, <1>5, <1>8 DEF EdgesChanged, Fact
<1>14. ASSUME NEW e \in CurrentEdges(g), Fact(h, e) = Fact(h, id), Guarded(ps, id)
       PROVE  FALSE
  <2>1. BothCanonical(op.subject, op.object)
    <3>1. id[1] = p /\ id[2] = i
      BY DEF id
    <3>2. QED
      BY <1>14, <3>1 DEF Guarded
  <2>2. e \in DOMAIN g.edge
    BY DEF CurrentEdges
  <2>3. Fact(g, e) = <<s, op.predicate, o>>
    BY <1>11, <1>13, <1>14, <2>2
  <2>4. s = op.subject.canonical_id /\ o = op.object.canonical_id
    BY <1>6, <1>7, <2>1 DEF BothCanonical
  <2>5. e \in EdgesBetween(g, op.subject.canonical_id, op.object.canonical_id, op.predicate)
    BY <2>3, <2>4 DEF EdgesBetween, EdgesFrom, EdgesTo, Fact
  <2>6. QED
    BY <2>1, <2>5
<1>15. ASSUME NoTwins(g, ps) PROVE NoTwins(h, ps)
  <2> SUFFICES ASSUME NEW e \in CurrentEdges(h), NEW f \in CurrentEdges(h),
                      Fact(h, e) = Fact(h, f), Guarded(ps, e), Guarded(ps, f)
               PROVE  e = f
    BY DEF NoTwins
  <2>1. CurrentEdges(g) \subseteq DOMAIN g.edge
    BY DEF CurrentEdges
  <2>2. CASE e \in CurrentEdges(g) /\ f \in CurrentEdges(g)
    BY <1>11, <1>15, <2>1, <2>2 DEF NoTwins
  <2>3. CASE e = id \/ f = id
    BY <1>11, <1>14, <2>3
  <2>4. QED
    BY <1>11, <2>2, <2>3
<1>16. QED
  BY <1>11, <1>12, <1>15 DEF Applied, id

\* One edge changes, in its end or its support.
LEMMA OneEdgeChanged ==
    ASSUME NEW g, GraphOK(g), NEW t \in CurrentEdges(g),
           NEW record, record \in [subject : DOMAIN g.node, predicate : Labels,
                                   object : DOMAIN g.node, valid_from : Dates,
                                   valid_to : Dates, support : Nat \ {0}],
           record.subject = g.edge[t].subject, record.predicate = g.edge[t].predicate,
           record.object = g.edge[t].object, record.valid_from = g.edge[t].valid_from,
           NEW edges, edges = [g.edge EXCEPT ![t] = record],
           NEW h, EdgesChanged(g, h, edges), NEW id, NEW ps
    PROVE  /\ GraphOK(h) /\ Grows(g, h) /\ Mints(g, h, id)
           /\ Distinct(g) => Distinct(h)
           /\ NoTwins(g, ps) => NoTwins(h, ps)
           /\ t \in DOMAIN h.edge /\ h.edge[t] = record
<1> DEFINE R == [subject : DOMAIN g.node, predicate : Labels, object : DOMAIN g.node,
                 valid_from : Dates, valid_to : Dates, support : Nat \ {0}]
<1>1. /\ g.edge \in [DOMAIN g.edge -> R] /\ DOMAIN g.edge \subseteq Ids
      /\ IsFiniteSet(DOMAIN g.edge)
  BY DEF GraphOK, IsGraph
<1>2. t \in DOMAIN g.edge /\ g.edge[t].valid_to = None
  BY DEF CurrentEdges
<1>3. record \in R
  OBVIOUS
<1> HIDE DEF R
<1>4. /\ DOMAIN edges = DOMAIN g.edge /\ edges \in [DOMAIN g.edge -> R]
      /\ edges[t] = record /\ \A e \in DOMAIN g.edge : e # t => edges[e] = g.edge[e]
  BY <1>1, <1>2, <1>3
<1>5. \A e \in DOMAIN g.edge :
            /\ edges[e].subject = g.edge[e].subject
            /\ edges[e].predicate = g.edge[e].predicate
            /\ edges[e].object = g.edge[e].object
            /\ edges[e].valid_from = g.edge[e].valid_from
            /\ g.edge[e].valid_to # None => edges[e].valid_to = g.edge[e].valid_to
  BY <1>2, <1>4
<1>6. EdgesTyped(DOMAIN g.node, edges)
  BY <1>4 DEF EdgesTyped, R
<1>7. /\ GraphOK(h) /\ Grows(g, h) /\ Mints(g, h, id)
      /\ Distinct(g) => Distinct(h)
      /\ \A e \in DOMAIN g.edge : Fact(h, e) = Fact(g, e)
  BY <1>1, <1>4, <1>5, <1>6, EdgesChange
<1>8. CurrentEdges(h) \subseteq CurrentEdges(g)
  BY <1>2, <1>4 DEF CurrentEdges, EdgesChanged
<1>9. NoTwins(g, ps) => NoTwins(h, ps)
  BY <1>7, <1>8, SameFacts
<1>10. QED
  BY <1>2, <1>4, <1>7, <1>9 DEF EdgesChanged

LEMMA InvalidateApplied ==
    ASSUME NEW g, GraphOK(g), NEW p, NEW i,
           NEW ops, NEW ps, NEW op, op = ops[i], op.kind = "InvalidateEdge",
           op.valid_to \in Nat, op.target \in CurrentEdges(g),
           NEW h, h = ApplyOp(g, p, ops, i)
    PROVE  Applied(g, h, ps, p, i, op)
<1>1. PICK t \in CurrentEdges(g) : t = op.target
  OBVIOUS
<1> DEFINE record == [g.edge[t] EXCEPT !.valid_to = op.valid_to]
           edges == [g.edge EXCEPT ![t] = record]
<1>2. h = [g EXCEPT !.edge[t].valid_to = op.valid_to]
  BY <1>1 DEF ApplyOp
<1>3. DOMAIN g = {"node", "edge"} /\ t \in DOMAIN g.edge
  BY DEF GraphOK, IsGraph, CurrentEdges
<1>4. h = [g EXCEPT !.edge = edges]
  BY <1>2
<1>5. g.edge[t] \in [subject : DOMAIN g.node, predicate : Labels,
                     object : DOMAIN g.node, valid_from : Dates,
                     valid_to : Dates, support : Nat \ {0}]
  BY <1>3 DEF GraphOK, IsGraph
<1>6. /\ record \in [subject : DOMAIN g.node, predicate : Labels,
                     object : DOMAIN g.node, valid_from : Dates,
                     valid_to : Dates, support : Nat \ {0}]
      /\ record.subject = g.edge[t].subject /\ record.predicate = g.edge[t].predicate
      /\ record.object = g.edge[t].object /\ record.valid_from = g.edge[t].valid_from
      /\ record.valid_to = op.valid_to
  BY <1>5 DEF Dates
<1> HIDE DEF record
<1>7. EdgesChanged(g, h, edges)
  <2> HIDE DEF edges
  <2>1. QED
    BY <1>3, <1>4 DEF EdgesChanged
<1>8. /\ GraphOK(h) /\ Grows(g, h) /\ Mints(g, h, <<p, i>>)
      /\ Distinct(g) => Distinct(h)
      /\ NoTwins(g, ps) => NoTwins(h, ps)
      /\ t \in DOMAIN h.edge /\ h.edge[t] = record
  BY <1>6, <1>7, OneEdgeChanged
<1>9. Effect(h, p, i, op)
  BY <1>1, <1>6, <1>8 DEF Effect
<1>10. QED
  BY <1>8, <1>9 DEF Applied

LEMMA ReinforceApplied ==
    ASSUME NEW g, GraphOK(g), NEW p, NEW i,
           NEW ops, NEW ps, NEW op, op = ops[i], op.kind = "ReinforceEdge",
           op.target \in CurrentEdges(g),
           NEW h, h = ApplyOp(g, p, ops, i)
    PROVE  Applied(g, h, ps, p, i, op)
<1>1. PICK t \in CurrentEdges(g) : t = op.target
  OBVIOUS
<1> DEFINE record == [g.edge[t] EXCEPT !.support = @ + 1]
           edges == [g.edge EXCEPT ![t] = record]
<1>2. h = [g EXCEPT !.edge[t].support = @ + 1]
  BY <1>1 DEF ApplyOp
<1>3. DOMAIN g = {"node", "edge"} /\ t \in DOMAIN g.edge
  BY DEF GraphOK, IsGraph, CurrentEdges
<1>4. h = [g EXCEPT !.edge = edges]
  BY <1>2, <1>3
<1>5. g.edge[t] \in [subject : DOMAIN g.node, predicate : Labels,
                     object : DOMAIN g.node, valid_from : Dates,
                     valid_to : Dates, support : Nat \ {0}]
  BY <1>3 DEF GraphOK, IsGraph
<1>6. /\ record \in [subject : DOMAIN g.node, predicate : Labels,
                     object : DOMAIN g.node, valid_from : Dates,
                     valid_to : Dates, support : Nat \ {0}]
      /\ record.subject = g.edge[t].subject /\ record.predicate = g.edge[t].predicate
      /\ record.object = g.edge[t].object /\ record.valid_from = g.edge[t].valid_from
  BY <1>5
<1> HIDE DEF record
<1>7. EdgesChanged(g, h, edges)
  <2> HIDE DEF edges
  <2>1. QED
    BY <1>3, <1>4 DEF EdgesChanged
<1>8. /\ GraphOK(h) /\ Grows(g, h) /\ Mints(g, h, <<p, i>>)
      /\ Distinct(g) => Distinct(h)
      /\ NoTwins(g, ps) => NoTwins(h, ps)
  BY <1>6, <1>7, OneEdgeChanged
<1>9. Effect(h, p, i, op)
  BY DEF Effect
<1>10. QED
  BY <1>8, <1>9 DEF Applied

-----------------------------------------------------------------------------
(* The guard of an op, and the nodes its edge joins. *)

Held(g, op) == \A pre \in op.preconditions : Holds(g, pre)

LEMMA HeldNodeExists ==
    ASSUME NEW g, NEW op, Held(g, op), NEW id, NodeExists(id) \in op.preconditions
    PROVE  id \in DOMAIN g.node
  BY DEF Held, Holds, NodeExists, Precondition

LEMMA HeldEdgeExists ==
    ASSUME NEW g, NEW op, Held(g, op), NEW id, EdgeExists(id) \in op.preconditions
    PROVE  id \in CurrentEdges(g)
  BY DEF Held, Holds, EdgeExists, Precondition

LEMMA HeldNameAbsent ==
    ASSUME NEW g, NEW op, Held(g, op), NEW name, NameAbsent(name) \in op.preconditions
    PROVE  FindByName(g, name) = {}
  BY DEF Held, Holds, NameAbsent, Precondition

LEMMA HeldEdgeAbsent ==
    ASSUME NEW g, NEW op, Held(g, op), NEW s, NEW p, NEW o,
           EdgeAbsent(s, p, o) \in op.preconditions
    PROVE  EdgesBetween(g, s, o, p) = {}
  BY DEF Held, Holds, EdgeAbsent, Precondition

CreatorPlace(ops, t) == SelectInSeq(ops, LAMBDA o : o.kind = "CreateNode" /\ o.temp_id = t)

LEMMA PlaceOfCreator ==
    ASSUME NEW ops, NEW t, NEW j \in 1 .. Len(ops), ops[j].kind = "CreateNode", ops[j].temp_id = t
    PROVE  /\ CreatorPlace(ops, t) \in 1 .. Len(ops)
           /\ ops[CreatorPlace(ops, t)].kind = "CreateNode"
           /\ ops[CreatorPlace(ops, t)].temp_id = t
<1> DEFINE I == {i \in 1 .. Len(ops) : ops[i].kind = "CreateNode" /\ ops[i].temp_id = t}
<1>1. I # {} /\ I \in SUBSET Nat /\ CreatorPlace(ops, t) = Min(I)
  BY DEF CreatorPlace, SelectInSeq
<1>2. Min(I) \in I
  <2> HIDE DEF I
  <2>1. QED
    BY <1>1, MinOfPlaces
<1>3. QED
  BY <1>1, <1>2

\* Every node that the ops waited for introduce is there.
LEMMA ResolvedOK ==
    ASSUME NEW g, GraphOK(g), NEW base, GraphOK(base), DOMAIN base.node \subseteq DOMAIN g.node,
           NEW ops, PatchSound(base, ops), NEW p, NEW deps,
           \A j \in deps : j \in 1 .. Len(ops) /\ <<p, j>> \in DOMAIN g.node,
           NEW ref, RefSound(base, ops, deps, ref)
    PROVE  Resolved(p, ops, ref) \in DOMAIN g.node
<1>1. CASE ref.temp_id = None /\ ref.canonical_id \in DOMAIN base.node
  <2>1. ref.canonical_id # None
    BY <1>1, NoneAssumption DEF GraphOK
  <2>2. QED
    BY <1>1, <2>1 DEF Resolved
<1>2. CASE /\ ref.canonical_id = None /\ ref.temp_id \in Ids
           /\ \E j \in deps : /\ j \in 1 .. Len(ops)
                              /\ ops[j].kind = "CreateNode" /\ ops[j].temp_id = ref.temp_id
  <2>1. PICK j \in deps : /\ j \in 1 .. Len(ops)
                          /\ ops[j].kind = "CreateNode" /\ ops[j].temp_id = ref.temp_id
    BY <1>2
  <2>2. PICK k : k = CreatorPlace(ops, ref.temp_id)
    OBVIOUS
  <2>3. k \in 1 .. Len(ops) /\ ops[k].kind = "CreateNode" /\ ops[k].temp_id = ref.temp_id
    BY <2>1, <2>2, PlaceOfCreator
  <2>4. k = j
    BY <2>1, <2>3 DEF PatchSound, Introduces
  <2>5. Resolved(p, ops, ref) = <<p, k>>
    BY <1>2, <2>2 DEF Resolved, CreatorPlace
  <2>6. QED
    BY <2>1, <2>4, <2>5
<1>3. QED
  BY <1>1, <1>2 DEF RefSound

\* An op whose guard holds is applied.
LEMMA OpApplied ==
    ASSUME NEW g, GraphOK(g), NEW base, GraphOK(base), DOMAIN base.node \subseteq DOMAIN g.node,
           NEW ops, PatchSound(base, ops), NEW p \in Nat \ {0}, NEW ps, ps[p].ops = ops,
           NEW i \in 1 .. Len(ops), Held(g, ops[i]),
           \A j \in ops[i].depends_on : ops[j].kind = "CreateNode" => <<p, j>> \in DOMAIN g.node,
           <<p, i>> \notin DOMAIN g.node, <<p, i>> \notin DOMAIN g.edge,
           NEW h, h = ApplyOp(g, p, ops, i)
    PROVE  Applied(g, h, ps, p, i, ops[i])
<1>1. PICK op : op = ops[i]
  OBVIOUS
<1>2. OpSound(base, ops, i) /\ Held(g, op) /\ i \in Nat
  BY <1>1 DEF PatchSound, AllSound
<1>3. CASE op.kind = "CreateNode"
  <2>1. CreateSound(base, op)
    BY <1>1, <1>2, <1>3 DEF OpSound
  <2>2. FindByName(g, op.name) = {}
    BY <1>2, <2>1, HeldNameAbsent DEF CreateSound
  <2>3. QED
    BY <1>1, <1>2, <1>3, <2>1, <2>2, CreateApplied
<1>4. CASE op.kind = "MergeInto"
  BY <1>1, <1>4, MergeApplied
<1>5. CASE op.kind = "UpdateNodeProps"
  <2>1. UpdateSound(base, ops, op)
    BY <1>1, <1>2, <1>5 DEF OpSound
  <2>2. op.target \in DOMAIN g.node
    BY <1>2, <2>1, HeldNodeExists DEF UpdateSound
  <2>3. QED
    BY <1>1, <1>5, <2>1, <2>2, UpdateApplied DEF UpdateSound
<1>6. CASE op.kind = "AssertEdge"
  <2>1. AssertSound(base, ops, op)
    BY <1>1, <1>2, <1>6 DEF OpSound
  <2>2. \A j \in op.depends_on : j \in 1 .. Len(ops) /\ <<p, j>> \in DOMAIN g.node
    BY <1>1, <2>1 DEF AssertSound
  <2>3. /\ Resolved(p, ops, op.subject) \in DOMAIN g.node
        /\ Resolved(p, ops, op.object) \in DOMAIN g.node
    BY <2>1, <2>2, ResolvedOK DEF AssertSound
  <2>4. BothCanonical(op.subject, op.object) =>
            EdgesBetween(g, op.subject.canonical_id, op.object.canonical_id, op.predicate) = {}
    BY <1>2, <2>1, HeldEdgeAbsent DEF AssertSound
  <2>5. op.predicate \in Labels /\ op.valid_from \in Dates
    BY <2>1 DEF AssertSound
  <2>6. QED
    BY <1>1, <1>2, <1>6, <2>3, <2>4, <2>5, AssertApplied
<1>7. CASE op.kind = "InvalidateEdge"
  <2>1. op.preconditions = {EdgeExists(op.target)} /\ op.valid_to \in Nat
    BY <1>1, <1>2, <1>7 DEF OpSound, EdgeOpSound, CloseSound
  <2>2. op.target \in CurrentEdges(g)
    BY <1>2, <2>1, HeldEdgeExists
  <2>3. QED
    BY <1>1, <1>7, <2>1, <2>2, InvalidateApplied
<1>8. CASE op.kind = "ReinforceEdge"
  <2>1. op.preconditions = {EdgeExists(op.target)}
    BY <1>1, <1>2, <1>8 DEF OpSound, EdgeOpSound
  <2>2. op.target \in CurrentEdges(g)
    BY <1>2, <2>1, HeldEdgeExists
  <2>3. QED
    BY <1>1, <1>8, <2>2, ReinforceApplied
<1>9. QED
  BY <1>1, <1>2, <1>3, <1>4, <1>5, <1>6, <1>7, <1>8 DEF OpSound, Kinds

-----------------------------------------------------------------------------
(* Canonical with the patches there are. *)

Statuses == {"pending", "approved", "rejected", "committed", "blocked", "requeued"}

\* The patch x was diffed with a graph whose nodes are still there.
PatchHere(g, x) ==
    /\ PatchSound(x.base, x.ops)
    /\ GraphOK(x.base)
    /\ DOMAIN x.base.node \subseteq DOMAIN g.node
    /\ x.status \in [1 .. Len(x.ops) -> Statuses]

\* What routing left to the reviewer was accepted before it is approved.
Seen(x) ==
    \A i \in 1 .. Len(x.ops) :
        RoutedStatus(x.ops[i]) = "pending" /\ x.status[i] \in {"approved", "committed"} =>
            i \in x.accepted

Effects(g, q, x) ==
    \A i \in 1 .. Len(x.ops) : x.status[i] = "committed" => Effect(g, q, i, x.ops[i])

\* An id is minted once: the op it was minted for is not applied again.
Landed(ps, q, i) ==
    /\ q \in DOMAIN ps
    /\ i \in 1 .. Len(ps[q].ops)
    /\ ps[q].status[i] \in {"committed", "blocked"}

Minted(g, ps) ==
    \A n \in DOMAIN g.node \cup DOMAIN g.edge : n[1] = 0 \/ Landed(ps, n[1], n[2])

World(g, ps) ==
    /\ GraphOK(g) /\ Distinct(g) /\ NoTwins(g, ps)
    /\ DOMAIN ps \subseteq Nat \ {0}
    /\ Minted(g, ps)
    /\ \A q \in DOMAIN ps : PatchHere(g, ps[q]) /\ Seen(ps[q]) /\ Effects(g, q, ps[q])

\* The ops of patch p have other statuses.
Restated(ps, qs, p, status) ==
    /\ DOMAIN qs = DOMAIN ps
    /\ \A q \in DOMAIN ps : /\ qs[q].ops = ps[q].ops /\ qs[q].base = ps[q].base
                            /\ qs[q].accepted = ps[q].accepted
                            /\ qs[q].status = IF q = p THEN status ELSE ps[q].status

\* A status that an op of the walk may get.
Advances(x, status) ==
    /\ status \in [1 .. Len(x.ops) -> Statuses]
    /\ \A i \in 1 .. Len(x.ops) :
        /\ x.status[i] \in {"committed", "blocked"} => status[i] \in {"committed", "blocked"}
        /\ status[i] \in {"approved", "committed"} => x.status[i] \in {"approved", "committed"}

LEMMA GuardedSame ==
    ASSUME NEW g, NEW ps, NEW qs, NoTwins(g, ps), Minted(g, ps), GraphOK(g),
           \A q \in DOMAIN ps : qs[q].ops = ps[q].ops
    PROVE  NoTwins(g, qs)
<1>1. \A e \in CurrentEdges(g) : Guarded(qs, e) => Guarded(ps, e)
  BY DEF Guarded, Minted, Landed, CurrentEdges
<1>2. QED
  BY <1>1 DEF NoTwins

LEMMA WorldStep ==
    ASSUME NEW g, NEW ps, World(g, ps), NEW p \in DOMAIN ps, NEW qs, NEW status,
           Restated(ps, qs, p, status), Advances(ps[p], status),
           NEW h, GraphOK(h), Grows(g, h), Distinct(h), NoTwins(h, ps),
           \A n \in DOMAIN h.node \cup DOMAIN h.edge :
                n \in DOMAIN g.node \cup DOMAIN g.edge \/ (n[1] = p /\ Landed(qs, p, n[2])),
           \A i \in 1 .. Len(ps[p].ops) : status[i] = "committed" => Effect(h, p, i, ps[p].ops[i])
    PROVE  World(h, qs)
<1>1. DOMAIN qs = DOMAIN ps /\ qs[p].status = status
  BY DEF Restated
<1>2. \A q \in DOMAIN ps : qs[q].ops = ps[q].ops
  BY DEF Restated
<1>3. \A q, i : Landed(ps, q, i) => Landed(qs, q, i)
  <2> SUFFICES ASSUME NEW q, NEW i, Landed(ps, q, i) PROVE Landed(qs, q, i)
    OBVIOUS
  <2>1. q \in DOMAIN qs /\ i \in 1 .. Len(qs[q].ops) /\ i \in 1 .. Len(ps[q].ops)
    BY <1>1, <1>2 DEF Landed
  <2>2. CASE q = p
    BY <1>1, <2>1, <2>2 DEF Landed, Advances
  <2>3. CASE q # p
    BY <2>1, <2>3 DEF Landed, Restated
  <2>4. QED
    BY <2>2, <2>3
<1>4. Minted(h, qs)
  <2> SUFFICES ASSUME NEW n \in DOMAIN h.node \cup DOMAIN h.edge
               PROVE  n[1] = 0 \/ Landed(qs, n[1], n[2])
    BY DEF Minted
  <2>1. CASE n \in DOMAIN g.node \cup DOMAIN g.edge
    BY <1>3, <2>1 DEF World, Minted
  <2>2. CASE n[1] = p /\ Landed(qs, p, n[2])
    BY <2>2
  <2>3. QED
    BY <2>1, <2>2
<1>5. NoTwins(h, qs)
  <2>1. \A e \in CurrentEdges(h) : Guarded(qs, e) => Guarded(ps, e)
    <3> SUFFICES ASSUME NEW e \in CurrentEdges(h), Guarded(qs, e) PROVE Guarded(ps, e)
      OBVIOUS
    <3>1. e[1] = 0 \/ e[1] \in DOMAIN ps
      BY <1>1, <1>4 DEF Minted, Landed, CurrentEdges
    <3>2. QED
      BY <1>2, <3>1 DEF Guarded
  <2>2. QED
    BY <2>1 DEF NoTwins
<1>6. ASSUME NEW q \in DOMAIN ps
      PROVE  PatchHere(h, qs[q]) /\ Seen(qs[q]) /\ Effects(h, q, qs[q])
  <2>1. PatchHere(g, ps[q]) /\ Seen(ps[q]) /\ Effects(g, q, ps[q])
    BY DEF World
  <2>2. /\ qs[q].ops = ps[q].ops /\ qs[q].base = ps[q].base /\ qs[q].accepted = ps[q].accepted
        /\ qs[q].status = IF q = p THEN status ELSE ps[q].status
    BY DEF Restated
  <2>3. DOMAIN qs[q].base.node \subseteq DOMAIN h.node
    BY <2>1, <2>2 DEF PatchHere, Grows
  <2>4. CASE q = p
    <3>1. PatchHere(h, qs[q])
      BY <2>1, <2>2, <2>3, <2>4 DEF PatchHere, Advances
    <3>2. Seen(qs[q])
      BY <2>1, <2>2, <2>4 DEF Seen, Advances
    <3>3. Effects(h, q, qs[q])
      BY <2>2, <2>4 DEF Effects
    <3>4. QED
      BY <3>1, <3>2, <3>3
  <2>5. CASE q # p
    <3>1. PatchHere(h, qs[q])
      BY <2>1, <2>2, <2>3, <2>5 DEF PatchHere
    <3>2. Seen(qs[q])
      BY <2>1, <2>2, <2>5 DEF Seen
    <3>3. Effects(h, q, qs[q])
      BY <2>1, <2>2, <2>5, EffectGrows DEF Effects
    <3>4. QED
      BY <3>1, <3>2, <3>3
  <2>6. QED
    BY <2>4, <2>5
<1>7. QED
  BY <1>1, <1>4, <1>5, <1>6 DEF World

-----------------------------------------------------------------------------
(* The walk. *)

\* The patches with other statuses for the ops of p.
With(ps, p, status) ==
    [q \in DOMAIN ps |-> [ops |-> ps[q].ops, base |-> ps[q].base, accepted |-> ps[q].accepted,
                          status |-> IF q = p THEN status ELSE ps[q].status]]

LEMMA WithOK ==
    ASSUME NEW ps, NEW p, NEW status
    PROVE  Restated(ps, With(ps, p, status), p, status)
  BY DEF Restated, With

LEMMA WithAgain ==
    ASSUME NEW ps, NEW p, NEW s, NEW status
    PROVE  Restated(With(ps, p, s), With(ps, p, status), p, status)
  BY DEF Restated, With

\* The walk has met the ops at D: each is committed, or stands in the way of others.
WalkOK(acc, ps, p, D) ==
    /\ World(acc.graph, With(ps, p, acc.status))
    /\ \A i \in D : acc.status[i] = "committed" \/ i \in acc.failed

IsAcc(acc, g, s, f) == acc.graph = g /\ acc.status = s /\ acc.failed = f

LEMMA RefuseStep ==
    ASSUME NEW ps, NEW p \in DOMAIN ps, NEW D, NEW g, NEW s, NEW f,
           World(g, With(ps, p, s)), \A j \in D : s[j] = "committed" \/ j \in f,
           NEW i \in 1 .. Len(ps[p].ops), NEW st,
           (st = s[i] /\ st \notin {"approved", "committed"}) \/ st = "blocked"
                \/ (st = "requeued" /\ s[i] = "approved"),
           NEW acc, IsAcc(acc, g, [s EXCEPT ![i] = st], f \cup {i})
    PROVE  WalkOK(acc, ps, p, D \cup {i})
<1> DEFINE qs == With(ps, p, s)
           status == [s EXCEPT ![i] = st]
<1>1. /\ qs[p].status = s /\ qs[p].ops = ps[p].ops /\ DOMAIN qs = DOMAIN ps
  BY DEF With
<1> HIDE DEF qs
<1>2. PatchHere(g, qs[p]) /\ Effects(g, p, qs[p]) /\ GraphOK(g) /\ Distinct(g) /\ NoTwins(g, qs)
  BY <1>1 DEF World, qs
<1>3. s \in [1 .. Len(ps[p].ops) -> Statuses]
  BY <1>1, <1>2 DEF PatchHere
<1>4. st \in Statuses
  BY <1>3 DEF Statuses
<1>5. status \in [1 .. Len(ps[p].ops) -> Statuses]
  BY <1>3, <1>4
<1>6. Advances(qs[p], status)
  BY <1>1, <1>3, <1>5 DEF Advances
<1>7. \A j \in 1 .. Len(ps[p].ops) : status[j] = "committed" => s[j] = "committed"
  BY <1>3
<1>8. Restated(qs, With(ps, p, status), p, status)
  BY WithAgain DEF qs
<1>9. Grows(g, g)
  BY DEF Grows
<1> HIDE DEF status
<1>10. \A j \in 1 .. Len(qs[p].ops) : status[j] = "committed" => Effect(g, p, j, qs[p].ops[j])
  BY <1>1, <1>2, <1>7 DEF Effects
<1>11. World(g, With(ps, p, status))
  BY <1>1, <1>2, <1>6, <1>8, <1>9, <1>10, WorldStep DEF qs
<1>12. \A j \in D \cup {i} : status[j] = "committed" \/ j \in f \cup {i}
  <2> SUFFICES ASSUME NEW j \in D, j # i, s[j] = "committed" PROVE status[j] = "committed"
    BY DEF status
  <2>1. QED
    BY <1>3 DEF status
<1>13. QED
  BY <1>11, <1>12 DEF WalkOK, IsAcc, status

LEMMA CommitStep ==
    ASSUME NEW ps, NEW p \in DOMAIN ps, NEW D, NEW g, NEW s, NEW f,
           World(g, With(ps, p, s)), \A j \in D : s[j] = "committed" \/ j \in f,
           NEW i \in 1 .. Len(ps[p].ops), s[i] = "approved",
           Held(g, ps[p].ops[i]),
           \A j \in ps[p].ops[i].depends_on : j \in D /\ j \notin f,
           NEW acc, IsAcc(acc, ApplyOp(g, p, ps[p].ops, i), [s EXCEPT ![i] = "committed"], f)
    PROVE  WalkOK(acc, ps, p, D \cup {i})
<1> DEFINE qs == With(ps, p, s)
           status == [s EXCEPT ![i] = "committed"]
           ops == ps[p].ops
           h == ApplyOp(g, p, ops, i)
<1>1. /\ qs[p].status = s /\ qs[p].ops = ops /\ DOMAIN qs = DOMAIN ps
  BY DEF With
<1> HIDE DEF qs, ops
<1>2. /\ PatchHere(g, qs[p]) /\ Effects(g, p, qs[p]) /\ GraphOK(g) /\ Distinct(g) /\ NoTwins(g, qs)
      /\ Minted(g, qs) /\ p \in Nat \ {0}
  BY <1>1 DEF World, qs
<1>3. s \in [1 .. Len(ops) -> Statuses]
  BY <1>1, <1>2 DEF PatchHere
<1>4. status \in [1 .. Len(ops) -> Statuses]
  BY <1>3 DEF Statuses
<1>5. Advances(qs[p], status)
  BY <1>1, <1>3, <1>4 DEF Advances, ops
<1>6. Restated(qs, With(ps, p, status), p, status)
  BY WithAgain DEF qs
<1>7. <<p, i>> \notin DOMAIN g.node /\ <<p, i>> \notin DOMAIN g.edge
  <2>1. ~Landed(qs, p, i)
    BY <1>1 DEF Landed
  <2>2. <<p, i>>[1] # 0
    BY <1>2
  <2>3. QED
    BY <1>2, <2>1, <2>2 DEF Minted
<1>8. \A j \in ops[i].depends_on : ops[j].kind = "CreateNode" => <<p, j>> \in DOMAIN g.node
  <2> SUFFICES ASSUME NEW j \in ops[i].depends_on, ops[j].kind = "CreateNode"
               PROVE  <<p, j>> \in DOMAIN g.node
    OBVIOUS
  <2>1. s[j] = "committed"
    BY DEF ops
  <2>2. j \in 1 .. Len(ops)
    <3>1. OpSound(qs[p].base, ops, i)
      BY <1>1, <1>2 DEF PatchHere, PatchSound, AllSound, ops
    <3>2. QED
      BY <3>1 DEF OpSound, Kinds, CreateSound, MergeSound, UpdateSound, AssertSound, EdgeOpSound,
                  Merges
  <2>3. Effect(g, p, j, ops[j])
    BY <1>1, <1>2, <2>1, <2>2 DEF Effects
  <2>4. QED
    BY <2>3 DEF Effect
<1>9. PatchSound(qs[p].base, ops) /\ GraphOK(qs[p].base) /\ DOMAIN qs[p].base.node \subseteq DOMAIN g.node
  BY <1>1, <1>2 DEF PatchHere
<1>10. Held(g, ops[i]) /\ i \in 1 .. Len(ops)
  BY DEF ops
<1>11. Applied(g, h, qs, p, i, ops[i])
  BY <1>1, <1>2, <1>7, <1>8, <1>9, <1>10, OpApplied
<1> HIDE DEF h
<1>12. /\ GraphOK(h) /\ Grows(g, h) /\ Distinct(h) /\ NoTwins(h, qs) /\ Mints(g, h, <<p, i>>)
       /\ Effect(h, p, i, ops[i])
  BY <1>2, <1>11 DEF Applied
<1>13. \A j \in 1 .. Len(ops) : status[j] = "committed" => Effect(h, p, j, ops[j])
  <2> SUFFICES ASSUME NEW j \in 1 .. Len(ops), status[j] = "committed", j # i
               PROVE  Effect(h, p, j, ops[j])
    BY <1>12
  <2>1. s[j] = "committed"
    BY <1>3
  <2>2. Effect(g, p, j, ops[j])
    BY <1>1, <1>2, <2>1 DEF Effects
  <2>3. QED
    BY <1>12, <2>2, EffectGrows
<1>14. \A n \in DOMAIN h.node \cup DOMAIN h.edge :
            \/ n \in DOMAIN g.node \cup DOMAIN g.edge
            \/ n[1] = p /\ Landed(With(ps, p, status), p, n[2])
  <2> SUFFICES ASSUME NEW n, n = <<p, i>>
               PROVE  n[1] = p /\ Landed(With(ps, p, status), p, n[2])
    BY <1>12 DEF Mints
  <2>1. With(ps, p, status)[p].status[i] = "committed"
    <3>1. With(ps, p, status)[p].status = status
      BY DEF With
    <3>2. status[i] = "committed"
      BY <1>3, <1>10
    <3>3. QED
      BY <3>1, <3>2
  <2>2. With(ps, p, status)[p].ops = ops /\ p \in DOMAIN With(ps, p, status)
    BY DEF With, ops
  <2>3. QED
    BY <1>10, <2>1, <2>2 DEF Landed
<1> HIDE DEF status
<1>15. World(h, With(ps, p, status))
  BY <1>1, <1>5, <1>6, <1>12, <1>13, <1>14, WorldStep DEF qs
<1>16. \A j \in D \cup {i} : status[j] = "committed" \/ j \in f
  BY <1>3, <1>10 DEF status
<1>17. QED
  BY <1>15, <1>16 DEF WalkOK, IsAcc, status, h, ops

LEMMA WalkStep ==
    ASSUME NEW ps, NEW p \in DOMAIN ps, NEW D, NEW acc, WalkOK(acc, ps, p, D),
           DOMAIN acc = {"graph", "status", "failed"},
           NEW i \in 1 .. Len(ps[p].ops), \A j \in ps[p].ops[i].depends_on : j \in D,
           NEW t, t = Walk(acc, p, ps[p].ops, i)
    PROVE  WalkOK(t, ps, p, D \cup {i}) /\ DOMAIN t = {"graph", "status", "failed"}
<1> DEFINE ops == ps[p].ops
           refuse(st) == [acc EXCEPT !.status[i] = st, !.failed = @ \cup {i}]
           s == acc.status
           g == acc.graph
           f == acc.failed
<1>1. World(g, With(ps, p, s)) /\ \A j \in D : s[j] = "committed" \/ j \in f
  BY DEF WalkOK
<1>2. ASSUME NEW st
      PROVE  /\ IsAcc(refuse(st), g, [s EXCEPT ![i] = st], f \cup {i})
             /\ DOMAIN refuse(st) = {"graph", "status", "failed"}
  BY DEF IsAcc
<1>3. CASE s[i] \notin {"approved", "committed"}
  <2>1. t = refuse(s[i])
    BY <1>3 DEF Walk
  <2>2. PICK st : st = s[i]
    OBVIOUS
  <2> HIDE DEF refuse
  <2>3. IsAcc(t, g, [s EXCEPT ![i] = st], f \cup {i})
    BY <1>2, <2>1, <2>2
  <2> HIDE DEF s, g, f
  <2>4. WalkOK(t, ps, p, D \cup {i})
    BY <1>1, <1>3, <2>2, <2>3, RefuseStep
  <2>5. QED
    BY <1>2, <2>1, <2>4
<1>4. CASE s[i] \in {"approved", "committed"} /\ ops[i].depends_on \cap f # {}
  <2>1. t = refuse("blocked")
    BY <1>4 DEF Walk
  <2>2. PICK st : st = "blocked"
    OBVIOUS
  <2> HIDE DEF refuse
  <2>3. IsAcc(t, g, [s EXCEPT ![i] = st], f \cup {i})
    BY <1>2, <2>1, <2>2
  <2> HIDE DEF s, g, f
  <2>4. WalkOK(t, ps, p, D \cup {i})
    BY <1>1, <2>2, <2>3, RefuseStep
  <2>5. QED
    BY <1>2, <2>1, <2>4
<1>5. CASE s[i] = "approved" /\ ops[i].depends_on \cap f = {} /\ ~Held(g, ops[i])
  <2>1. t = refuse("requeued")
    BY <1>5 DEF Walk, Held
  <2>2. PICK st : st = "requeued"
    OBVIOUS
  <2> HIDE DEF refuse
  <2>3. IsAcc(t, g, [s EXCEPT ![i] = st], f \cup {i})
    BY <1>2, <2>1, <2>2
  <2> HIDE DEF s, g, f
  <2>4. WalkOK(t, ps, p, D \cup {i})
    BY <1>1, <1>5, <2>2, <2>3, RefuseStep
  <2>5. QED
    BY <1>2, <2>1, <2>4
<1>6. CASE s[i] = "approved" /\ ops[i].depends_on \cap f = {} /\ Held(g, ops[i])
  <2>1. t = [acc EXCEPT !.status[i] = "committed", !.graph = ApplyOp(@, p, ops, i)]
    BY <1>6 DEF Walk, Held
  <2>2. DOMAIN t = {"graph", "status", "failed"}
    BY <2>1
  <2>3. IsAcc(t, ApplyOp(g, p, ops, i), [s EXCEPT ![i] = "committed"], f)
    BY <2>1 DEF IsAcc
  <2>4. \A j \in ops[i].depends_on : j \in D /\ j \notin f
    BY <1>6
  <2> HIDE DEF s, g, f
  <2>5. WalkOK(t, ps, p, D \cup {i})
    BY <1>1, <1>6, <2>3, <2>4, CommitStep
  <2>6. QED
    BY <2>2, <2>5
<1>7. CASE s[i] = "committed" /\ ops[i].depends_on \cap f = {}
  <2>1. t = acc
    BY <1>7 DEF Walk
  <2>2. QED
    BY <1>7, <2>1 DEF WalkOK
<1>8. QED
  BY <1>3, <1>4, <1>5, <1>6, <1>7

\* Every op comes after the ops it waits for.
LEMMA OrderOK ==
    ASSUME NEW base, NEW ops, PatchSound(base, ops)
    PROVE  /\ IsSequence(Order(ops)) /\ Len(Order(ops)) \in Nat
           /\ \A n \in 1 .. Len(Order(ops)) :
                /\ Order(ops)[n] \in 1 .. Len(ops)
                /\ \A j \in ops[Order(ops)[n]].depends_on : \E m \in 1 .. n - 1 : Order(ops)[m] = j
<1> DEFINE places == [i \in DOMAIN ops |-> i]
           I == {i \in DOMAIN ops : ops[i].depends_on = {}}
           J == {i \in DOMAIN ops : ops[i].depends_on # {}}
           a == Picked(places, I)
           b == Picked(places, J)
           N == 1 .. Len(ops)
<1>1. DOMAIN ops = N /\ Len(ops) \in Nat
  <2>1. PICK S : ops \in Seq(S)
    BY DEF PatchSound, AllSound, IsSequence
  <2>2. QED
    BY <2>1
<1>2. places \in Seq(N) /\ DOMAIN places = N /\ \A i \in N : places[i] = i
  <2>1. places \in [N -> N]
    BY <1>1
  <2>2. QED
    BY <1>1, <2>1, FunctionIsSeq
<1> HIDE DEF places
<1>3. PICK at : a \in Seq(N) /\ Picking(at, a, places, DOMAIN places \cap I)
  BY <1>2, PickedPlaces
<1>4. PICK bt : b \in Seq(N) /\ Picking(bt, b, places, DOMAIN places \cap J)
  BY <1>2, PickedPlaces
<1> HIDE DEF a, b
<1>5. Len(a) \in Nat /\ Len(b) \in Nat /\ IsSequence(a) /\ IsSequence(b)
  BY <1>3, <1>4 DEF IsSequence
<1>6. PICK t : t = a \o b
  OBVIOUS
<1>7. Order(ops) = t
  BY <1>6 DEF Order, a, b, places
<1>8. IsSequence(t) /\ Begins(a, t)
  BY <1>5, <1>6, ConcatAny
<1>9. ASSUME NEW n \in 1 .. Len(t)
      PROVE  n \in 1 .. Len(a) \/ \E m \in 1 .. Len(b) : n = Len(a) + m
  BY <1>5, <1>6, ConcatAny
<1>10. ASSUME NEW m \in 1 .. Len(b) PROVE t[Len(a) + m] = b[m]
  BY <1>5, <1>6, ConcatAny
<1>11. \A n \in 1 .. Len(a) : a[n] \in I /\ n \in 1 .. Len(t) /\ t[n] = a[n]
  <2> TAKE n \in 1 .. Len(a)
  <2>1. at[n] \in DOMAIN places \cap I /\ a[n] = places[at[n]]
    BY <1>3 DEF Picking
  <2>2. QED
    BY <1>2, <1>8, <2>1 DEF Begins
<1>12. \A m \in 1 .. Len(b) : b[m] \in J
  <2> TAKE m \in 1 .. Len(b)
  <2>1. bt[m] \in DOMAIN places \cap J /\ b[m] = places[bt[m]]
    BY <1>4 DEF Picking
  <2>2. QED
    BY <1>2, <2>1
<1>13. \A i \in I : \E n \in 1 .. Len(a) : a[n] = i
  <2> TAKE i \in I
  <2>1. PICK n \in 1 .. Len(a) : at[n] = i
    BY <1>1, <1>2, <1>3 DEF Picking
  <2>2. a[n] = i
    BY <1>1, <1>2, <1>3, <2>1 DEF Picking
  <2>3. QED
    BY <2>2
<1>14. ASSUME NEW i \in N, NEW j \in ops[i].depends_on
       PROVE  j \in I
  <2>1. OpSound(base, ops, i)
    BY DEF PatchSound, AllSound
  <2>2. j \in N /\ ops[j].kind \in {"CreateNode", "MergeInto"}
    BY <2>1 DEF OpSound, Kinds, CreateSound, MergeSound, UpdateSound, AssertSound, EdgeOpSound,
                Merges
  <2>3. OpSound(base, ops, j)
    BY <2>2 DEF PatchSound, AllSound
  <2>4. ops[j].depends_on = {}
    BY <2>2, <2>3 DEF OpSound, CreateSound, MergeSound
  <2>5. QED
    BY <1>1, <2>2, <2>4
<1>15. Len(t) \in Nat
  BY <1>8 DEF Begins
<1>16. ASSUME NEW n \in 1 .. Len(t)
       PROVE  /\ t[n] \in N
              /\ \A j \in ops[t[n]].depends_on : \E m \in 1 .. n - 1 : t[m] = j
  <2>1. CASE n \in 1 .. Len(a)
    <3>1. t[n] \in I
      BY <1>11, <2>1
    <3>2. QED
      BY <1>1, <3>1
  <2>2. CASE \E m \in 1 .. Len(b) : n = Len(a) + m
    <3>1. PICK k \in 1 .. Len(b) : n = Len(a) + k
      BY <2>2
    <3>2. t[n] \in J /\ t[n] \in N
      BY <1>1, <1>10, <1>12, <3>1
    <3>3. ASSUME NEW j \in ops[t[n]].depends_on
          PROVE  \E m \in 1 .. n - 1 : t[m] = j
      <4>1. j \in I
        BY <1>14, <3>2
      <4>2. PICK m \in 1 .. Len(a) : a[m] = j
        BY <1>13, <4>1
      <4>3. m \in 1 .. n - 1 /\ t[m] = j
        BY <1>5, <1>11, <3>1, <4>2
      <4>4. QED
        BY <4>3
    <3>4. QED
      BY <3>2, <3>3
  <2>3. QED
    BY <1>9, <2>1, <2>2
<1>17. QED
  BY <1>7, <1>8, <1>15, <1>16

WalkedByOp(f, g, p, ops, status, order) ==
    /\ f[0] = [graph |-> g, status |-> status, failed |-> {}]
    /\ \A k \in 1 .. Len(order) : f[k] = Walk(f[k - 1], p, ops, order[k])

LEMMA WalkedUpTo ==
    ASSUME NEW g, NEW p, NEW ops, NEW status, NEW order, Len(order) \in Nat
    PROVE  WalkedByOp(Walked(g, p, ops, status, order), g, p, ops, status, order)
<1> DEFINE Start == [graph |-> g, status |-> status, failed |-> {}]
           Step(r, i) == Walk(r, p, ops, order[i])
           Ok(f, n) == f = [k \in 0 .. n |-> IF k = 0 THEN Start ELSE Step(f[k - 1], k)]
           T == {n \in Nat : \E f : Ok(f, n)}
           walk == Walked(g, p, ops, status, order)
<1>1. 0 \in T
  <2> HIDE DEF Start
  <2>1. Ok([k \in 0 .. 0 |-> Start], 0)
    OBVIOUS
  <2>2. QED
    BY <2>1
<1>2. ASSUME NEW n \in Nat, n \in T PROVE n + 1 \in T
  <2>1. PICK f : Ok(f, n)
    BY <1>2
  <2> DEFINE h == [k \in 0 .. n + 1 |-> IF k <= n THEN f[k] ELSE Step(f[n], n + 1)]
  <2> HIDE DEF Step, Start
  <2>2. Ok(h, n + 1)
    BY <2>1
  <2> HIDE DEF h, Ok
  <2>3. QED
    BY <2>2
<1>3. walk = CHOOSE f : Ok(f, Len(order))
  BY DEF Walked
<1> HIDE DEF walk
<1>4. Ok(walk, Len(order))
  <2> HIDE DEF Ok
  <2>1. QED
    BY <1>1, <1>2, <1>3, SetInduction
<1>5. walk[0] = Start /\ \A k \in 1 .. Len(order) : walk[k] = Step(walk[k - 1], k)
  <2> HIDE DEF Step, Start
  <2>1. QED
    BY <1>4
<1>6. QED
  BY <1>5 DEF walk, WalkedByOp

LEMMA WorldWith ==
    ASSUME NEW g, NEW ps, World(g, ps), NEW p \in DOMAIN ps, NEW s, s = ps[p].status
    PROVE  World(g, With(ps, p, s))
<1>1. PatchHere(g, ps[p]) /\ Effects(g, p, ps[p]) /\ GraphOK(g) /\ Distinct(g) /\ NoTwins(g, ps)
  BY DEF World
<1>2. Advances(ps[p], s)
  BY <1>1 DEF Advances, PatchHere
<1>3. Grows(g, g)
  BY DEF Grows
<1>4. Restated(ps, With(ps, p, s), p, s)
  BY WithOK
<1>5. \A i \in 1 .. Len(ps[p].ops) : s[i] = "committed" => Effect(g, p, i, ps[p].ops[i])
  BY <1>1 DEF Effects
<1>6. QED
  BY <1>1, <1>2, <1>3, <1>4, <1>5, WorldStep

-----------------------------------------------------------------------------
(* What the nodes say after a walk. *)

LEMMA NodesCreated ==
    ASSUME NEW g, GraphOK(g), NEW p, NEW ops, NEW i, ops[i].kind = "CreateNode",
           NEW h, h = ApplyOp(g, p, ops, i)
    PROVE  /\ h.node[<<p, i>>].description = ops[i].description
           /\ h.node[<<p, i>>].attr = ops[i].attr
           /\ \A n \in DOMAIN h.node : n # <<p, i>> => n \in DOMAIN g.node /\ h.node[n] = g.node[n]
<1> DEFINE v == [name |-> ops[i].name, entity_type |-> ops[i].entity_type,
                 description |-> ops[i].description, attr |-> ops[i].attr]
<1>1. h = [g EXCEPT !.node = Put(g.node, <<p, i>>, v)] /\ DOMAIN g = {"node", "edge"}
  BY DEF ApplyOp, GraphOK, IsGraph
<1>2. v.description = ops[i].description /\ v.attr = ops[i].attr
  OBVIOUS
<1> HIDE DEF v
<1>3. h.node = Put(g.node, <<p, i>>, v)
  BY <1>1
<1>4. QED
  BY <1>2, <1>3 DEF Put

LEMMA NodesUpdated ==
    ASSUME NEW g, GraphOK(g), NEW p, NEW ops, NEW i, ops[i].kind = "UpdateNodeProps",
           ops[i].target \in DOMAIN g.node, NEW h, h = ApplyOp(g, p, ops, i)
    PROVE  /\ DOMAIN h.node = DOMAIN g.node
           /\ \A n \in DOMAIN g.node : n # ops[i].target => h.node[n] = g.node[n]
           /\ h.node[ops[i].target].description
                = Given(ops[i].description, g.node[ops[i].target].description)
           /\ h.node[ops[i].target].attr = Given(ops[i].attr, g.node[ops[i].target].attr)
<1> DEFINE t == ops[i].target
           description == Given(ops[i].description, g.node[t].description)
           attr == Given(ops[i].attr, g.node[t].attr)
           nodes == [[g.node EXCEPT ![t].description = description] EXCEPT ![t].attr = attr]
<1>1. /\ DOMAIN g = {"node", "edge"}
      /\ g.node[t] \in [name : EntityNames, entity_type : Labels, description : Descriptions,
                        attr : Values]
  BY DEF GraphOK, IsGraph
<1>2. h = [[g EXCEPT !.node[t].description = Given(ops[i].description, @)]
                EXCEPT !.node[t].attr = Given(ops[i].attr, @)]
  BY DEF ApplyOp
<1>3. h.node = nodes
  BY <1>1, <1>2
<1> HIDE DEF description, attr
<1>4. /\ DOMAIN nodes = DOMAIN g.node
      /\ \A n \in DOMAIN g.node : n # t => nodes[n] = g.node[n]
      /\ nodes[t].description = description /\ nodes[t].attr = attr
  BY <1>1
<1> HIDE DEF nodes
<1>5. QED
  BY <1>3, <1>4 DEF description, attr

LEMMA NodesLeft ==
    ASSUME NEW g, GraphOK(g), NEW p, NEW ops, NEW i, ops[i].kind \in Kinds,
           ops[i].kind \notin {"CreateNode", "UpdateNodeProps"}, NEW h, h = ApplyOp(g, p, ops, i)
    PROVE  h.node = g.node
<1>1. DOMAIN g = {"node", "edge"}
  BY DEF GraphOK, IsGraph
<1>2. CASE ops[i].kind = "MergeInto"
  BY <1>2 DEF ApplyOp
<1>3. CASE ops[i].kind = "AssertEdge"
  <2>1. \E edges : h = [g EXCEPT !.edge = edges]
    BY <1>3 DEF ApplyOp
  <2>2. QED
    BY <1>1, <2>1
<1>4. CASE ops[i].kind = "InvalidateEdge"
  <2>1. h = [g EXCEPT !.edge[ops[i].target].valid_to = ops[i].valid_to]
    BY <1>4 DEF ApplyOp
  <2>2. QED
    BY <1>1, <2>1
<1>5. CASE ops[i].kind = "ReinforceEdge"
  <2>1. h = [g EXCEPT !.edge[ops[i].target].support = @ + 1]
    BY <1>5 DEF ApplyOp
  <2>2. QED
    BY <1>1, <2>1
<1>6. QED
  BY <1>2, <1>3, <1>4, <1>5 DEF Kinds

\* The update i of the node n has what it waits for.
Released(ops, status, i, n) ==
    /\ i \in 1 .. Len(ops)
    /\ ops[i].kind = "UpdateNodeProps" /\ ops[i].target = n
    /\ \A j \in ops[i].depends_on : status[j] = "committed"

\* What a node of h says it said in g, or the patch ops says it.
ToldNode(g, h, p, ops, status, n) ==
    \/ \E i \in 1 .. Len(ops) : /\ ops[i].kind = "CreateNode" /\ n = <<p, i>>
                                /\ n \notin DOMAIN g.node
                                /\ h.node[n].description = ops[i].description
    \/ /\ n \in DOMAIN g.node
       /\ \/ h.node[n].description = g.node[n].description
          \/ \E i : /\ Released(ops, status, i, n) /\ ops[i].description # None
                    /\ h.node[n].description = ops[i].description
       /\ \/ h.node[n].attr = g.node[n].attr
          \/ \E i : /\ Released(ops, status, i, n) /\ ops[i].attr # None
                    /\ h.node[n].attr = ops[i].attr

Told(g, h, p, ops, status) == \A n \in DOMAIN h.node : ToldNode(g, h, p, ops, status, n)

\* A merge that was committed stays so: it waits for nothing.
MergesStay(ops, old, new) ==
    \A j \in 1 .. Len(ops) :
        ops[j].kind = "MergeInto" /\ old[j] = "committed" => new[j] = "committed"

LEMMA ToldSame ==
    ASSUME NEW g, NEW h, NEW p, NEW base, NEW ops, PatchSound(base, ops), NEW s, NEW status,
           Told(g, h, p, ops, s), MergesStay(ops, s, status)
    PROVE  Told(g, h, p, ops, status)
<1>1. ASSUME NEW i, NEW n, Released(ops, s, i, n) PROVE Released(ops, status, i, n)
  <2>1. i \in 1 .. Len(ops) /\ ops[i].kind = "UpdateNodeProps"
    BY <1>1 DEF Released
  <2>2. UpdateSound(base, ops, ops[i])
    BY <2>1 DEF PatchSound, AllSound, OpSound
  <2>3. \A j \in ops[i].depends_on : j \in 1 .. Len(ops) /\ ops[j].kind = "MergeInto"
    BY <2>2 DEF UpdateSound, Merges
  <2>4. QED
    BY <1>1, <2>3 DEF Released, MergesStay
<1>2. QED
  BY <1>1 DEF Told, ToldNode

\* The op i has what it waits for, and h is what it finds.
Due(g, h, base, p, ops, status, i) ==
    /\ GraphOK(h)
    /\ PatchSound(base, ops)
    /\ DOMAIN base.node \subseteq DOMAIN g.node
    /\ DOMAIN g.node \subseteq DOMAIN h.node
    /\ Told(g, h, p, ops, status)
    /\ i \in 1 .. Len(ops)
    /\ \A j \in ops[i].depends_on : status[j] = "committed"
    /\ <<p, i>> \notin DOMAIN h.node

Retold(g, k, p, ops, status) ==
    Told(g, k, p, ops, status) /\ DOMAIN g.node \subseteq DOMAIN k.node

\* One op was committed.
LEMMA ToldStep ==
    ASSUME NEW g, NEW h, NEW base, NEW p, NEW ops, NEW status, NEW i,
           Due(g, h, base, p, ops, status, i)
    PROVE  Retold(g, ApplyOp(h, p, ops, i), p, ops, status)
<1> PICK k : k = ApplyOp(h, p, ops, i)
  OBVIOUS
<1> SUFFICES Told(g, k, p, ops, status) /\ DOMAIN g.node \subseteq DOMAIN k.node
  BY DEF Retold
<1> USE DEF Due
<1>1. OpSound(base, ops, i) /\ ops[i].kind \in Kinds
  BY DEF PatchSound, AllSound, OpSound
<1>2. ASSUME NEW n \in DOMAIN k.node, n \in DOMAIN h.node, k.node[n] = h.node[n]
      PROVE  ToldNode(g, k, p, ops, status, n)
  BY <1>2 DEF Told, ToldNode
<1>3. CASE ops[i].kind = "CreateNode"
  <2>1. /\ k.node[<<p, i>>].description = ops[i].description
        /\ \A n \in DOMAIN k.node : n # <<p, i>> => n \in DOMAIN h.node /\ k.node[n] = h.node[n]
    BY <1>3, NodesCreated
  <2>2. <<p, i>> \in DOMAIN k.node => ToldNode(g, k, p, ops, status, <<p, i>>)
    BY <1>3, <2>1 DEF ToldNode
  <2>3. DOMAIN h.node \subseteq DOMAIN k.node
    BY <1>3 DEF ApplyOp, Put, GraphOK, IsGraph
  <2>4. QED
    BY <1>2, <2>1, <2>2, <2>3 DEF Told
<1>4. CASE ops[i].kind = "UpdateNodeProps"
  <2>1. PICK t : t = ops[i].target /\ t \in DOMAIN base.node
    BY <1>1, <1>4 DEF OpSound, UpdateSound
  <2>2. t \in DOMAIN g.node /\ t \in DOMAIN h.node
    BY <2>1
  <2>3. /\ DOMAIN k.node = DOMAIN h.node
        /\ \A n \in DOMAIN h.node : n # t => k.node[n] = h.node[n]
        /\ k.node[t].description = Given(ops[i].description, h.node[t].description)
        /\ k.node[t].attr = Given(ops[i].attr, h.node[t].attr)
    BY <1>4, <2>1, <2>2, NodesUpdated
  <2>4. Released(ops, status, i, t)
    BY <1>4, <2>1 DEF Released
  <2>5. ToldNode(g, h, p, ops, status, t)
    BY <2>2 DEF Told
  <2>6. ToldNode(g, k, p, ops, status, t)
    BY <2>2, <2>3, <2>4, <2>5 DEF ToldNode, Given
  <2>7. QED
    BY <1>2, <2>3, <2>6 DEF Told
<1>5. CASE ops[i].kind \notin {"CreateNode", "UpdateNodeProps"}
  <2>1. k.node = h.node
    BY <1>1, <1>5, NodesLeft
  <2>2. QED
    BY <1>2, <2>1 DEF Told
<1>6. QED
  BY <1>3, <1>4, <1>5

\* What the walk leaves, when it started with g and the statuses old.
Tells(acc, g, p, ops, old) ==
    /\ DOMAIN g.node \subseteq DOMAIN acc.graph.node
    /\ Told(g, acc.graph, p, ops, acc.status)
    /\ MergesStay(ops, old, acc.status)

LEMMA RefuseTells ==
    ASSUME NEW acc, NEW g, NEW p, NEW ops, NEW old, Tells(acc, g, p, ops, old),
           NEW base, PatchSound(base, ops),
           NEW i \in 1 .. Len(ops), ops[i].kind = "MergeInto" => acc.status[i] # "committed",
           NEW st, NEW t, NEW f, IsAcc(t, acc.graph, [acc.status EXCEPT ![i] = st], f)
    PROVE  Tells(t, g, p, ops, old)
<1> DEFINE status == [acc.status EXCEPT ![i] = st]
<1>1. \A j : j # i /\ acc.status[j] = "committed" => status[j] = "committed"
  OBVIOUS
<1> HIDE DEF status
<1>2. MergesStay(ops, acc.status, status) /\ MergesStay(ops, old, status)
  BY <1>1 DEF Tells, MergesStay
<1>3. Told(g, acc.graph, p, ops, status)
  BY <1>2, ToldSame DEF Tells
<1>4. QED
  BY <1>2, <1>3 DEF Tells, IsAcc, status

LEMMA CommitTells ==
    ASSUME NEW acc, NEW g, NEW p, NEW ops, NEW old, Tells(acc, g, p, ops, old),
           GraphOK(acc.graph), NEW base, PatchSound(base, ops), DOMAIN base.node \subseteq DOMAIN g.node,
           DOMAIN acc.status = 1 .. Len(ops),
           NEW i \in 1 .. Len(ops), <<p, i>> \notin DOMAIN acc.graph.node,
           \A j \in ops[i].depends_on : acc.status[j] = "committed",
           NEW t, NEW f,
           IsAcc(t, ApplyOp(acc.graph, p, ops, i), [acc.status EXCEPT ![i] = "committed"], f)
    PROVE  Tells(t, g, p, ops, old)
<1> DEFINE status == [acc.status EXCEPT ![i] = "committed"]
<1>1. \A j : acc.status[j] = "committed" => status[j] = "committed"
  OBVIOUS
<1> HIDE DEF status
<1>2. MergesStay(ops, acc.status, status) /\ MergesStay(ops, old, status)
  BY <1>1 DEF Tells, MergesStay
<1>3. Told(g, acc.graph, p, ops, status) /\ DOMAIN g.node \subseteq DOMAIN acc.graph.node
  BY <1>2, ToldSame DEF Tells
<1>4. \A j \in ops[i].depends_on : status[j] = "committed"
  BY <1>1
<1>5. Due(g, acc.graph, base, p, ops, status, i)
  BY <1>3, <1>4 DEF Due
<1>6. Retold(g, ApplyOp(acc.graph, p, ops, i), p, ops, status)
  BY <1>5, ToldStep
<1>7. QED
  BY <1>2, <1>6 DEF Tells, Retold, IsAcc, status

LEMMA TellStep ==
    ASSUME NEW ps, NEW p \in DOMAIN ps, NEW D, NEW acc, WalkOK(acc, ps, p, D),
           DOMAIN acc = {"graph", "status", "failed"},
           NEW g, DOMAIN ps[p].base.node \subseteq DOMAIN g.node,
           NEW old, Tells(acc, g, p, ps[p].ops, old),
           NEW i \in 1 .. Len(ps[p].ops), \A j \in ps[p].ops[i].depends_on : j \in D,
           NEW t, t = Walk(acc, p, ps[p].ops, i)
    PROVE  Tells(t, g, p, ps[p].ops, old)
<1> DEFINE qs == With(ps, p, acc.status)
<1>1. PICK ops, base : ops = ps[p].ops /\ base = ps[p].base
  OBVIOUS
<1>2. World(acc.graph, qs) /\ \A j \in D : acc.status[j] = "committed" \/ j \in acc.failed
  BY DEF WalkOK
<1>3. p \in DOMAIN qs /\ qs[p].status = acc.status /\ qs[p].ops = ops /\ qs[p].base = base
  BY <1>1 DEF With
<1> HIDE DEF qs
<1>4. /\ PatchSound(base, ops) /\ GraphOK(acc.graph) /\ Minted(acc.graph, qs)
      /\ DOMAIN acc.status = 1 .. Len(ops) /\ p \in Nat \ {0}
  BY <1>2, <1>3 DEF World, PatchHere
<1>5. ops[i].kind = "MergeInto" => ops[i].depends_on = {}
  <2>1. OpSound(base, ops, i)
    BY <1>1, <1>4 DEF PatchSound, AllSound
  <2>2. QED
    BY <2>1 DEF OpSound, MergeSound
<1>6. ASSUME NEW st
      PROVE  IsAcc([acc EXCEPT !.status[i] = st, !.failed = @ \cup {i}], acc.graph,
                   [acc.status EXCEPT ![i] = st], acc.failed \cup {i})
  BY DEF IsAcc
<1>7. CASE acc.status[i] \notin {"approved", "committed"}
  <2>1. t = [acc EXCEPT !.status[i] = acc.status[i], !.failed = @ \cup {i}]
    BY <1>1, <1>7 DEF Walk
  <2>2. PICK st : st = acc.status[i]
    OBVIOUS
  <2>3. acc.status[i] # "committed"
    BY <1>7
  <2>4. IsAcc(t, acc.graph, [acc.status EXCEPT ![i] = st], acc.failed \cup {i})
    BY <1>6, <2>1, <2>2
  <2>5. QED
    BY <1>1, <1>4, <2>3, <2>4, RefuseTells
<1>8. CASE acc.status[i] \in {"approved", "committed"} /\ ops[i].depends_on \cap acc.failed # {}
  <2>1. t = [acc EXCEPT !.status[i] = "blocked", !.failed = @ \cup {i}]
    BY <1>1, <1>8 DEF Walk
  <2>2. PICK st : st = "blocked"
    OBVIOUS
  <2>3. ops[i].kind # "MergeInto"
    BY <1>5, <1>8
  <2>4. IsAcc(t, acc.graph, [acc.status EXCEPT ![i] = st], acc.failed \cup {i})
    BY <1>6, <2>1, <2>2
  <2>5. QED
    BY <1>1, <1>4, <2>3, <2>4, RefuseTells
<1>9. CASE acc.status[i] = "approved" /\ ops[i].depends_on \cap acc.failed = {} /\ ~Held(acc.graph, ops[i])
  <2>1. t = [acc EXCEPT !.status[i] = "requeued", !.failed = @ \cup {i}]
    BY <1>1, <1>9 DEF Walk, Held
  <2>2. PICK st : st = "requeued"
    OBVIOUS
  <2>3. acc.status[i] # "committed"
    BY <1>9
  <2>4. IsAcc(t, acc.graph, [acc.status EXCEPT ![i] = st], acc.failed \cup {i})
    BY <1>6, <2>1, <2>2
  <2>5. QED
    BY <1>1, <1>4, <2>3, <2>4, RefuseTells
<1>10. CASE acc.status[i] = "approved" /\ ops[i].depends_on \cap acc.failed = {} /\ Held(acc.graph, ops[i])
  <2>1. t = [acc EXCEPT !.status[i] = "committed", !.graph = ApplyOp(@, p, ops, i)]
    BY <1>1, <1>10 DEF Walk, Held
  <2>2. IsAcc(t, ApplyOp(acc.graph, p, ops, i), [acc.status EXCEPT ![i] = "committed"], acc.failed)
    BY <2>1 DEF IsAcc
  <2>3. \A j \in ops[i].depends_on : acc.status[j] = "committed"
    BY <1>1, <1>2, <1>10
  <2>4. <<p, i>> \notin DOMAIN acc.graph.node
    <3>1. ~Landed(qs, p, i)
      BY <1>3, <1>10 DEF Landed
    <3>2. <<p, i>>[1] # 0
      BY <1>4
    <3>3. QED
      BY <1>4, <3>1, <3>2 DEF Minted
  <2>5. QED
    BY <1>1, <1>4, <2>2, <2>3, <2>4, CommitTells
<1>11. CASE acc.status[i] = "committed" /\ ops[i].depends_on \cap acc.failed = {}
  <2>1. t = acc
    BY <1>1, <1>11 DEF Walk
  <2>2. QED
    BY <2>1
<1>12. QED
  BY <1>7, <1>8, <1>9, <1>10, <1>11

LEMMA ToldSelf ==
    ASSUME NEW g, NEW p, NEW ops, NEW status
    PROVE  Told(g, g, p, ops, status)
  BY DEF Told, ToldNode

-----------------------------------------------------------------------------
(* A commit. *)

\* A commit leaves canonical and the patches as they have to be.
LEMMA CommitPatchOK ==
    ASSUME NEW g, NEW ps, World(g, ps), NEW p \in DOMAIN ps,
           NEW ops, ops = ps[p].ops, NEW status, status = ps[p].status,
           NEW done, done = CommitPatch(g, p, ops, status)
    PROVE  /\ World(done.graph, With(ps, p, done.status))
           /\ Tells(done, g, p, ops, status)
<1> DEFINE order == Order(ops)
           f == Walked(g, p, ops, status, order)
           Met(k) == {order[n] : n \in 1 .. k}
           Good(k) == /\ WalkOK(f[k], ps, p, Met(k)) /\ DOMAIN f[k] = {"graph", "status", "failed"}
                      /\ Tells(f[k], g, p, ops, status)
           T == {k \in Nat : Good(k)}
<1>1. /\ Len(order) \in Nat
      /\ \A n \in 1 .. Len(order) :
            /\ order[n] \in 1 .. Len(ops)
            /\ \A j \in ops[order[n]].depends_on : \E m \in 1 .. n - 1 : order[m] = j
  <2>1. PatchSound(ps[p].base, ops)
    BY DEF World, PatchHere
  <2>2. QED
    BY <2>1, OrderOK
<1>2. WalkedByOp(f, g, p, ops, status, order)
  BY <1>1, WalkedUpTo
<1>3. done = f[Len(order)]
  BY DEF CommitPatch
<1> HIDE DEF order, f
<1>4. Good(0)
  <2>1. f[0] = [graph |-> g, status |-> status, failed |-> {}]
    BY <1>2 DEF WalkedByOp
  <2>2. PICK acc : acc = f[0]
    OBVIOUS
  <2>3. acc.graph = g /\ acc.status = status /\ DOMAIN acc = {"graph", "status", "failed"}
    BY <2>1, <2>2
  <2>4. Met(0) = {}
    OBVIOUS
  <2> HIDE DEF Met
  <2>5. World(g, With(ps, p, status))
    BY WorldWith
  <2>6. WalkOK(acc, ps, p, Met(0))
    BY <2>3, <2>4, <2>5 DEF WalkOK
  <2>7. Tells(acc, g, p, ops, status)
    BY <2>3, ToldSelf DEF Tells, MergesStay
  <2>8. QED
    BY <2>2, <2>3, <2>6, <2>7
<1>5. ASSUME NEW k \in Nat, k < Len(order), Good(k)
      PROVE  Good(k + 1)
  <2>1. k + 1 \in 1 .. Len(order) /\ (k + 1) - 1 = k
    BY <1>1, <1>5
  <2>2. f[k + 1] = Walk(f[k], p, ops, order[k + 1])
    BY <1>2, <2>1 DEF WalkedByOp
  <2>3. PICK i \in 1 .. Len(ops) : i = order[k + 1]
    BY <1>1, <2>1
  <2>4. \A j \in ops[i].depends_on : j \in Met(k)
    BY <1>1, <2>1, <2>3
  <2>5. Met(k + 1) = Met(k) \cup {i}
    BY <2>3
  <2> HIDE DEF Met
  <2>6. PICK acc, t : acc = f[k] /\ t = f[k + 1]
    OBVIOUS
  <2>7. /\ WalkOK(t, ps, p, Met(k) \cup {i}) /\ DOMAIN t = {"graph", "status", "failed"}
        /\ Tells(t, g, p, ops, status)
    <3>1. WalkOK(acc, ps, p, Met(k)) /\ DOMAIN acc = {"graph", "status", "failed"}
      BY <1>5, <2>6
    <3>2. t = Walk(acc, p, ps[p].ops, i)
      BY <2>2, <2>3, <2>6
    <3>3. i \in 1 .. Len(ps[p].ops) /\ \A j \in ps[p].ops[i].depends_on : j \in Met(k)
      BY <2>3, <2>4
    <3>4. WalkOK(t, ps, p, Met(k) \cup {i}) /\ DOMAIN t = {"graph", "status", "failed"}
      BY <3>1, <3>2, <3>3, WalkStep
    <3>5. DOMAIN ps[p].base.node \subseteq DOMAIN g.node
      BY DEF World, PatchHere
    <3>6. Tells(acc, g, p, ps[p].ops, status)
      BY <1>5, <2>6
    <3>7. Tells(t, g, p, ps[p].ops, status)
      BY <3>1, <3>2, <3>3, <3>5, <3>6, TellStep
    <3>8. QED
      BY <3>4, <3>7
  <2>8. QED
    BY <2>5, <2>6, <2>7
<1>6. 0 \in T /\ \A k \in Nat : k < Len(order) /\ k \in T => k + 1 \in T
  <2> HIDE DEF Good
  <2>1. QED
    BY <1>4, <1>5
<1>7. Len(order) \in T
  <2> HIDE DEF T
  <2>1. QED
    BY <1>1, <1>6, UpToInduction
<1>8. QED
  BY <1>3, <1>7 DEF WalkOK

-----------------------------------------------------------------------------
(* Which mention each statement in canonical is from. *)

Mentions(x) == Survivors(Candidates[x.doc].entities)

\* A merge of the mention t did not take effect in the patch x.
Refused(x, t) ==
    \E i \in 1 .. Len(x.ops) : /\ x.ops[i].kind = "MergeInto" /\ x.ops[i].temp_id = t
                               /\ x.status[i] # "committed"

\* The statement s on the node n is from a mention of the patch x, staged as p.
QuotedBy(p, x, n, s) ==
    \E e \in ToSet(Mentions(x)) :
        /\ s \in Said(e.description)
        /\ Resolved(p, x.ops, Refers(x.base, Mentions(x), x.answers, e.temp_id)) = n
        /\ ~Refused(x, e.temp_id)

Sourced(ps, n, s) ==
    \/ n \in DOMAIN Graph0.node /\ s \in Said(Graph0.node[n].description)
    \/ \E p \in DOMAIN ps : QuotedBy(p, ps[p], n, s)

AllSourced(g, ps) == \A n \in DOMAIN g.node : \A s \in Said(g.node[n].description) : Sourced(ps, n, s)

\* The patch x as it was diffed.
Spoken(x) ==
    /\ x.doc \in Docs
    /\ GraphOK(x.base) /\ PatchSound(x.base, x.ops)
    /\ AllVoiced(x.base, Mentions(x), x.answers, x.ops)

Vocal(g, ps) ==
    /\ AllSourced(g, ps)
    /\ \A q \in DOMAIN ps : Spoken(ps[q]) /\ AllSourced(ps[q].base, ps)

LEMMA MentionsOK ==
    ASSUME NEW x, x.doc \in Docs
    PROVE  Mentions(x) \in Seq(SurvivorRecords) /\ DistinctIds(Mentions(x))
<1>1. PICK d \in DOMAIN Content : d = x.doc /\ Candidates[x.doc] = Extract(d)
  BY PromotionAssumption DEF Candidates
<1>2. CandidatesOK(Extract(d).entities, Extract(d).relations)
  BY ExtractOK
<1>3. SurvivorsSound(Survivors(Extract(d).entities), Extract(d).entities)
  BY <1>2, SurvivorsOK
<1>4. QED
  BY <1>1, <1>3 DEF SurvivorsSound, DistinctIds, Mentions

\* How an edge refers to the mention e: by its temp id, or by the entity it is.
LEMMA MentionRefers ==
    ASSUME NEW sv \in Seq(SurvivorRecords), DistinctIds(sv), NEW e \in ToSet(sv),
           NEW g, NEW answers, NEW n, n = ResolveEntity(g, e, answers).id
    PROVE  /\ Refers(g, sv, answers, e.temp_id) = IF n = None THEN Ref(e.temp_id, None) ELSE Ref(None, n)
           /\ \A x \in ToSet(sv) : x.temp_id = e.temp_id => x = e
<1>1. ToSet(sv) = {sv[k] : k \in 1 .. Len(sv)}
  BY DEF ToSet
<1>2. PICK t : t = e.temp_id
  OBVIOUS
<1>3. t \in TempIds(sv)
  BY <1>1, <1>2 DEF TempIds
<1>4. PICK k \in 1 .. Len(sv) : k = PlaceOf(sv, t) /\ sv[k].temp_id = t
  BY <1>3, PlaceOfTempId
<1>5. sv[k] = e
  BY <1>1, <1>2, <1>4 DEF DistinctIds
<1>6. Refers(g, sv, answers, t) = IF n = None THEN Ref(t, None) ELSE Ref(None, n)
  BY <1>4, <1>5 DEF Refers, PlaceOf
<1>7. \A x \in ToSet(sv) : x.temp_id = t => x = e
  BY <1>1, <1>2 DEF DistinctIds
<1>8. QED
  BY <1>2, <1>6, <1>7

\* A node that was created says what its mention says.
LEMMA CreateQuoted ==
    ASSUME NEW x, Spoken(x), NEW p, NEW i \in 1 .. Len(x.ops), x.ops[i].kind = "CreateNode",
           NEW s \in Said(x.ops[i].description)
    PROVE  QuotedBy(p, x, <<p, i>>, s)
<1>1. PICK sv, ops, base, answers :
        sv = Mentions(x) /\ ops = x.ops /\ base = x.base /\ answers = x.answers
  OBVIOUS
<1>2. sv \in Seq(SurvivorRecords) /\ DistinctIds(sv)
  BY <1>1, MentionsOK DEF Spoken
<1>3. PICK e \in ToSet(sv) : /\ e.temp_id = ops[i].temp_id /\ e.description = ops[i].description
                             /\ ResolveEntity(base, e, answers).id = None
  BY <1>1 DEF Spoken, AllVoiced, Voiced
<1>4. PICK t : t = e.temp_id
  OBVIOUS
<1>5. Refers(base, sv, answers, t) = Ref(t, None)
  BY <1>2, <1>3, <1>4, MentionRefers
<1>6. \A j \in 1 .. Len(ops) : Introduces(ops, j) /\ ops[j].temp_id = t => j = i
  BY <1>1, <1>3, <1>4 DEF Spoken, PatchSound, Introduces
<1>7. CreatorPlace(ops, t) = i
  <2>1. PICK k : k = CreatorPlace(ops, t)
    OBVIOUS
  <2>2. k \in 1 .. Len(ops) /\ ops[k].kind = "CreateNode" /\ ops[k].temp_id = t
    BY <1>1, <1>3, <1>4, <2>1, PlaceOfCreator
  <2>3. QED
    BY <1>6, <2>1, <2>2 DEF Introduces
<1>8. Resolved(p, ops, Ref(t, None)) = <<p, i>>
  <2>1. PICK ref : ref = Ref(t, None)
    OBVIOUS
  <2>2. ref.temp_id = t /\ ref.canonical_id = None
    BY <2>1 DEF Ref
  <2>3. QED
    BY <1>7, <2>1, <2>2 DEF Resolved, CreatorPlace
<1>9. ~Refused(x, t)
  BY <1>1, <1>6 DEF Refused, Introduces
<1>10. s \in Said(e.description)
  BY <1>1, <1>3
<1>11. QED
  BY <1>1, <1>4, <1>5, <1>8, <1>9, <1>10 DEF QuotedBy

\* A node that was updated says what it said when the patch was diffed, or what a
\* mention of it says that was not refused.
LEMMA UpdateQuoted ==
    ASSUME NEW x, Spoken(x), NEW p, NEW n, NEW i, Released(x.ops, x.status, i, n),
           NEW s \in Said(x.ops[i].description)
    PROVE  /\ n \in DOMAIN x.base.node
           /\ s \in Said(x.base.node[n].description) \/ QuotedBy(p, x, n, s)
<1>1. PICK sv, ops, base, answers :
        sv = Mentions(x) /\ ops = x.ops /\ base = x.base /\ answers = x.answers
  OBVIOUS
<1>2. sv \in Seq(SurvivorRecords) /\ DistinctIds(sv)
  BY <1>1, MentionsOK DEF Spoken
<1>3. /\ i \in 1 .. Len(ops) /\ ops[i].kind = "UpdateNodeProps" /\ ops[i].target = n
      /\ \A j \in ops[i].depends_on : x.status[j] = "committed"
  BY <1>1 DEF Released
<1>4. AllVoiced(base, sv, answers, ops) /\ PatchSound(base, ops) /\ GraphOK(base)
  BY <1>1 DEF Spoken
<1>5. n \in DOMAIN base.node
  BY <1>3, <1>4 DEF PatchSound, AllSound, OpSound, UpdateSound
<1>6. n # None
  BY <1>4, <1>5, NoneAssumption DEF GraphOK
<1>7. Quotes(base, sv, answers, ops, ops[i])
  BY <1>3, <1>4 DEF AllVoiced, Voiced
<1>8. CASE s \in Said(base.node[n].description)
  BY <1>1, <1>5, <1>8
<1>9. ASSUME NEW e \in ToSet(sv), s \in Said(e.description),
             Backs(base, answers, ops, ops[i].depends_on, n, e)
      PROVE  QuotedBy(p, x, n, s)
  <2>1. PICK t : t = e.temp_id
    OBVIOUS
  <2>2. ResolveEntity(base, e, answers).id = n
    BY <1>9 DEF Backs
  <2>3. /\ Refers(base, sv, answers, t) = Ref(None, n)
        /\ \A y \in ToSet(sv) : y.temp_id = t => y = e
    BY <1>2, <1>6, <2>1, <2>2, MentionRefers
  <2>4. Resolved(p, ops, Ref(None, n)) = n
    <3>1. PICK ref : ref = Ref(None, n)
      OBVIOUS
    <3>2. ref.canonical_id = n
      BY <3>1 DEF Ref
    <3>3. QED
      BY <1>6, <3>1, <3>2 DEF Resolved
  <2>5. ASSUME NEW j \in 1 .. Len(ops), ops[j].kind = "MergeInto", ops[j].temp_id = t
        PROVE  x.status[j] = "committed"
    <3>1. PICK y \in ToSet(sv) : y.temp_id = t /\ ResolveEntity(base, y, answers).method # "rules"
      BY <1>4, <2>5 DEF AllVoiced, Voiced
    <3>2. ResolveEntity(base, e, answers).method # "rules"
      BY <2>3, <3>1
    <3>3. PICK k \in ops[i].depends_on : /\ k \in 1 .. Len(ops)
                                         /\ ops[k].kind = "MergeInto" /\ ops[k].temp_id = t
      BY <1>9, <2>1, <3>2 DEF Backs, Waits
    <3>4. k = j
      BY <1>4, <2>5, <3>3 DEF PatchSound, Introduces
    <3>5. QED
      BY <1>3, <3>3, <3>4
  <2>6. ~Refused(x, t)
    BY <1>1, <2>5 DEF Refused
  <2>7. QED
    BY <1>1, <1>9, <2>1, <2>3, <2>4, <2>6 DEF QuotedBy
<1>10. QED
  BY <1>1, <1>3, <1>5, <1>7, <1>8, <1>9 DEF Quotes

\* x and y are one patch, and y has what x merged.
Follows(x, y) ==
    /\ y.doc = x.doc /\ y.ops = x.ops /\ y.base = x.base /\ y.answers = x.answers
    /\ MergesStay(x.ops, x.status, y.status)

LEMMA QuotedStays ==
    ASSUME NEW x, NEW y, Follows(x, y), NEW p, NEW n, NEW s, QuotedBy(p, x, n, s)
    PROVE  QuotedBy(p, y, n, s)
<1>1. Mentions(y) = Mentions(x)
  BY DEF Follows, Mentions
<1>2. \A t : Refused(y, t) => Refused(x, t)
  BY DEF Follows, MergesStay, Refused
<1>3. QED
  BY <1>1, <1>2 DEF Follows, QuotedBy

LEMMA VocalStep ==
    ASSUME NEW g, NEW ps, Vocal(g, ps), NEW p, NEW qs, DOMAIN qs = DOMAIN ps \cup {p},
           \A q \in DOMAIN ps : Follows(ps[q], qs[q]),
           NEW x, x = qs[p], Spoken(x), AllSourced(x.base, ps),
           NEW h, Told(g, h, p, x.ops, x.status)
    PROVE  Vocal(h, qs)
<1>1. ASSUME NEW n, NEW s, Sourced(ps, n, s) PROVE Sourced(qs, n, s)
  <2>1. ASSUME NEW q \in DOMAIN ps, QuotedBy(q, ps[q], n, s) PROVE QuotedBy(q, qs[q], n, s)
    BY <2>1, QuotedStays
  <2>2. QED
    BY <1>1, <2>1 DEF Sourced
<1>2. ASSUME NEW n \in DOMAIN h.node, NEW s \in Said(h.node[n].description)
      PROVE  Sourced(qs, n, s)
  <2>1. ToldNode(g, h, p, x.ops, x.status, n)
    BY DEF Told
  <2>2. CASE n \in DOMAIN g.node /\ h.node[n].description = g.node[n].description
    <3>1. Sourced(ps, n, s)
      BY <2>2 DEF Vocal, AllSourced
    <3>2. QED
      BY <1>1, <3>1
  <2>3. ASSUME NEW i, Released(x.ops, x.status, i, n),
               h.node[n].description = x.ops[i].description
        PROVE  Sourced(qs, n, s)
    <3>1. s \in Said(x.ops[i].description)
      BY <2>3
    <3>2. n \in DOMAIN x.base.node /\ (s \in Said(x.base.node[n].description) \/ QuotedBy(p, x, n, s))
      BY <2>3, <3>1, UpdateQuoted
    <3>3. CASE s \in Said(x.base.node[n].description)
      <4>1. Sourced(ps, n, s)
        BY <3>2, <3>3 DEF AllSourced
      <4>2. QED
        BY <1>1, <4>1
    <3>4. CASE QuotedBy(p, x, n, s)
      BY <3>4 DEF Sourced
    <3>5. QED
      BY <3>2, <3>3, <3>4
  <2>4. ASSUME NEW i \in 1 .. Len(x.ops), x.ops[i].kind = "CreateNode", n = <<p, i>>,
               h.node[n].description = x.ops[i].description
        PROVE  Sourced(qs, n, s)
    <3>1. s \in Said(x.ops[i].description)
      BY <2>4
    <3>2. QuotedBy(p, x, n, s)
      BY <2>4, <3>1, CreateQuoted
    <3>3. QED
      BY <3>2 DEF Sourced
  <2>5. QED
    BY <2>1, <2>2, <2>3, <2>4 DEF ToldNode
<1>3. AllSourced(h, qs)
  BY <1>2 DEF AllSourced
<1>4. ASSUME NEW q \in DOMAIN qs PROVE Spoken(qs[q]) /\ AllSourced(qs[q].base, qs)
  <2>1. CASE q = p
    BY <1>1, <2>1 DEF AllSourced
  <2>2. CASE q # p
    <3>1. q \in DOMAIN ps /\ Spoken(ps[q]) /\ AllSourced(ps[q].base, ps) /\ Follows(ps[q], qs[q])
      BY <2>2 DEF Vocal
    <3>2. Spoken(qs[q])
      <4>1. Mentions(qs[q]) = Mentions(ps[q])
        BY <3>1 DEF Follows, Mentions
      <4>2. QED
        BY <3>1, <4>1 DEF Follows, Spoken
    <3>3. AllSourced(qs[q].base, qs)
      BY <1>1, <3>1 DEF Follows, AllSourced
    <3>4. QED
      BY <3>2, <3>3
  <2>3. QED
    BY <2>1, <2>2
<1>5. QED
  BY <1>3, <1>4 DEF Vocal

-----------------------------------------------------------------------------
(* Patches that come in and change. *)

SameFields(x, y) ==
    x.ops = y.ops /\ x.base = y.base /\ x.accepted = y.accepted /\ x.status = y.status

LEMMA WorldPatch ==
    ASSUME NEW g, NEW ps, World(g, ps), NEW p \in Nat \ {0}, NEW qs,
           DOMAIN qs = DOMAIN ps \cup {p},
           \A q \in DOMAIN ps : q # p => SameFields(ps[q], qs[q]),
           PatchHere(g, qs[p]), Seen(qs[p]), Effects(g, p, qs[p]),
           p \in DOMAIN ps =>
                /\ qs[p].ops = ps[p].ops
                /\ \A i \in 1 .. Len(ps[p].ops) : ps[p].status[i] \in {"committed", "blocked"} =>
                        qs[p].status[i] = ps[p].status[i]
    PROVE  World(g, qs)
<1>1. \A q \in DOMAIN ps : qs[q].ops = ps[q].ops
  BY DEF SameFields
<1>2. \A q, i : Landed(ps, q, i) => Landed(qs, q, i)
  <2> SUFFICES ASSUME NEW q, NEW i, Landed(ps, q, i) PROVE Landed(qs, q, i)
    OBVIOUS
  <2>1. q \in DOMAIN qs /\ q \in DOMAIN ps /\ i \in 1 .. Len(qs[q].ops) /\ i \in 1 .. Len(ps[q].ops)
    BY <1>1 DEF Landed
  <2>2. CASE q = p
    BY <2>1, <2>2 DEF Landed
  <2>3. CASE q # p
    BY <2>1, <2>3 DEF Landed, SameFields
  <2>4. QED
    BY <2>2, <2>3
<1>3. Minted(g, qs)
  BY <1>2 DEF World, Minted
<1>4. NoTwins(g, qs)
  <2>1. NoTwins(g, ps) /\ Minted(g, ps) /\ GraphOK(g)
    BY DEF World
  <2>2. QED
    BY <1>1, <2>1, GuardedSame
<1>5. ASSUME NEW q \in DOMAIN qs
      PROVE  PatchHere(g, qs[q]) /\ Seen(qs[q]) /\ Effects(g, q, qs[q])
  <2>1. CASE q = p
    BY <2>1
  <2>2. CASE q # p
    <3>1. q \in DOMAIN ps /\ SameFields(ps[q], qs[q])
      BY <2>2
    <3>2. PatchHere(g, ps[q]) /\ Seen(ps[q]) /\ Effects(g, q, ps[q])
      BY <3>1 DEF World
    <3>3. QED
      BY <3>1, <3>2 DEF PatchHere, Seen, Effects, SameFields
  <2>3. QED
    BY <2>1, <2>2
<1>6. QED
  BY <1>3, <1>4, <1>5 DEF World

LEMMA WorldSame ==
    ASSUME NEW g, NEW ps, World(g, ps), NEW qs, DOMAIN qs = DOMAIN ps,
           \A q \in DOMAIN ps : SameFields(ps[q], qs[q])
    PROVE  World(g, qs)
<1>1. CASE DOMAIN ps = {}
  BY <1>1 DEF World, Minted, Landed, NoTwins, Guarded, CurrentEdges
<1>2. CASE DOMAIN ps # {}
  <2>1. PICK p \in DOMAIN ps : TRUE
    BY <1>2
  <2>2. p \in Nat \ {0} /\ PatchHere(g, ps[p]) /\ Seen(ps[p]) /\ Effects(g, p, ps[p])
    BY DEF World
  <2>3. PatchHere(g, qs[p]) /\ Seen(qs[p]) /\ Effects(g, p, qs[p])
    BY <2>2 DEF PatchHere, Seen, Effects, SameFields
  <2>4. qs[p].ops = ps[p].ops /\ qs[p].status = ps[p].status
    BY DEF SameFields
  <2>5. DOMAIN qs = DOMAIN ps \cup {p}
    OBVIOUS
  <2>6. QED
    BY <2>2, <2>3, <2>4, <2>5, WorldPatch
<1>3. QED
  BY <1>1, <1>2

PatchFields == {"doc", "ops", "status", "row", "accepted", "base", "answers"}

\* The patches one after the other, of documents there are.
Staged(ps) ==
    /\ IsSequence(ps) /\ Len(ps) \in 0 .. MaxPatches
    /\ \A p \in 1 .. Len(ps) : DOMAIN ps[p] = PatchFields /\ ps[p].doc \in Docs

\* Patch p is x.
Among(ps, p, x, qs) ==
    /\ DOMAIN qs = DOMAIN ps \cup {p}
    /\ qs[p] = x
    /\ \A q \in DOMAIN ps : q # p => qs[q] = ps[q]

Stage(ps, p, y) == IF p \in DOMAIN ps THEN [ps EXCEPT ![p] = y] ELSE Append(ps, y)

LEMMA StageOK ==
    ASSUME NEW ps, Staged(ps), NEW p,
           p \in DOMAIN ps \/ (p = Len(ps) + 1 /\ Len(ps) < MaxPatches),
           NEW y, DOMAIN y = PatchFields, y.doc \in Docs
    PROVE  Staged(Stage(ps, p, y)) /\ Among(ps, p, y, Stage(ps, p, y))
<1>1. PICK S : ps \in Seq(S)
  BY DEF Staged, IsSequence
<1>2. DOMAIN ps = 1 .. Len(ps) /\ Len(ps) \in Nat /\ MaxPatches \in Nat /\ IsSequence(ps)
  BY <1>1, PromotionAssumption DEF Staged
<1>3. CASE p \in DOMAIN ps
  <2>1. PICK t : t = Replaced(ps, p, y) /\ t = Stage(ps, p, y)
    BY <1>3 DEF Replaced, Stage
  <2>2. /\ IsSequence(t) /\ Len(t) = Len(ps) /\ t[p] = y
        /\ \A j \in 1 .. Len(ps) : j # p => t[j] = ps[j]
    <3>1. IsSequence(ps) /\ p \in 1 .. Len(ps) /\ t = Replaced(ps, p, y)
      BY <1>2, <1>3, <2>1
    <3>2. IsSequence(t) /\ Len(t) = Len(ps) /\ t[p] = y
      BY <3>1, ExceptAny
    <3>3. ASSUME NEW j \in 1 .. Len(ps), j # p PROVE t[j] = ps[j]
      BY <3>1, <3>3, ExceptAny
    <3>4. QED
      BY <3>2, <3>3
  <2>3. PICK U : t \in Seq(U)
    BY <2>2 DEF IsSequence
  <2>4. DOMAIN t = 1 .. Len(t)
    BY <2>3
  <2>5. QED
    BY <1>2, <1>3, <2>1, <2>2, <2>4 DEF Staged, Among
<1>4. CASE p \notin DOMAIN ps
  <2>1. PICK t : t = Append(ps, y) /\ t = Stage(ps, p, y)
    BY <1>4 DEF Stage
  <2>2. p = Len(ps) + 1 /\ Len(ps) < MaxPatches
    BY <1>4
  <2>3. /\ IsSequence(t) /\ Len(t) = Len(ps) + 1 /\ t[p] = y /\ Begins(ps, t)
    BY <1>2, <2>1, <2>2, AppendAny
  <2>4. PICK U : t \in Seq(U)
    BY <2>3 DEF IsSequence
  <2>5. DOMAIN t = 1 .. Len(t)
    BY <2>4
  <2>6. \A j \in 1 .. Len(t) : j \in 1 .. Len(ps) \/ j = p
    BY <1>2, <2>2, <2>3
  <2>7. Staged(t)
    BY <1>2, <2>2, <2>3, <2>6 DEF Staged, Begins
  <2>8. Among(ps, p, y, t)
    BY <1>2, <2>2, <2>3, <2>5, <2>6 DEF Among, Begins
  <2>9. QED
    BY <2>1, <2>7, <2>8
<1>5. QED
  BY <1>3, <1>4

IInv ==
    /\ World(canonical, patches)
    /\ Vocal(canonical, patches)
    /\ Staged(patches)
    /\ marked \subseteq Docs

\* One patch takes a step; what canonical says then it said, or that patch says it.
Speaks ==
    \E p \in DOMAIN patches' :
        /\ Among(patches, p, patches'[p], patches')
        /\ Told(canonical, canonical', p, patches'[p].ops, patches'[p].status)
        /\ DOMAIN patches'[p].base.node \subseteq DOMAIN canonical.node

LEMMA FollowsSelf ==
    ASSUME NEW x
    PROVE  Follows(x, x)
  BY DEF Follows, MergesStay

LEMMA CommitNodeOK ==
    ASSUME Staged(patches), marked \subseteq Docs,
           NEW p, p \in DOMAIN patches \/ (p = Len(patches) + 1 /\ Len(patches) < MaxPatches),
           NEW x, DOMAIN x = PatchFields, x.doc \in Docs,
           NEW ps, Among(patches, p, x, ps), World(canonical, ps), Vocal(canonical, ps),
           CommitNode(p, x)
    PROVE  IInv' /\ Speaks
<1>1. PICK done, row :
        /\ done = CommitPatch(canonical, p, x.ops, x.status)
        /\ canonical' = done.graph
        /\ patches' = Stage(patches, p, [x EXCEPT !.status = done.status, !.row = row])
        /\ marked' = IF row = "committed" THEN marked \cup {x.doc} ELSE marked
  BY DEF CommitNode, Stage
<1>2. PICK y : y = [x EXCEPT !.status = done.status, !.row = row]
  OBVIOUS
<1>3. /\ DOMAIN y = PatchFields /\ y.doc = x.doc /\ y.ops = x.ops /\ y.base = x.base
      /\ y.answers = x.answers /\ y.accepted = x.accepted /\ y.status = done.status
  BY <1>2 DEF PatchFields
<1>4. Staged(patches') /\ Among(patches, p, y, patches')
  BY <1>1, <1>2, <1>3, StageOK
<1>5. /\ World(done.graph, With(ps, p, done.status))
      /\ Tells(done, canonical, p, x.ops, x.status)
  <2>1. p \in DOMAIN ps /\ x = ps[p]
    BY DEF Among
  <2>2. QED
    BY <1>1, <2>1, CommitPatchOK
<1>6. World(canonical', patches')
  <2>1. DOMAIN patches' = DOMAIN With(ps, p, done.status)
    BY <1>4 DEF Among, With
  <2>2. ASSUME NEW q \in DOMAIN With(ps, p, done.status)
        PROVE  SameFields(With(ps, p, done.status)[q], patches'[q])
    <3>1. q \in DOMAIN ps
      BY DEF With
    <3>2. PICK w : w = With(ps, p, done.status)[q]
      OBVIOUS
    <3>3. /\ w.ops = ps[q].ops /\ w.base = ps[q].base /\ w.accepted = ps[q].accepted
          /\ w.status = IF q = p THEN done.status ELSE ps[q].status
      BY <3>1, <3>2 DEF With
    <3>4. CASE q = p
      <4>1. patches'[q] = y /\ ps[q] = x
        BY <1>4, <3>4 DEF Among
      <4>2. QED
        BY <1>3, <3>2, <3>3, <3>4, <4>1 DEF SameFields
    <3>5. CASE q # p
      <4>1. patches'[q] = patches[q] /\ ps[q] = patches[q]
        BY <1>4, <3>1, <3>5 DEF Among
      <4>2. QED
        BY <3>2, <3>3, <3>5, <4>1 DEF SameFields
    <3>6. QED
      BY <3>4, <3>5
  <2>3. QED
    BY <1>1, <1>5, <2>1, <2>2, WorldSame
<1>7. /\ Told(canonical, canonical', p, y.ops, y.status)
      /\ MergesStay(x.ops, x.status, y.status)
      /\ p \in DOMAIN patches' /\ patches'[p] = y
  BY <1>1, <1>3, <1>4, <1>5 DEF Tells, Among
<1>8. Vocal(canonical', patches')
  <2>1. p \in DOMAIN ps /\ ps[p] = x /\ DOMAIN patches' = DOMAIN ps \cup {p}
    BY <1>4 DEF Among
  <2>2. Follows(x, y)
    BY <1>3, <1>7 DEF Follows
  <2>3. ASSUME NEW q \in DOMAIN ps PROVE Follows(ps[q], patches'[q])
    <3>1. CASE q = p
      BY <1>7, <2>1, <2>2, <3>1
    <3>2. CASE q # p
      <4>1. ps[q] = patches'[q]
        BY <1>4, <2>1, <3>2 DEF Among
      <4>2. QED
        BY <4>1, FollowsSelf
    <3>3. QED
      BY <3>1, <3>2
  <2>4. Spoken(x) /\ AllSourced(x.base, ps)
    BY <2>1 DEF Vocal
  <2>5. Spoken(y) /\ AllSourced(y.base, ps)
    <3>1. Mentions(y) = Mentions(x)
      BY <1>3 DEF Mentions
    <3>2. QED
      BY <1>3, <2>4, <3>1 DEF Spoken
  <2>6. QED
    BY <1>7, <2>1, <2>3, <2>5, VocalStep
<1>9. Speaks
  <2>1. PatchHere(canonical, x)
    BY DEF Among, World
  <2>2. DOMAIN y.base.node \subseteq DOMAIN canonical.node
    BY <1>3, <2>1 DEF PatchHere
  <2>3. QED
    BY <1>4, <1>7, <2>2 DEF Speaks
<1>10. marked' \subseteq Docs
  BY <1>1
<1>11. QED
  BY <1>4, <1>6, <1>8, <1>9, <1>10 DEF IInv

-----------------------------------------------------------------------------
(* The actions. *)

LEMMA InitInv ==
    ASSUME Init
    PROVE  IInv
<1>1. canonical = Graph0 /\ patches = <<>> /\ marked = {}
  BY DEF Init
<1>2. IsSequence(<<>>) /\ Len(<<>>) = 0 /\ DOMAIN <<>> = {}
  <2>1. <<>> \in Seq({})
    OBVIOUS
  <2>2. QED
    BY <2>1 DEF IsSequence
<1>3. \A n \in DOMAIN Graph0.node \cup DOMAIN Graph0.edge : n \in Ids /\ n[1] = 0
  <2> SUFFICES ASSUME NEW n \in {0} \X Nat PROVE n \in Ids /\ n[1] = 0
    BY PromotionAssumption
  <2>1. QED
    BY DEF Ids
<1>4. GraphOK(Graph0)
  BY <1>3, PromotionAssumption DEF GraphOK
<1>5. Distinct(Graph0)
  BY PromotionAssumption DEF Distinct
<1>6. NoTwins(Graph0, <<>>)
  BY PromotionAssumption DEF NoTwins
<1>7. Minted(Graph0, <<>>)
  BY <1>3 DEF Minted
<1>8. World(Graph0, <<>>)
  BY <1>2, <1>4, <1>5, <1>6, <1>7 DEF World
<1>9. Staged(<<>>)
  BY <1>2, PromotionAssumption DEF Staged
<1>10. Vocal(Graph0, <<>>)
  BY <1>2 DEF Vocal, AllSourced, Sourced
<1>11. QED
  BY <1>1, <1>8, <1>9, <1>10 DEF IInv

LEMMA IngestInv ==
    ASSUME IInv, NEW d \in Docs, Ingest(d)
    PROVE  IInv' /\ Speaks
<1>1. PICK answers \in Answers(canonical, Candidates[d].entities) :
      \E ops \in {ResolveNode(canonical, Candidates[d], answers, verdict) :
                    verdict \in Adjudications(canonical, Candidates[d], answers)} :
        LET p == Len(patches) + 1
            x == [doc |-> d, ops |-> ops, status |-> [i \in DOMAIN ops |-> RoutedStatus(ops[i])],
                  row |-> "pending", accepted |-> {}, base |-> canonical, answers |-> answers]
        IN  IF Awaiting(x) = {} THEN CommitNode(p, x)
            ELSE patches' = Append(patches, x) /\ UNCHANGED <<canonical, marked>>
  BY DEF Ingest
<1>2. PICK ops \in {ResolveNode(canonical, Candidates[d], answers, verdict) :
                    verdict \in Adjudications(canonical, Candidates[d], answers)} :
        LET p == Len(patches) + 1
            x == [doc |-> d, ops |-> ops, status |-> [i \in DOMAIN ops |-> RoutedStatus(ops[i])],
                  row |-> "pending", accepted |-> {}, base |-> canonical, answers |-> answers]
        IN  IF Awaiting(x) = {} THEN CommitNode(p, x)
            ELSE patches' = Append(patches, x) /\ UNCHANGED <<canonical, marked>>
  BY <1>1
<1>3. PICK verdict \in Adjudications(canonical, Candidates[d], answers) :
         ops = ResolveNode(canonical, Candidates[d], answers, verdict)
  OBVIOUS
<1>4. PICK p, x :
        /\ p = Len(patches) + 1
        /\ x = [doc |-> d, ops |-> ops, status |-> [i \in DOMAIN ops |-> RoutedStatus(ops[i])],
                row |-> "pending", accepted |-> {}, base |-> canonical, answers |-> answers]
        /\ \/ CommitNode(p, x)
           \/ patches' = Append(patches, x) /\ UNCHANGED <<canonical, marked>>
  BY <1>2
<1>5. /\ World(canonical, patches) /\ Staged(patches) /\ marked \subseteq Docs /\ GraphOK(canonical)
      /\ Vocal(canonical, patches)
  BY DEF IInv, World
<1>6. /\ PatchSound(canonical, ops)
      /\ AllVoiced(canonical, Survivors(Candidates[d].entities), answers, ops)
  <2>1. Candidates[d] = Extract(d) /\ d \in DOMAIN Content
    BY PromotionAssumption DEF Candidates
  <2>2. ops = ResolveNode(canonical, Candidates[d], answers, verdict)
    BY <1>3
  <2>3. QED
    BY <1>5, <2>1, <2>2, PatchOK, PatchVoiced
<1>7. IsSequence(ops) /\ DOMAIN ops = 1 .. Len(ops) /\ Len(ops) \in Nat
  <2>1. IsSequence(ops)
    BY <1>6 DEF PatchSound, AllSound
  <2>2. PICK S : ops \in Seq(S)
    BY <2>1 DEF IsSequence
  <2>3. QED
    BY <2>1, <2>2
<1>8. \A i \in 1 .. Len(ops) : RoutedStatus(ops[i]) \in {"approved", "rejected", "pending"}
  BY <1>6, RoutedOK DEF PatchSound, AllSound, OpSound
<1>9. /\ DOMAIN x = PatchFields /\ x.doc \in Docs /\ x.doc = d /\ x.answers = answers
      /\ x.ops = ops /\ x.base = canonical
      /\ x.accepted = {} /\ \A i \in 1 .. Len(ops) : x.status[i] = RoutedStatus(ops[i])
      /\ DOMAIN x.status = 1 .. Len(ops)
  <2>1. x.status = [i \in DOMAIN ops |-> RoutedStatus(ops[i])]
    BY <1>4
  <2>2. QED
    BY <1>4, <1>7, <2>1 DEF PatchFields
<1>10. x.status \in [1 .. Len(ops) -> Statuses]
  <2>1. x.status = [i \in 1 .. Len(ops) |-> RoutedStatus(ops[i])]
    BY <1>4, <1>7
  <2>2. QED
    BY <1>8, <2>1 DEF Statuses
<1>11. PatchHere(canonical, x)
  BY <1>5, <1>6, <1>9, <1>10 DEF PatchHere
<1>12. Seen(x) /\ Effects(canonical, p, x)
  BY <1>8, <1>9 DEF Seen, Effects
<1>13. Len(patches) < MaxPatches /\ Len(patches) \in Nat /\ DOMAIN patches = 1 .. Len(patches)
  <2>1. Len(patches) \in Nat /\ MaxPatches \in Nat
    BY <1>5, PromotionAssumption DEF Staged
  <2>2. PICK S : patches \in Seq(S)
    BY <1>5 DEF Staged, IsSequence
  <2>3. Len(patches) < MaxPatches
    BY DEF Ingest
  <2>4. QED
    BY <2>1, <2>2, <2>3
<1>14. p \in Nat \ {0} /\ p \notin DOMAIN patches /\ p = Len(patches) + 1
  BY <1>4, <1>13
<1>15. PICK ps : ps = Stage(patches, p, x)
  OBVIOUS
<1>16. Staged(ps) /\ Among(patches, p, x, ps)
  BY <1>5, <1>9, <1>13, <1>14, <1>15, StageOK
<1>17. World(canonical, ps)
  <2>1. DOMAIN ps = DOMAIN patches \cup {p} /\ ps[p] = x
    BY <1>16 DEF Among
  <2>2. \A q \in DOMAIN patches : q # p => SameFields(patches[q], ps[q])
    BY <1>16 DEF Among, SameFields
  <2>3. QED
    BY <1>5, <1>11, <1>12, <1>14, <2>1, <2>2, WorldPatch
<1>18. Vocal(canonical, ps)
  <2>1. DOMAIN ps = DOMAIN patches \cup {p} /\ ps[p] = x
    BY <1>16 DEF Among
  <2>2. ASSUME NEW q \in DOMAIN patches PROVE Follows(patches[q], ps[q])
    <3>1. ps[q] = patches[q]
      BY <1>14, <1>16 DEF Among
    <3>2. QED
      BY <3>1, FollowsSelf
  <2>3. Spoken(x)
    BY <1>5, <1>6, <1>9 DEF Spoken, Mentions
  <2>4. AllSourced(x.base, patches)
    BY <1>5, <1>9 DEF Vocal
  <2>5. Told(canonical, canonical, p, x.ops, x.status)
    BY ToldSelf
  <2>6. QED
    BY <1>5, <2>1, <2>2, <2>3, <2>4, <2>5, VocalStep
<1>19. CASE CommitNode(p, x)
  BY <1>5, <1>9, <1>13, <1>14, <1>16, <1>17, <1>18, <1>19, CommitNodeOK
<1>20. CASE patches' = Append(patches, x) /\ UNCHANGED <<canonical, marked>>
  <2>1. patches' = ps
    BY <1>14, <1>15, <1>20 DEF Stage
  <2>2. Speaks
    <3>1. p \in DOMAIN ps /\ ps[p] = x
      BY <1>16 DEF Among
    <3>2. Told(canonical, canonical', p, x.ops, x.status)
      BY <1>20, ToldSelf
    <3>3. QED
      BY <1>9, <1>16, <2>1, <3>1, <3>2 DEF Speaks
  <2>3. IInv'
    BY <1>5, <1>16, <1>17, <1>18, <1>20, <2>1 DEF IInv
  <2>4. QED
    BY <2>2, <2>3
<1>21. QED
  BY <1>4, <1>19, <1>20

LEMMA ReviewInv ==
    ASSUME IInv, NEW p \in DOMAIN patches, Review(p)
    PROVE  IInv' /\ Speaks
<1> DEFINE old == patches[p]
<1>1. PICK held \in SUBSET Awaiting(old) : \E rejected \in SUBSET held :
        LET accepted == Awaiting(old) \ held
            decided(i) == IF i \in accepted THEN "approved"
                          ELSE IF i \in rejected THEN "rejected" ELSE old.status[i]
        IN  CommitNode(p, [old EXCEPT !.accepted = @ \cup accepted,
                                      !.status = [i \in DOMAIN @ |-> decided(i)]])
  BY DEF Review
<1>2. PICK rejected \in SUBSET held :
        LET accepted == Awaiting(old) \ held
            decided(i) == IF i \in accepted THEN "approved"
                          ELSE IF i \in rejected THEN "rejected" ELSE old.status[i]
        IN  CommitNode(p, [old EXCEPT !.accepted = @ \cup accepted,
                                      !.status = [i \in DOMAIN @ |-> decided(i)]])
  BY <1>1
<1>3. PICK accepted, status, x :
        /\ accepted = Awaiting(old) \ held
        /\ status = [i \in DOMAIN old.status |->
                        IF i \in accepted THEN "approved"
                        ELSE IF i \in rejected THEN "rejected" ELSE old.status[i]]
        /\ x = [old EXCEPT !.accepted = @ \cup accepted, !.status = status]
        /\ CommitNode(p, x)
  BY <1>2
<1>4. /\ World(canonical, patches) /\ Staged(patches) /\ marked \subseteq Docs
      /\ Vocal(canonical, patches)
  BY DEF IInv
<1>5. /\ PatchHere(canonical, old) /\ Seen(old) /\ Effects(canonical, p, old)
      /\ p \in Nat \ {0}
  BY <1>4 DEF World
<1>6. DOMAIN patches = 1 .. Len(patches)
  <2>1. PICK S : patches \in Seq(S)
    BY <1>4 DEF Staged, IsSequence
  <2>2. QED
    BY <2>1
<1>7. DOMAIN old = PatchFields /\ old.doc \in Docs
  BY <1>4, <1>6 DEF Staged
<1>8. /\ DOMAIN x = PatchFields /\ x.doc \in Docs /\ x.ops = old.ops /\ x.base = old.base
      /\ x.doc = old.doc /\ x.answers = old.answers
      /\ x.accepted = old.accepted \cup accepted /\ x.status = status
  <2> HIDE DEF old
  <2>1. QED
    BY <1>3, <1>7 DEF PatchFields
<1>9. old.status \in [1 .. Len(old.ops) -> Statuses]
  BY <1>5 DEF PatchHere
<1> HIDE DEF old
<1>10. \A i \in Awaiting(old) : old.status[i] = "pending"
  BY DEF Awaiting
<1>11. /\ status \in [1 .. Len(old.ops) -> Statuses]
       /\ \A i \in 1 .. Len(old.ops) :
            /\ i \in accepted => status[i] = "approved"
            /\ i \notin accepted => status[i] = old.status[i]
                                    \/ (status[i] = "rejected" /\ old.status[i] = "pending")
  <2>1. DOMAIN old.status = 1 .. Len(old.ops)
    BY <1>9
  <2>2. \A i \in rejected : old.status[i] = "pending"
    BY <1>10
  <2>3. \A i \in 1 .. Len(old.ops) : old.status[i] \in Statuses
    BY <1>9
  <2>4. "approved" \in Statuses /\ "rejected" \in Statuses
    BY DEF Statuses
  <2>5. QED
    BY <1>3, <2>1, <2>2, <2>3, <2>4
<1>12. PatchHere(canonical, x)
  BY <1>5, <1>8, <1>11 DEF PatchHere
<1>13. Seen(x)
  BY <1>5, <1>8, <1>11 DEF Seen
<1>14. Effects(canonical, p, x)
  BY <1>5, <1>8, <1>11 DEF Effects
<1>15. \A i \in 1 .. Len(old.ops) : old.status[i] \in {"committed", "blocked"} =>
            x.status[i] = old.status[i]
  <2>1. \A i \in accepted : old.status[i] = "pending"
    BY <1>3, <1>10
  <2>2. QED
    BY <1>8, <1>11, <2>1
<1>16. PICK ps : ps = Stage(patches, p, x)
  OBVIOUS
<1>17. Staged(ps) /\ Among(patches, p, x, ps)
  BY <1>4, <1>8, <1>16, StageOK
<1>18. World(canonical, ps)
  <2>1. DOMAIN ps = DOMAIN patches \cup {p} /\ ps[p] = x
    BY <1>17 DEF Among
  <2>2. \A q \in DOMAIN patches : q # p => SameFields(patches[q], ps[q])
    BY <1>17 DEF Among, SameFields
  <2>3. QED
    BY <1>4, <1>5, <1>8, <1>12, <1>13, <1>14, <1>15, <2>1, <2>2, WorldPatch DEF old
<1>19. Vocal(canonical, ps)
  <2>1. DOMAIN ps = DOMAIN patches \cup {p} /\ ps[p] = x
    BY <1>17 DEF Among
  <2>2. Follows(old, x)
    BY <1>8, <1>15 DEF Follows, MergesStay
  <2>3. ASSUME NEW q \in DOMAIN patches PROVE Follows(patches[q], ps[q])
    <3>1. CASE q = p
      BY <2>1, <2>2, <3>1 DEF old
    <3>2. CASE q # p
      <4>1. ps[q] = patches[q]
        BY <1>17, <3>2 DEF Among
      <4>2. QED
        BY <4>1, FollowsSelf
    <3>3. QED
      BY <3>1, <3>2
  <2>4. Spoken(old) /\ AllSourced(old.base, patches)
    BY <1>4 DEF Vocal, old
  <2>5. Spoken(x) /\ AllSourced(x.base, patches)
    <3>1. Mentions(x) = Mentions(old)
      BY <1>8 DEF Mentions
    <3>2. QED
      BY <1>8, <2>4, <3>1 DEF Spoken
  <2>6. Told(canonical, canonical, p, x.ops, x.status)
    BY ToldSelf
  <2>7. QED
    BY <1>4, <2>1, <2>3, <2>5, <2>6, VocalStep
<1>20. QED
  BY <1>3, <1>4, <1>8, <1>17, <1>18, <1>19, CommitNodeOK

LEMMA NextInv ==
    ASSUME IInv, [Next]_vars
    PROVE  IInv' /\ (Speaks \/ UNCHANGED vars)
<1>1. CASE \E d \in Docs : Ingest(d)
  BY <1>1, IngestInv
<1>2. CASE \E p \in DOMAIN patches : Review(p)
  BY <1>2, ReviewInv
<1>3. CASE UNCHANGED vars
  BY <1>3 DEF vars, IInv
<1>4. QED
  BY <1>1, <1>2, <1>3 DEF Next

LEMMA Invariant == Spec => []IInv
<1>1. Init => IInv
  BY InitInv
<1>2. IInv /\ [Next]_vars => IInv'
  BY NextInv
<1>3. QED
  BY <1>1, <1>2, PTL DEF Spec

-----------------------------------------------------------------------------
(* The invariant, and what it says. *)

LEMMA PatchesOK ==
    ASSUME IInv, NEW p \in DOMAIN patches
    PROVE  /\ p \in 1 .. Len(patches) /\ Len(patches) \in 0 .. MaxPatches
           /\ PatchHere(canonical, patches[p]) /\ Seen(patches[p])
           /\ Effects(canonical, p, patches[p])
           /\ DOMAIN patches[p].ops = 1 .. Len(patches[p].ops)
<1>1. World(canonical, patches) /\ Staged(patches)
  BY DEF IInv
<1>2. PICK S : patches \in Seq(S)
  BY <1>1 DEF Staged, IsSequence
<1>3. p \in 1 .. Len(patches) /\ Len(patches) \in 0 .. MaxPatches
  BY <1>1, <1>2 DEF Staged
<1>4. PatchHere(canonical, patches[p]) /\ Seen(patches[p]) /\ Effects(canonical, p, patches[p])
  BY <1>1 DEF World
<1>5. IsSequence(patches[p].ops)
  BY <1>4 DEF PatchHere, PatchSound, AllSound
<1>6. PICK T : patches[p].ops \in Seq(T)
  BY <1>5 DEF IsSequence
<1>7. QED
  BY <1>3, <1>4, <1>6

\* The graph that commits leave is a graph: its edges join nodes it has, their fields
\* are of their types, and every id was minted for an op of a patch there is.
THEOREM TypeCorrect == Spec => []TypeOK
<1>1. IInv => TypeOK
  <2> SUFFICES ASSUME IInv PROVE TypeOK
    OBVIOUS
  <2>1. World(canonical, patches) /\ marked \subseteq Docs
    BY DEF IInv
  <2>2. IsGraph(canonical)
    BY <2>1 DEF World, GraphOK
  <2>3. ASSUME NEW n \in DOMAIN canonical.node \cup DOMAIN canonical.edge
        PROVE  n \in (0 .. MaxPatches) \X Nat
    <3>1. n \in Ids
      BY <2>1 DEF World, GraphOK
    <3>2. PICK a \in Nat, b \in Nat : n = <<a, b>>
      BY <3>1 DEF Ids
    <3>3. a = 0 \/ a \in DOMAIN patches
      BY <2>1, <3>2 DEF World, Minted, Landed
    <3>4. a \in 0 .. MaxPatches
      <4>1. CASE a = 0
        BY <4>1, PromotionAssumption
      <4>2. CASE a \in DOMAIN patches
        <5>1. a \in 1 .. Len(patches) /\ Len(patches) \in 0 .. MaxPatches
          BY <4>2, PatchesOK
        <5>2. QED
          BY <5>1, PromotionAssumption
      <4>3. QED
        BY <3>3, <4>1, <4>2
    <3>5. QED
      BY <3>2, <3>4
  <2>4. QED
    BY <2>1, <2>2, <2>3 DEF TypeOK
<1>2. QED
  BY <1>1, Invariant, PTL

\* No entity is in canonical twice under one name, whatever was diffed before
\* another patch landed (the name check of every CreateNode at commit).
THEOREM EntitiesStayDistinct == Spec => []EntitiesDistinct
<1>1. IInv => EntitiesDistinct
  BY DEF IInv, World, Distinct, EntitiesDistinct
<1>2. QED
  BY <1>1, Invariant, PTL

\* No fact is current twice that was asserted between canonical entities (the
\* edge_absent check of every such AssertEdge at commit).
THEOREM NoTwinFactsHold == Spec => []NoTwinFacts
<1>1. IInv => NoTwinFacts
  BY DEF IInv, World, NoTwins, Guarded, NoTwinFacts
<1>2. QED
  BY <1>1, Invariant, PTL

\* No new entity and no new fact takes effect before a reviewer accepted it: the
\* resolution of 0.5 keeps both out of the automatic tiers.
THEOREM NewKnowledgeReviewedFirst == Spec => []NewKnowledgeSeen
<1>1. IInv => NewKnowledgeSeen
  <2> SUFFICES ASSUME IInv, NEW p \in DOMAIN patches, NEW i \in DOMAIN patches[p].ops,
                      patches[p].ops[i].kind \in {"CreateNode", "AssertEdge"}, Committed(p, i)
               PROVE  i \in patches[p].accepted
    BY DEF NewKnowledgeSeen
  <2>1. /\ PatchHere(canonical, patches[p]) /\ Seen(patches[p]) /\ i \in 1 .. Len(patches[p].ops)
    BY PatchesOK
  <2>2. OpSound(patches[p].base, patches[p].ops, i)
    BY <2>1 DEF PatchHere, PatchSound, AllSound
  <2>3. patches[p].ops[i].resolution = 50 /\ Signals(patches[p].ops[i])
    BY <2>2 DEF OpSound, CreateSound, AssertSound
  <2>4. RoutedStatus(patches[p].ops[i]) = "pending"
    BY <2>3, RoutedOK
  <2>5. QED
    BY <2>1, <2>4 DEF Seen, Committed
<1>2. QED
  BY <1>1, Invariant, PTL

\* What has a new type or is half of a contest takes effect only after a reviewer
\* accepted it, whatever its score (route_op asks for both before it looks at the score).
THEOREM ForcedReviewedFirst == Spec => []ForcedSeen
<1>1. IInv => ForcedSeen
  <2> SUFFICES ASSUME IInv, NEW p \in DOMAIN patches, NEW i \in DOMAIN patches[p].ops,
                      patches[p].ops[i].new_type \/ patches[p].ops[i].semantic,
                      Committed(p, i)
               PROVE  i \in patches[p].accepted
    BY DEF ForcedSeen
  <2>1. /\ PatchHere(canonical, patches[p]) /\ Seen(patches[p]) /\ i \in 1 .. Len(patches[p].ops)
    BY PatchesOK
  <2>2. Signals(patches[p].ops[i])
    BY <2>1 DEF PatchHere, PatchSound, AllSound, OpSound
  <2>3. RoutedStatus(patches[p].ops[i]) = "pending"
    BY <2>2, RoutedOK DEF Forced
  <2>4. QED
    BY <2>1, <2>3 DEF Seen, Committed
<1>2. QED
  BY <1>1, Invariant, PTL


\* What a mention says whose merge was refused is in no description of the entity,
\* unless it was there or another mention says it: whatever the model found alike,
\* folded and joined, and in whatever order the reviewer answered.
THEOREM RejectedStaysSilent == Spec => []RejectedMentionSilent
<1>1. IInv => RejectedMentionSilent
  <2> SUFFICES ASSUME IInv, NEW n \in DOMAIN canonical.node, NEW s \in Statements(canonical.node[n])
               PROVE  \/ n \in DOMAIN Graph0.node /\ s \in Statements(Graph0.node[n])
                      \/ \E p \in DOMAIN patches :
                            \E e \in ToSet(Survivors(Candidates[patches[p].doc].entities)) :
                                /\ s \in Statements(e)
                                /\ Resolved(p, patches[p].ops, End(p, e.temp_id)) = n
                                /\ ~Vetoed(p, e.temp_id)
    BY DEF RejectedMentionSilent
  <2>1. \A record : Statements(record) = Said(record.description)
    BY DEF Statements, Said
  <2>2. Sourced(patches, n, s)
    BY <2>1 DEF IInv, Vocal, AllSourced
  <2>3. CASE n \in DOMAIN Graph0.node /\ s \in Said(Graph0.node[n].description)
    BY <2>1, <2>3
  <2>4. ASSUME NEW p \in DOMAIN patches, QuotedBy(p, patches[p], n, s)
        PROVE  \E e \in ToSet(Survivors(Candidates[patches[p].doc].entities)) :
                    /\ s \in Statements(e)
                    /\ Resolved(p, patches[p].ops, End(p, e.temp_id)) = n
                    /\ ~Vetoed(p, e.temp_id)
    <3>1. DOMAIN patches[p].ops = 1 .. Len(patches[p].ops)
      BY PatchesOK
    <3>2. \A t : Vetoed(p, t) => Refused(patches[p], t)
      BY <3>1 DEF Vetoed, Refused, Committed
    <3>3. QED
      BY <2>1, <2>4, <3>2 DEF QuotedBy, Mentions, End
  <2>5. QED
    BY <2>2, <2>3, <2>4 DEF Sourced
<1>2. QED
  BY <1>1, Invariant, PTL

\* The node n of the patch x says what it said.
LEMMA KeptByPatch ==
    ASSUME NEW x, Spoken(x), \A e \in ToSet(Mentions(x)) : Short(e),
           NEW n \in DOMAIN x.base.node, NEW g, n \in DOMAIN g.node, g.node[n] = x.base.node[n],
           Short(g.node[n]), NEW h, NEW p, ToldNode(g, h, p, x.ops, x.status, n)
    PROVE  Kept(g.node[n], h.node[n])
<1>1. \A record : Statements(record) = Said(record.description)
  BY DEF Statements, Said
<1>2. \A record : Short(record) => Fits(record.description)
  BY DEF Short, Fits
<1>3. ASSUME NEW i, Released(x.ops, x.status, i, n)
      PROVE  /\ x.ops[i].description # None => Said(g.node[n].description) \subseteq Said(x.ops[i].description)
             /\ g.node[n].attr # None => x.ops[i].attr = None
  <2>1. Keeps(x.base, Mentions(x), x.ops[i]) /\ x.ops[i].target = n
    BY <1>3 DEF Spoken, AllVoiced, Voiced, Released
  <2>2. QED
    BY <1>2, <2>1 DEF Keeps
<1>4. Said(g.node[n].description) \subseteq Said(h.node[n].description)
  BY <1>3 DEF ToldNode
<1>5. g.node[n].attr # None => h.node[n].attr = g.node[n].attr
  BY <1>3 DEF ToldNode
<1>6. QED
  BY <1>1, <1>4, <1>5 DEF Kept

\* A patch committed before its target changes takes nothing away of what the target
\* said, for every text within the cap.
THEOREM ValuesStay == Spec => ValuesKeptIfUnchanged
<1> DEFINE Stays ==
        \A p \in DOMAIN patches' :
            /\ p \notin DOMAIN patches \/ patches'[p] # patches[p]
            /\ \A e \in ToSet(Survivors(Candidates[patches'[p].doc].entities)) : Short(e)
            => \A n \in DOMAIN patches'[p].base.node :
                    canonical.node[n] = patches'[p].base.node[n] /\ Short(canonical.node[n]) =>
                        Kept(canonical.node[n], canonical'.node[n])
<1>1. ASSUME IInv, IInv', Speaks PROVE Stays
  <2>1. PICK p \in DOMAIN patches' :
          /\ Among(patches, p, patches'[p], patches')
          /\ Told(canonical, canonical', p, patches'[p].ops, patches'[p].status)
          /\ DOMAIN patches'[p].base.node \subseteq DOMAIN canonical.node
    BY <1>1 DEF Speaks
  <2>2. PICK x, g, h : x = patches'[p] /\ g = canonical /\ h = canonical'
    OBVIOUS
  <2>3. Spoken(x) /\ DOMAIN x.base.node \subseteq DOMAIN h.node
    BY <1>1, <2>2 DEF IInv, Vocal, World, PatchHere
  <2>4. ASSUME \A e \in ToSet(Mentions(x)) : Short(e), NEW n \in DOMAIN x.base.node,
               g.node[n] = x.base.node[n], Short(g.node[n])
        PROVE  Kept(g.node[n], h.node[n])
    <3>1. n \in DOMAIN g.node /\ ToldNode(g, h, p, x.ops, x.status, n)
      BY <2>1, <2>2, <2>3 DEF Told
    <3>2. QED
      BY <2>3, <2>4, <3>1, KeptByPatch
  <2>5. \A q \in DOMAIN patches' : q \notin DOMAIN patches \/ patches'[q] # patches[q] => q = p
    BY <2>1 DEF Among
  <2>6. QED
    BY <2>2, <2>4, <2>5 DEF Mentions
<1>2. IInv /\ IInv' /\ [Next]_vars => [Stays]_vars
  <2>1. SUFFICES ASSUME IInv, IInv', [Next]_vars PROVE [Stays]_vars
    OBVIOUS
  <2>2. Speaks \/ UNCHANGED vars
    BY <2>1, NextInv
  <2>3. QED
    BY <1>1, <2>1, <2>2
<1>3. QED
  BY <1>2, Invariant, PTL DEF Spec, ValuesKeptIfUnchanged

\* What the diff asks held when it asked.
LEMMA AskedHeld ==
    ASSUME NEW g, NEW ops, AllSound(g, ops), NEW i \in 1 .. Len(ops),
           NEW pre \in ops[i].preconditions
    PROVE  Holds(g, pre)
<1>1. PICK op : op = ops[i]
  OBVIOUS
<1>2. OpSound(g, ops, i) /\ pre \in op.preconditions
  BY <1>1 DEF AllSound
<1>3. CASE op.kind = "CreateNode"
  <2>1. pre = NameAbsent(op.name) /\ FindByName(g, op.name) = {}
    BY <1>1, <1>2, <1>3 DEF OpSound, CreateSound
  <2>2. QED
    BY <2>1 DEF Holds, NameAbsent, Precondition
<1>4. CASE op.kind = "MergeInto"
  <2>1. pre = NodeExists(op.target) /\ op.target \in DOMAIN g.node
    BY <1>1, <1>2, <1>4 DEF OpSound, MergeSound
  <2>2. QED
    BY <2>1 DEF Holds, NodeExists, Precondition
<1>5. CASE op.kind = "UpdateNodeProps"
  <2>1. /\ op.target \in DOMAIN g.node
        /\ \/ pre = NodeExists(op.target)
           \/ pre = PropEquals(op.target, g.node[op.target].description)
    BY <1>1, <1>2, <1>5 DEF OpSound, UpdateSound
  <2>2. CASE pre = NodeExists(op.target)
    BY <2>1, <2>2 DEF Holds, NodeExists, Precondition
  <2>3. CASE pre = PropEquals(op.target, g.node[op.target].description)
    <3>1. pre.kind = "prop_equals" /\ pre.subject = op.target
          /\ pre.value = g.node[op.target].description
      BY <2>3 DEF PropEquals, Precondition
    <3>2. QED
      BY <2>1, <3>1 DEF Holds
  <2>4. QED
    BY <2>1, <2>2, <2>3
<1>6. CASE op.kind = "AssertEdge"
  <2>1. /\ BothCanonical(op.subject, op.object)
        /\ pre = EdgeAbsent(op.subject.canonical_id, op.predicate, op.object.canonical_id)
    BY <1>1, <1>2, <1>6 DEF OpSound, AssertSound
  <2>2. EdgesBetween(g, op.subject.canonical_id, op.object.canonical_id, op.predicate) = {}
    BY <1>1, <1>2, <1>6, <2>1 DEF OpSound, AssertSound
  <2>3. QED
    BY <2>1, <2>2 DEF Holds, EdgeAbsent, Precondition
<1>7. CASE op.kind \in {"InvalidateEdge", "ReinforceEdge"}
  <2>1. pre = EdgeExists(op.target) /\ op.target \in CurrentEdges(g)
    BY <1>1, <1>2, <1>7 DEF OpSound, EdgeOpSound
  <2>2. QED
    BY <2>1 DEF Holds, EdgeExists, Precondition
<1>8. QED
  BY <1>1, <1>2, <1>3, <1>4, <1>5, <1>6, <1>7 DEF OpSound, Kinds

LEMMA AskedOneDeep ==
    ASSUME NEW g, NEW ops, AllSound(g, ops), NEW i \in 1 .. Len(ops), NEW j \in ops[i].depends_on
    PROVE  j \in 1 .. Len(ops) /\ Introduces(ops, j) /\ ops[j].depends_on = {}
<1>1. OpSound(g, ops, i)
  BY DEF AllSound
<1>2. j \in 1 .. Len(ops) /\ ops[j].kind \in {"CreateNode", "MergeInto"}
  BY <1>1 DEF OpSound, Kinds, CreateSound, MergeSound, UpdateSound, AssertSound, EdgeOpSound,
              Merges
<1>3. OpSound(g, ops, j)
  BY <1>2 DEF AllSound
<1>4. QED
  BY <1>2, <1>3 DEF OpSound, CreateSound, MergeSound, Introduces

LEMMA DiffedSound ==
    ASSUME NEW base, NEW ops, PatchSound(base, ops), DOMAIN ops = 1 .. Len(ops),
           NEW i \in DOMAIN ops
    PROVE  DiffedWith(base, ops, i)
<1>1. PICK op : op = ops[i]
  OBVIOUS
<1>2. AllSound(base, ops) /\ OpSound(base, ops, i) /\ i \in 1 .. Len(ops)
  BY DEF PatchSound, AllSound
<1>3. op.kind = "MergeInto" => op.target \in DOMAIN base.node
  BY <1>1, <1>2 DEF OpSound, MergeSound
<1>4. op.kind = "AssertEdge" => RefSound(base, ops, op.depends_on, op.subject)
                                /\ RefSound(base, ops, op.depends_on, op.object)
  BY <1>1, <1>2 DEF OpSound, AssertSound
<1>5. op.kind = "ReinforceEdge" => op.target \in DOMAIN base.edge
  BY <1>1, <1>2 DEF OpSound, EdgeOpSound, CurrentEdges
<1>6. op.kind = "CreateNode" =>
          \E pre \in op.preconditions : pre.kind = "name_absent" /\ pre.subject = op.name
  <2>1. op.kind = "CreateNode" => NameAbsent(op.name) \in op.preconditions
    BY <1>1, <1>2 DEF OpSound, CreateSound
  <2>2. PICK pre : pre = NameAbsent(op.name)
    OBVIOUS
  <2>3. pre.kind = "name_absent" /\ pre.subject = op.name
    BY <2>2 DEF NameAbsent, Precondition
  <2>4. QED
    BY <2>1, <2>2, <2>3
<1>7. op.kind = "InvalidateEdge" =>
          \E pre \in op.preconditions : pre.kind = "edge_exists" /\ pre.subject = op.target
  <2>1. op.kind = "InvalidateEdge" => EdgeExists(op.target) \in op.preconditions
    BY <1>1, <1>2 DEF OpSound, EdgeOpSound
  <2>2. PICK pre : pre = EdgeExists(op.target)
    OBVIOUS
  <2>3. pre.kind = "edge_exists" /\ pre.subject = op.target
    BY <2>2 DEF EdgeExists, Precondition
  <2>4. QED
    BY <2>1, <2>2, <2>3
<1>8. op.kind \in {"CreateNode", "MergeInto"} =>
          \A j \in DOMAIN ops :
              ops[j].kind \in {"CreateNode", "MergeInto"} /\ ops[j].temp_id = op.temp_id => j = i
  BY <1>1, <1>2 DEF PatchSound, Introduces
<1>9. \A j \in op.depends_on : ops[j].depends_on = {}
  BY <1>1, <1>2, AskedOneDeep
<1>10. \A pre \in op.preconditions : Holds(base, pre)
  BY <1>1, <1>2, AskedHeld
<1>11. op.kind = "AssertEdge" =>
          \A ref \in {op.subject, op.object} :
            \/ ref.temp_id = None /\ ref.canonical_id \in DOMAIN base.node
            \/ /\ ref.canonical_id = None
               /\ \E j \in op.depends_on : /\ ops[j].kind \in {"CreateNode", "MergeInto"}
                                           /\ ops[j].temp_id = ref.temp_id
  BY <1>4 DEF RefSound
<1>12. QED
  BY <1>1, <1>3, <1>5, <1>6, <1>7, <1>8, <1>9, <1>10, <1>11 DEF DiffedWith

\* Every patch names what its graph has, waits for what it introduces, asks for what
\* it needs, and could have been committed when it was diffed: what GateLoop
\* assumes of a patch, ResolvePatch makes.
THEOREM DiffsSound == Spec => []DiffSound
<1>1. IInv => DiffSound
  <2> SUFFICES ASSUME IInv, NEW p \in DOMAIN patches, NEW i \in DOMAIN patches[p].ops
               PROVE  DiffedWith(patches[p].base, patches[p].ops, i)
    BY DEF DiffSound, Newest
  <2>1. PatchSound(patches[p].base, patches[p].ops) /\ DOMAIN patches[p].ops = 1 .. Len(patches[p].ops)
    BY PatchesOK DEF PatchHere
  <2>2. QED
    BY <2>1, DiffedSound
<1>2. QED
  BY <1>1, Invariant, PTL

LEMMA SupersededByOnly ==
    ASSUME NEW p, NEW i \in Nat, NEW j \in 1 .. i - 1,
           patches[p].ops[j].kind = "AssertEdge",
           \A k \in j + 1 .. i : patches[p].ops[k].kind = "InvalidateEdge"
    PROVE  SupersededBy(p, i) = j
<1>1. ASSUME NEW m \in 1 .. i - 1, patches[p].ops[m].kind = "AssertEdge",
             \A k \in m + 1 .. i : patches[p].ops[k].kind = "InvalidateEdge"
      PROVE  m = j
  <2>1. m \notin j + 1 .. i /\ j \notin m + 1 .. i
    BY <1>1
  <2>2. QED
    BY <2>1
<1>2. QED
  BY <1>1 DEF SupersededBy

\* The old fact ends when the new one begins: at each moment one of them is valid.
THEOREM HandoversExact == Spec => []HandoverExact
<1>1. IInv => HandoverExact
  <2> SUFFICES ASSUME IInv, NEW p \in DOMAIN patches, NEW i \in DOMAIN patches[p].ops,
                      patches[p].ops[i].kind = "InvalidateEdge", Committed(p, i),
                      NEW j, j = SupersededBy(p, i),
                      NEW old, old = canonical.edge[patches[p].ops[i].target],
                      NEW new, new = canonical.edge[<<p, j>>],
                      Committed(p, j), new.valid_from # None,
                      NEW t \in AsOf \ {None}, old.valid_from = None \/ old.valid_from <= t
               PROVE  Valid(old, t) <=> t < new.valid_from
    BY DEF HandoverExact
  <2>1. /\ PatchHere(canonical, patches[p]) /\ Effects(canonical, p, patches[p])
        /\ i \in 1 .. Len(patches[p].ops)
    BY PatchesOK
  <2>2. CloseSound(patches[p].ops, i)
    BY <2>1 DEF PatchHere, PatchSound, AllSound, OpSound
  <2>3. PICK m \in 1 .. i - 1 :
          /\ patches[p].ops[m].kind = "AssertEdge"
          /\ \A k \in m + 1 .. i : patches[p].ops[k].kind = "InvalidateEdge"
          /\ patches[p].ops[m].valid_from # None =>
                patches[p].ops[i].valid_to = patches[p].ops[m].valid_from
    BY <2>2 DEF CloseSound
  <2>4. m = j /\ i \in Nat
    BY <2>1, <2>3, SupersededByOnly
  <2>5. j \in 1 .. Len(patches[p].ops)
    BY <2>1, <2>3, <2>4
  <2>6. new.valid_from = patches[p].ops[j].valid_from
    BY <2>1, <2>3, <2>4, <2>5 DEF Effects, Effect, Committed
  <2>7. old.valid_to = patches[p].ops[i].valid_to /\ old.valid_to \in Nat
    BY <2>1 DEF Effects, Effect, Committed
  <2>8. old.valid_to = new.valid_from /\ old.valid_to # None /\ t # None
    BY <2>3, <2>4, <2>6, <2>7, NoneAssumption
  <2>9. t \in Nat
    BY PromotionAssumption DEF Dates
  <2>10. QED
    BY <2>7, <2>8, <2>9 DEF Valid
<1>2. QED
  BY <1>1, Invariant, PTL

-----------------------------------------------------------------------------
(* A patch committed at once: the order of its ops. *)

\* Each op has its turn, once; those that wait for nothing in their order, before the
\* others.
Turns(order, ops) ==
    /\ \A i \in 1 .. Len(ops) : \E n \in 1 .. Len(order) : order[n] = i
    /\ \A m, n \in 1 .. Len(order) : m < n =>
        /\ order[m] # order[n]
        /\ ops[order[n]].depends_on = {} => order[m] < order[n]

LEMMA PlacesPicked ==
    ASSUME NEW N \in Nat, NEW places \in Seq(1 .. N), DOMAIN places = 1 .. N,
           \A i \in 1 .. N : places[i] = i, NEW I \in SUBSET (1 .. N),
           NEW a, a = Picked(places, I)
    PROVE  /\ IsSequence(a) /\ Len(a) \in Nat
           /\ \A n \in 1 .. Len(a) : a[n] \in I
           /\ \A m, n \in 1 .. Len(a) : m < n => a[m] < a[n]
           /\ \A i \in I : \E n \in 1 .. Len(a) : a[n] = i
<1>1. PICK at : a \in Seq(1 .. N) /\ Picking(at, a, places, DOMAIN places \cap I)
  BY PickedPlaces
<1>2. DOMAIN places \cap I = I
  OBVIOUS
<1>3. /\ at \in [1 .. Len(a) -> I]
      /\ \A n \in 1 .. Len(a) : a[n] = places[at[n]]
      /\ \A m, n \in 1 .. Len(a) : m < n => at[m] < at[n]
      /\ \A i \in I : \E n \in 1 .. Len(a) : at[n] = i
  BY <1>1, <1>2 DEF Picking
<1>4. \A n \in 1 .. Len(a) : a[n] = at[n] /\ at[n] \in I
  BY <1>3
<1>5. IsSequence(a) /\ Len(a) \in Nat
  BY <1>1 DEF IsSequence
<1>6. QED
  BY <1>3, <1>4, <1>5

LEMMA OrderTurns ==
    ASSUME NEW ops, IsSequence(ops)
    PROVE  Turns(Order(ops), ops)
<1> DEFINE places == [i \in DOMAIN ops |-> i]
           I == {i \in DOMAIN ops : ops[i].depends_on = {}}
           J == {i \in DOMAIN ops : ops[i].depends_on # {}}
           a == Picked(places, I)
           b == Picked(places, J)
           N == 1 .. Len(ops)
<1>1. DOMAIN ops = N /\ Len(ops) \in Nat
  <2>1. PICK S : ops \in Seq(S)
    BY DEF IsSequence
  <2>2. QED
    BY <2>1
<1>2. places \in Seq(N) /\ DOMAIN places = N /\ \A i \in N : places[i] = i
  <2>1. places \in [N -> N]
    BY <1>1
  <2>2. QED
    BY <1>1, <2>1, FunctionIsSeq
<1> HIDE DEF places
<1>3. I \in SUBSET N /\ J \in SUBSET N /\ \A i \in N : i \in I \/ i \in J
  BY <1>1
<1>4. /\ \A i \in I : ops[i].depends_on = {}
      /\ \A i \in J : ops[i].depends_on # {}
  OBVIOUS
<1> HIDE DEF I, J
<1>5. /\ IsSequence(a) /\ Len(a) \in Nat
      /\ \A n \in 1 .. Len(a) : a[n] \in I
      /\ \A m, n \in 1 .. Len(a) : m < n => a[m] < a[n]
      /\ \A i \in I : \E n \in 1 .. Len(a) : a[n] = i
  BY <1>1, <1>2, <1>3, PlacesPicked
<1>6. /\ IsSequence(b) /\ Len(b) \in Nat
      /\ \A n \in 1 .. Len(b) : b[n] \in J
      /\ \A m, n \in 1 .. Len(b) : m < n => b[m] < b[n]
      /\ \A i \in J : \E n \in 1 .. Len(b) : b[n] = i
  BY <1>1, <1>2, <1>3, PlacesPicked
<1>7. PICK t : t = a \o b
  OBVIOUS
<1>8. Order(ops) = t
  BY <1>7 DEF Order, places, I, J
<1> HIDE DEF a, b
<1>9. IsSequence(a) /\ IsSequence(b)
  BY <1>5, <1>6
<1>10. Begins(a, t)
  BY <1>7, <1>9, ConcatAny
<1>11. ASSUME NEW n \in 1 .. Len(t)
       PROVE  n \in 1 .. Len(a) \/ \E m \in 1 .. Len(b) : n = Len(a) + m
  BY <1>7, <1>9, ConcatAny
<1>12. ASSUME NEW m \in 1 .. Len(b) PROVE Len(a) + m \in 1 .. Len(t) /\ t[Len(a) + m] = b[m]
  BY <1>7, <1>9, ConcatAny
<1>13. \A n \in 1 .. Len(a) : n \in 1 .. Len(t) /\ t[n] = a[n]
  BY <1>10 DEF Begins
<1>14. ASSUME NEW i \in N PROVE \E n \in 1 .. Len(t) : t[n] = i
  <2>1. CASE i \in I
    BY <1>5, <1>13, <2>1
  <2>2. CASE i \in J
    BY <1>6, <1>12, <2>2
  <2>3. QED
    BY <1>3, <2>1, <2>2
<1>15. ASSUME NEW m \in 1 .. Len(t), NEW n \in 1 .. Len(t), m < n
       PROVE  t[m] # t[n] /\ (ops[t[n]].depends_on = {} => t[m] < t[n])
  <2>1. CASE n \in 1 .. Len(a)
    <3>1. m \in 1 .. Len(a)
      BY <1>5, <1>15, <2>1
    <3>2. t[m] < t[n] /\ t[m] \in N /\ t[n] \in N
      BY <1>3, <1>5, <1>13, <1>15, <2>1, <3>1
    <3>3. QED
      BY <1>1, <3>2
  <2>2. CASE \E k \in 1 .. Len(b) : n = Len(a) + k
    <3>1. PICK k \in 1 .. Len(b) : n = Len(a) + k
      BY <2>2
    <3>2. t[n] \in J /\ t[n] = b[k] /\ ops[t[n]].depends_on # {}
      BY <1>4, <1>6, <1>12, <3>1
    <3>3. CASE m \in 1 .. Len(a)
      BY <1>4, <1>5, <1>13, <3>2, <3>3
    <3>4. CASE \E l \in 1 .. Len(b) : m = Len(a) + l
      <4>1. PICK l \in 1 .. Len(b) : m = Len(a) + l
        BY <3>4
      <4>2. l < k /\ t[m] = b[l]
        BY <1>5, <1>6, <1>12, <1>15, <3>1, <4>1
      <4>3. b[l] < b[k] /\ b[l] \in N /\ b[k] \in N
        BY <1>3, <1>6, <4>2
      <4>4. QED
        BY <1>1, <3>2, <4>2, <4>3
    <3>5. QED
      BY <1>11, <3>3, <3>4
  <2>3. QED
    BY <1>11, <2>1, <2>2
<1>16. QED
  BY <1>8, <1>14, <1>15 DEF Turns

-----------------------------------------------------------------------------
(* What the edges are after an op. *)

LEMMA EdgesLeft ==
    ASSUME NEW g, GraphOK(g), NEW p, NEW ops, NEW i, OfEntity(ops, i),
           NEW h, h = ApplyOp(g, p, ops, i)
    PROVE  h.edge = g.edge
<1>1. DOMAIN g = {"node", "edge"}
  BY DEF GraphOK, IsGraph
<1>2. CASE ops[i].kind = "MergeInto"
  BY <1>2 DEF ApplyOp
<1>3. CASE ops[i].kind = "CreateNode"
  <2>1. \E nodes : h = [g EXCEPT !.node = nodes]
    BY <1>3 DEF ApplyOp
  <2>2. QED
    BY <1>1, <2>1
<1>4. CASE ops[i].kind = "UpdateNodeProps"
  <2>1. h = [[g EXCEPT !.node[ops[i].target].description = Given(ops[i].description, @)]
                EXCEPT !.node[ops[i].target].attr = Given(ops[i].attr, @)]
    BY <1>4 DEF ApplyOp
  <2>2. QED
    BY <1>1, <2>1
<1>5. QED
  BY <1>2, <1>3, <1>4 DEF OfEntity

\* The fact that the assertion i of the patch p states.
Stated(p, ops, i) ==
    <<Resolved(p, ops, ops[i].subject), ops[i].predicate, Resolved(p, ops, ops[i].object)>>

LEMMA EdgesAsserted ==
    ASSUME NEW g, GraphOK(g), NEW p, NEW ops, NEW i, ops[i].kind = "AssertEdge",
           NEW h, h = ApplyOp(g, p, ops, i)
    PROVE  /\ Fact(h, <<p, i>>) = Stated(p, ops, i) /\ h.edge[<<p, i>>].valid_to = None
           /\ \A e \in DOMAIN h.edge : e # <<p, i>> => e \in DOMAIN g.edge
           /\ \A e \in DOMAIN g.edge : e # <<p, i>> => e \in DOMAIN h.edge /\ h.edge[e] = g.edge[e]
<1> DEFINE v == [subject |-> Resolved(p, ops, ops[i].subject), predicate |-> ops[i].predicate,
                 object |-> Resolved(p, ops, ops[i].object),
                 valid_from |-> ops[i].valid_from, valid_to |-> None, support |-> 1]
<1>1. h = [g EXCEPT !.edge = Put(g.edge, <<p, i>>, v)] /\ DOMAIN g = {"node", "edge"}
  BY DEF ApplyOp, GraphOK, IsGraph
<1>2. <<v.subject, v.predicate, v.object>> = Stated(p, ops, i) /\ v.valid_to = None
  BY DEF Stated
<1> HIDE DEF v
<1>3. h.edge = Put(g.edge, <<p, i>>, v)
  BY <1>1
<1>4. h.edge[<<p, i>>] = v
  BY <1>3 DEF Put
<1>5. QED
  BY <1>2, <1>3, <1>4 DEF Put, Fact

LEMMA EdgesTouched ==
    ASSUME NEW g, GraphOK(g), NEW p, NEW ops, NEW i, ops[i].kind \in {"InvalidateEdge", "ReinforceEdge"},
           ops[i].target \in DOMAIN g.edge, NEW h, h = ApplyOp(g, p, ops, i)
    PROVE  /\ DOMAIN h.edge = DOMAIN g.edge
           /\ \A e \in DOMAIN g.edge : e # ops[i].target => h.edge[e] = g.edge[e]
           /\ ops[i].kind = "ReinforceEdge" =>
                h.edge[ops[i].target].valid_to = g.edge[ops[i].target].valid_to
<1>1. /\ DOMAIN g = {"node", "edge"}
      /\ g.edge[ops[i].target] \in [subject : DOMAIN g.node, predicate : Labels,
                                    object : DOMAIN g.node, valid_from : Dates, valid_to : Dates,
                                    support : Nat \ {0}]
  BY DEF GraphOK, IsGraph
<1>2. CASE ops[i].kind = "InvalidateEdge"
  <2>1. h = [g EXCEPT !.edge[ops[i].target].valid_to = ops[i].valid_to]
    BY <1>2 DEF ApplyOp
  <2>2. h.edge = [g.edge EXCEPT ![ops[i].target].valid_to = ops[i].valid_to]
    BY <1>1, <2>1
  <2>3. QED
    BY <1>2, <2>2
<1>3. CASE ops[i].kind = "ReinforceEdge"
  <2>1. h = [g EXCEPT !.edge[ops[i].target].support = @ + 1]
    BY <1>3 DEF ApplyOp
  <2>2. h.edge = [g.edge EXCEPT ![ops[i].target].support = @ + 1]
    BY <1>1, <2>1
  <2>3. QED
    BY <1>1, <1>3, <2>2
<1>4. QED
  BY <1>2, <1>3

LEMMA NameCreated ==
    ASSUME NEW g, GraphOK(g), NEW p, NEW ops, NEW i, ops[i].kind = "CreateNode",
           NEW h, h = ApplyOp(g, p, ops, i)
    PROVE  h.node[<<p, i>>].name = ops[i].name
<1> DEFINE v == [name |-> ops[i].name, entity_type |-> ops[i].entity_type,
                 description |-> ops[i].description, attr |-> ops[i].attr]
<1>1. h = [g EXCEPT !.node = Put(g.node, <<p, i>>, v)] /\ DOMAIN g = {"node", "edge"}
  BY DEF ApplyOp, GraphOK, IsGraph
<1>2. v.name = ops[i].name
  OBVIOUS
<1> HIDE DEF v
<1>3. h.node = Put(g.node, <<p, i>>, v)
  BY <1>1
<1>4. QED
  BY <1>2, <1>3 DEF Put

-----------------------------------------------------------------------------
(* What the ops at D, those the walk has met, have made of the graph base. *)

\* The node n of base is as it was, or as its one update left it.
NodeShows(g, base, ops, D, n) ==
    \/ /\ g.node[n].description = base.node[n].description /\ g.node[n].attr = base.node[n].attr
       /\ \A i \in D : ~(UpdateAt(ops, i) /\ ops[i].target = n)
    \/ \E i \in D : /\ UpdateAt(ops, i) /\ ops[i].target = n
                    /\ g.node[n].description = Given(ops[i].description, base.node[n].description)
                    /\ g.node[n].attr = Given(ops[i].attr, base.node[n].attr)

\* The node n is as a creation made it.
NodeIsNew(g, p, ops, D, n) ==
    \E i \in D : /\ n = <<p, i>> /\ ops[i].kind = "CreateNode"
                 /\ g.node[n].name = ops[i].name
                 /\ g.node[n].description = ops[i].description
                 /\ g.node[n].attr = ops[i].attr

NodesShow(g, base, p, ops, D) ==
    /\ \A n \in DOMAIN g.node : n \in DOMAIN base.node \/ NodeIsNew(g, p, ops, D, n)
    /\ \A n \in DOMAIN base.node : NodeShows(g, base, ops, D, n)

\* The edge e is as an assertion made it.
EdgeIsNew(g, p, ops, D, e) ==
    \E i \in D : /\ e = <<p, i>> /\ ops[i].kind = "AssertEdge"
                 /\ Fact(g, e) = Stated(p, ops, i) /\ g.edge[e].valid_to = None

\* The edge e, which was current, is so still, or was closed.
EdgeShows(g, ops, D, e) ==
    \/ g.edge[e].valid_to = None
    \/ \E i \in D : ops[i].kind = "InvalidateEdge" /\ ops[i].target = e

EdgesShow(g, base, p, ops, D) ==
    /\ \A e \in DOMAIN g.edge : e \in DOMAIN base.edge \/ EdgeIsNew(g, p, ops, D, e)
    /\ \A e \in CurrentEdges(base) : EdgeShows(g, ops, D, e)

\* An op that was met and not applied, which is none of an entity.
LEMMA ShowMore ==
    ASSUME NEW g, NEW base, NEW p, NEW ops, NEW D, NEW i, ~OfEntity(ops, i),
           NodesShow(g, base, p, ops, D), EdgesShow(g, base, p, ops, D)
    PROVE  NodesShow(g, base, p, ops, D \cup {i}) /\ EdgesShow(g, base, p, ops, D \cup {i})
<1>1. ~UpdateAt(ops, i)
  BY DEF OfEntity, UpdateAt
<1>2. \A n \in DOMAIN base.node : NodeShows(g, base, ops, D, n) => NodeShows(g, base, ops, D \cup {i}, n)
  BY <1>1 DEF NodeShows
<1>3. \A n : NodeIsNew(g, p, ops, D, n) => NodeIsNew(g, p, ops, D \cup {i}, n)
  BY DEF NodeIsNew
<1>4. \A e : EdgeIsNew(g, p, ops, D, e) => EdgeIsNew(g, p, ops, D \cup {i}, e)
  BY DEF EdgeIsNew
<1>5. \A e : EdgeShows(g, ops, D, e) => EdgeShows(g, ops, D \cup {i}, e)
  BY DEF EdgeShows
<1>6. QED
  BY <1>2, <1>3, <1>4, <1>5 DEF NodesShow, EdgesShow

LEMMA NodesShowStep ==
    ASSUME NEW g, GraphOK(g), NEW base, DOMAIN base.node \subseteq DOMAIN g.node,
           NEW p, NEW ops, OneUpdate(ops), NEW D, NodesShow(g, base, p, ops, D),
           NEW i \in 1 .. Len(ops), i \notin D, ops[i].kind \in Kinds,
           <<p, i>> \notin DOMAIN g.node,
           ops[i].kind = "UpdateNodeProps" => ops[i].target \in DOMAIN base.node,
           NEW h, h = ApplyOp(g, p, ops, i), Grows(g, h)
    PROVE  NodesShow(h, base, p, ops, D \cup {i})
<1>1. UpdateAt(ops, i) <=> ops[i].kind = "UpdateNodeProps"
  BY DEF UpdateAt
<1>2. ASSUME NEW n, NodeIsNew(g, p, ops, D, n), h.node[n] = g.node[n]
      PROVE  NodeIsNew(h, p, ops, D \cup {i}, n)
  BY <1>2 DEF NodeIsNew
<1>3. ASSUME NEW n, NodeShows(g, base, ops, D, n), h.node[n] = g.node[n],
             ~(UpdateAt(ops, i) /\ ops[i].target = n)
      PROVE  NodeShows(h, base, ops, D \cup {i}, n)
  BY <1>3 DEF NodeShows
<1>4. /\ \A n \in DOMAIN g.node : n \in DOMAIN base.node \/ NodeIsNew(g, p, ops, D, n)
      /\ \A n \in DOMAIN base.node : NodeShows(g, base, ops, D, n)
  BY DEF NodesShow
<1>5. CASE ops[i].kind = "CreateNode"
  <2>1. /\ h.node[<<p, i>>].name = ops[i].name
        /\ h.node[<<p, i>>].description = ops[i].description
        /\ h.node[<<p, i>>].attr = ops[i].attr
        /\ \A n \in DOMAIN h.node : n # <<p, i>> => n \in DOMAIN g.node /\ h.node[n] = g.node[n]
    BY <1>5, NameCreated, NodesCreated
  <2>2. DOMAIN g.node \subseteq DOMAIN h.node
    BY DEF Grows
  <2>3. \A n \in DOMAIN base.node : h.node[n] = g.node[n]
    BY <2>1, <2>2
  <2>4. NodeIsNew(h, p, ops, D \cup {i}, <<p, i>>)
    BY <1>5, <2>1 DEF NodeIsNew
  <2>5. \A n \in DOMAIN h.node : n \in DOMAIN base.node \/ NodeIsNew(h, p, ops, D \cup {i}, n)
    BY <1>2, <1>4, <2>1, <2>4
  <2>6. \A n \in DOMAIN base.node : NodeShows(h, base, ops, D \cup {i}, n)
    BY <1>1, <1>3, <1>4, <1>5, <2>3
  <2>7. QED
    BY <2>5, <2>6 DEF NodesShow
<1>6. CASE ops[i].kind = "UpdateNodeProps"
  <2>1. PICK t \in DOMAIN base.node : t = ops[i].target
    BY <1>6
  <2>2. /\ DOMAIN h.node = DOMAIN g.node
        /\ \A n \in DOMAIN g.node : n # t => h.node[n] = g.node[n]
        /\ h.node[t].description = Given(ops[i].description, g.node[t].description)
        /\ h.node[t].attr = Given(ops[i].attr, g.node[t].attr)
    BY <1>6, <2>1, NodesUpdated
  <2>3. g.node[t].description = base.node[t].description /\ g.node[t].attr = base.node[t].attr
    <3>1. \A j \in D : ~(UpdateAt(ops, j) /\ ops[j].target = t)
      BY <1>1, <1>6, <2>1 DEF OneUpdate, UpdateAt
    <3>2. NodeShows(g, base, ops, D, t)
      BY <1>4, <2>1
    <3>3. QED
      BY <3>1, <3>2 DEF NodeShows
  <2>4. NodeShows(h, base, ops, D \cup {i}, t)
    BY <1>1, <1>6, <2>1, <2>2, <2>3 DEF NodeShows
  <2>5. \A n \in DOMAIN base.node : NodeShows(h, base, ops, D \cup {i}, n)
    BY <1>3, <1>4, <2>1, <2>2, <2>4
  <2>6. \A n \in DOMAIN h.node : n \in DOMAIN base.node \/ NodeIsNew(h, p, ops, D \cup {i}, n)
    BY <1>2, <1>4, <2>1, <2>2
  <2>7. QED
    BY <2>5, <2>6 DEF NodesShow
<1>7. CASE ops[i].kind \notin {"CreateNode", "UpdateNodeProps"}
  <2>1. h.node = g.node
    BY <1>7, NodesLeft
  <2>2. \A n \in DOMAIN base.node : NodeShows(h, base, ops, D \cup {i}, n)
    BY <1>1, <1>3, <1>4, <1>7, <2>1
  <2>3. \A n \in DOMAIN h.node : n \in DOMAIN base.node \/ NodeIsNew(h, p, ops, D \cup {i}, n)
    BY <1>2, <1>4, <2>1
  <2>4. QED
    BY <2>2, <2>3 DEF NodesShow
<1>8. QED
  BY <1>5, <1>6, <1>7

LEMMA EdgesShowStep ==
    ASSUME NEW g, GraphOK(g), NEW base, DOMAIN base.edge \subseteq DOMAIN g.edge,
           NEW p, NEW ops, NEW D, EdgesShow(g, base, p, ops, D),
           NEW i \in 1 .. Len(ops), ops[i].kind \in Kinds, <<p, i>> \notin DOMAIN g.edge,
           ops[i].kind \in {"InvalidateEdge", "ReinforceEdge"} => ops[i].target \in DOMAIN base.edge,
           NEW h, h = ApplyOp(g, p, ops, i), Grows(g, h)
    PROVE  EdgesShow(h, base, p, ops, D \cup {i})
<1>1. /\ \A e \in DOMAIN g.edge : e \in DOMAIN base.edge \/ EdgeIsNew(g, p, ops, D, e)
      /\ \A e \in CurrentEdges(base) : EdgeShows(g, ops, D, e)
      /\ CurrentEdges(base) \subseteq DOMAIN g.edge
  BY DEF EdgesShow, CurrentEdges
<1>2. ASSUME NEW e \in DOMAIN g.edge, EdgeIsNew(g, p, ops, D, e), h.edge[e] = g.edge[e]
      PROVE  EdgeIsNew(h, p, ops, D \cup {i}, e)
  <2>1. Fact(h, e) = Fact(g, e)
    BY DEF Grows
  <2>2. QED
    BY <1>2, <2>1 DEF EdgeIsNew
<1>3. ASSUME NEW e, EdgeShows(g, ops, D, e), h.edge[e].valid_to = g.edge[e].valid_to
      PROVE  EdgeShows(h, ops, D \cup {i}, e)
  BY <1>3 DEF EdgeShows
<1>4. CASE OfEntity(ops, i)
  <2>1. h.edge = g.edge
    BY <1>4, EdgesLeft
  <2>2. QED
    BY <1>1, <1>2, <1>3, <2>1 DEF EdgesShow
<1>5. CASE ops[i].kind = "AssertEdge"
  <2>1. /\ Fact(h, <<p, i>>) = Stated(p, ops, i) /\ h.edge[<<p, i>>].valid_to = None
        /\ \A e \in DOMAIN h.edge : e # <<p, i>> => e \in DOMAIN g.edge
        /\ \A e \in DOMAIN g.edge : e # <<p, i>> => e \in DOMAIN h.edge /\ h.edge[e] = g.edge[e]
    BY <1>5, EdgesAsserted
  <2>2. EdgeIsNew(h, p, ops, D \cup {i}, <<p, i>>)
    BY <1>5, <2>1 DEF EdgeIsNew
  <2>3. \A e \in DOMAIN h.edge : e \in DOMAIN base.edge \/ EdgeIsNew(h, p, ops, D \cup {i}, e)
    BY <1>1, <1>2, <2>1, <2>2
  <2>4. \A e \in CurrentEdges(base) : EdgeShows(h, ops, D \cup {i}, e)
    BY <1>1, <1>3, <2>1
  <2>5. QED
    BY <2>3, <2>4 DEF EdgesShow
<1>6. CASE ops[i].kind \in {"InvalidateEdge", "ReinforceEdge"}
  <2>1. /\ DOMAIN h.edge = DOMAIN g.edge /\ ops[i].target \in DOMAIN base.edge
        /\ \A e \in DOMAIN g.edge : e # ops[i].target => h.edge[e] = g.edge[e]
        /\ ops[i].kind = "ReinforceEdge" =>
                h.edge[ops[i].target].valid_to = g.edge[ops[i].target].valid_to
    BY <1>6, EdgesTouched
  <2>2. \A e \in DOMAIN h.edge : e \in DOMAIN base.edge \/ EdgeIsNew(h, p, ops, D \cup {i}, e)
    BY <1>1, <1>2, <2>1
  <2>3. ops[i].kind = "InvalidateEdge" => EdgeShows(h, ops, D \cup {i}, ops[i].target)
    BY DEF EdgeShows
  <2>4. \A e \in CurrentEdges(base) : EdgeShows(h, ops, D \cup {i}, e)
    BY <1>1, <1>3, <1>6, <2>1, <2>3
  <2>5. QED
    BY <2>2, <2>4 DEF EdgesShow
<1>7. QED
  BY <1>4, <1>5, <1>6 DEF OfEntity, Kinds

-----------------------------------------------------------------------------
(* A patch does not stand in its own way. *)

\* Sibling j leaves op i nothing to do: see Preempts.
Spared(ops, j, i) ==
    \/ /\ ops[i].kind = "AssertEdge" /\ ops[j].kind = "AssertEdge" /\ j < i
       /\ <<ops[i].subject, ops[i].predicate, ops[i].object>>
            = <<ops[j].subject, ops[j].predicate, ops[j].object>>
    \/ /\ ops[i].kind \in {"InvalidateEdge", "ReinforceEdge"} /\ ops[j].kind = "InvalidateEdge"
       /\ j < i /\ ops[i].target = ops[j].target

\* The patch p, diffed with base, when nothing of it was committed.
Diff(base, p, ops) ==
    /\ GraphOK(base) /\ PatchSound(base, ops)
    /\ p \in Nat \ {0}
    /\ \A n \in DOMAIN base.node \cup DOMAIN base.edge : n[1] # p
    /\ OneUpdate(ops) /\ NamedApart(ops)
    /\ \A i \in 1 .. Len(ops) : Free(ops[i])

\* g is what the ops at D, those that were met, have made of base.
Built(g, base, p, ops, D) ==
    /\ GraphOK(g) /\ Grows(base, g)
    /\ NodesShow(g, base, p, ops, D)
    /\ EdgesShow(g, base, p, ops, D)

\* The op i is next.
Comes(ops, D, i) ==
    /\ i \in 1 .. Len(ops) /\ D \subseteq 1 .. Len(ops) /\ i \notin D
    /\ ops[i].depends_on \subseteq D
    /\ ops[i].depends_on = {} => \A j \in D : j < i

\* Its guard holds, or it has nothing to do.
Clear(g, ops, D, i) ==
    \/ Held(g, ops[i])
    \/ ~OfEntity(ops, i) /\ \E j \in D : Spared(ops, j, i)

LEMMA CreateClear ==
    ASSUME NEW base, NEW p, NEW ops, Diff(base, p, ops), NEW D, NEW g, Built(g, base, p, ops, D),
           NEW i, Comes(ops, D, i), ops[i].kind = "CreateNode"
    PROVE  Held(g, ops[i])
<1>1. CreateSound(base, ops[i])
  BY DEF Diff, PatchSound, AllSound, OpSound, Comes
<1>2. ASSUME NEW n \in FindByName(g, ops[i].name)
      PROVE  FALSE
  <2>1. n \in DOMAIN g.node /\ Fold[g.node[n].name] = Fold[ops[i].name]
    BY <1>2 DEF FindByName
  <2>2. CASE n \in DOMAIN base.node
    <3>1. n \in FindByName(base, ops[i].name)
      BY <2>1, <2>2 DEF Built, Grows, FindByName
    <3>2. QED
      BY <1>1, <3>1 DEF CreateSound
  <2>3. CASE n \notin DOMAIN base.node
    <3>1. PICK j \in D : ops[j].kind = "CreateNode" /\ g.node[n].name = ops[j].name
      BY <2>1, <2>3 DEF Built, NodesShow, NodeIsNew
    <3>2. j = i
      BY <2>1, <3>1 DEF Diff, NamedApart, Comes
    <3>3. QED
      BY <3>2 DEF Comes
  <2>4. QED
    BY <2>2, <2>3
<1>3. FindByName(g, ops[i].name) = {}
  BY <1>2
<1>4. Holds(g, NameAbsent(ops[i].name))
  BY <1>3 DEF Holds, NameAbsent, Precondition
<1>5. QED
  BY <1>1, <1>4 DEF CreateSound, Held

LEMMA MergeClear ==
    ASSUME NEW base, NEW p, NEW ops, Diff(base, p, ops), NEW D, NEW g, Built(g, base, p, ops, D),
           NEW i, Comes(ops, D, i), ops[i].kind = "MergeInto"
    PROVE  Held(g, ops[i])
<1>1. MergeSound(base, ops[i])
  BY DEF Diff, PatchSound, AllSound, OpSound, Comes
<1>2. ops[i].target \in DOMAIN g.node
  BY <1>1 DEF MergeSound, Built, Grows
<1>3. Holds(g, NodeExists(ops[i].target))
  BY <1>2 DEF Holds, NodeExists, Precondition
<1>4. QED
  BY <1>1, <1>3 DEF MergeSound, Held

LEMMA UpdateClear ==
    ASSUME NEW base, NEW p, NEW ops, Diff(base, p, ops), NEW D, NEW g, Built(g, base, p, ops, D),
           NEW i, Comes(ops, D, i), ops[i].kind = "UpdateNodeProps"
    PROVE  Held(g, ops[i])
<1>1. UpdateSound(base, ops, ops[i])
  BY DEF Diff, PatchSound, AllSound, OpSound, Comes
<1>2. PICK n : n = ops[i].target
  OBVIOUS
<1>3. n \in DOMAIN base.node /\ n \in DOMAIN g.node
  BY <1>1, <1>2 DEF UpdateSound, Built, Grows
<1>4. g.node[n].description = base.node[n].description
  <2>1. \A j \in D : ~(UpdateAt(ops, j) /\ ops[j].target = n)
    BY <1>2 DEF Diff, OneUpdate, UpdateAt, Comes
  <2>2. NodeShows(g, base, ops, D, n)
    BY <1>3 DEF Built, NodesShow
  <2>3. QED
    BY <2>1, <2>2 DEF NodeShows
<1>5. Holds(g, NodeExists(n))
  BY <1>3 DEF Holds, NodeExists, Precondition
<1>6. Holds(g, PropEquals(n, base.node[n].description))
  BY <1>3, <1>4 DEF Holds, PropEquals, Precondition
<1>7. QED
  BY <1>1, <1>2, <1>5, <1>6 DEF UpdateSound, Held

\* Two ends that are one entity of base are said in one way.
LEMMA OneRef ==
    ASSUME NEW base, GraphOK(base), NEW p, \A n \in DOMAIN base.node : n[1] # p,
           NEW ops, NEW deps, NEW a, RefSound(base, ops, deps, a), IsRef(a), a.canonical_id # None,
           NEW others, NEW b, RefSound(base, ops, others, b), IsRef(b),
           Resolved(p, ops, b) = a.canonical_id
    PROVE  a = b
<1>1. a.temp_id = None /\ a.canonical_id \in DOMAIN base.node
  BY DEF RefSound
<1>2. b.canonical_id # None
  <2>1. SUFFICES ASSUME b.canonical_id = None PROVE FALSE
    OBVIOUS
  <2>2. PICK x : Resolved(p, ops, b) = <<p, x>>
    BY <2>1 DEF Resolved
  <2>3. <<p, x>>[1] = p
    OBVIOUS
  <2>4. QED
    BY <1>1, <2>2, <2>3
<1>3. b.canonical_id = a.canonical_id
  BY <1>2 DEF Resolved
<1>4. b.temp_id = None
  BY <1>2 DEF RefSound
<1>5. QED
  BY <1>1, <1>3, <1>4 DEF IsRef

LEMMA AssertClear ==
    ASSUME NEW base, NEW p, NEW ops, Diff(base, p, ops), NEW D, NEW g, Built(g, base, p, ops, D),
           NEW i, Comes(ops, D, i), ops[i].kind = "AssertEdge"
    PROVE  Held(g, ops[i]) \/ \E j \in D : Spared(ops, j, i)
<1>1. AssertSound(base, ops, ops[i]) /\ Free(ops[i])
  BY DEF Diff, PatchSound, AllSound, OpSound, Comes
<1>2. PICK a : a = ops[i]
  OBVIOUS
<1>3. CASE ~BothCanonical(a.subject, a.object)
  <2>1. a.preconditions = {}
    BY <1>1, <1>2, <1>3 DEF AssertSound
  <2>2. QED
    BY <1>2, <2>1 DEF Held
<1>4. CASE BothCanonical(a.subject, a.object)
  <2>1. PICK s, q, o : s = a.subject.canonical_id /\ q = a.predicate /\ o = a.object.canonical_id
    OBVIOUS
  <2>2. a.preconditions = {EdgeAbsent(s, q, o)} /\ EdgesBetween(base, s, o, q) = {}
    BY <1>1, <1>2, <1>4, <2>1 DEF AssertSound
  <2>3. a.depends_on = {} /\ IsRef(a.subject) /\ IsRef(a.object)
    BY <1>1, <1>2, <1>4 DEF Free
  <2>4. CASE EdgesBetween(g, s, o, q) = {}
    <3>1. Holds(g, EdgeAbsent(s, q, o))
      BY <2>4 DEF Holds, EdgeAbsent, Precondition
    <3>2. QED
      BY <1>2, <2>2, <3>1 DEF Held
  <2>5. CASE EdgesBetween(g, s, o, q) # {}
    <3>1. PICK e \in CurrentEdges(g) : g.edge[e].subject = s /\ g.edge[e].predicate = q
                                       /\ g.edge[e].object = o
      BY <2>5 DEF EdgesBetween, EdgesFrom, EdgesTo
    <3>2. e \in DOMAIN g.edge /\ g.edge[e].valid_to = None /\ Fact(g, e) = <<s, q, o>>
      BY <3>1 DEF CurrentEdges, Fact
    <3>3. e \notin DOMAIN base.edge
      <4>1. SUFFICES ASSUME e \in DOMAIN base.edge PROVE FALSE
        OBVIOUS
      <4>2. base.edge[e].valid_to = None /\ Fact(base, e) = <<s, q, o>>
        BY <3>2, <4>1 DEF Built, Grows
      <4>3. e \in EdgesBetween(base, s, o, q)
        BY <4>1, <4>2 DEF EdgesBetween, EdgesFrom, EdgesTo, CurrentEdges, Fact
      <4>4. QED
        BY <2>2, <4>3
    <3>4. PICK j \in D : ops[j].kind = "AssertEdge" /\ Fact(g, e) = Stated(p, ops, j)
      BY <3>2, <3>3 DEF Built, EdgesShow, EdgeIsNew
    <3>5. PICK b : b = ops[j]
      OBVIOUS
    <3>6. /\ Resolved(p, ops, b.subject) = a.subject.canonical_id
          /\ b.predicate = a.predicate
          /\ Resolved(p, ops, b.object) = a.object.canonical_id
      BY <2>1, <3>2, <3>4, <3>5 DEF Stated
    <3>7. AssertSound(base, ops, b) /\ Free(b) /\ j \in 1 .. Len(ops)
      BY <3>4, <3>5 DEF Diff, PatchSound, AllSound, OpSound, Comes
    <3>8. IsRef(b.subject) /\ IsRef(b.object)
      BY <3>4, <3>5, <3>7 DEF Free
    <3>9. a.subject = b.subject
      BY <1>1, <1>2, <1>4, <2>3, <3>6, <3>7, <3>8, OneRef DEF AssertSound, BothCanonical, Diff
    <3>10. a.object = b.object
      BY <1>1, <1>2, <1>4, <2>3, <3>6, <3>7, <3>8, OneRef DEF AssertSound, BothCanonical, Diff
    <3>11. j < i
      BY <1>2, <2>3 DEF Comes
    <3>12. QED
      BY <1>2, <3>4, <3>5, <3>6, <3>9, <3>10, <3>11 DEF Spared
  <2>6. QED
    BY <2>4, <2>5
<1>5. QED
  BY <1>3, <1>4

LEMMA EdgeOpClear ==
    ASSUME NEW base, NEW p, NEW ops, Diff(base, p, ops), NEW D, NEW g, Built(g, base, p, ops, D),
           NEW i, Comes(ops, D, i), ops[i].kind \in {"InvalidateEdge", "ReinforceEdge"}
    PROVE  Held(g, ops[i]) \/ \E j \in D : Spared(ops, j, i)
<1>1. EdgeOpSound(base, ops[i])
  BY DEF Diff, PatchSound, AllSound, OpSound, Comes
<1>2. PICK e : e = ops[i].target
  OBVIOUS
<1>3. e \in CurrentEdges(base) /\ e \in DOMAIN g.edge
  BY <1>1, <1>2 DEF EdgeOpSound, CurrentEdges, Built, Grows
<1>4. CASE g.edge[e].valid_to = None
  <2>1. Holds(g, EdgeExists(e))
    BY <1>3, <1>4 DEF Holds, EdgeExists, Precondition, CurrentEdges
  <2>2. QED
    BY <1>1, <1>2, <2>1 DEF EdgeOpSound, Held
<1>5. CASE g.edge[e].valid_to # None
  <2>1. PICK j \in D : ops[j].kind = "InvalidateEdge" /\ ops[j].target = e
    BY <1>3, <1>5 DEF Built, EdgesShow, EdgeShows
  <2>2. j < i
    BY <1>1 DEF EdgeOpSound, Comes
  <2>3. QED
    BY <1>2, <2>1, <2>2 DEF Spared
<1>6. QED
  BY <1>4, <1>5

LEMMA AllClear ==
    ASSUME NEW base, NEW p, NEW ops, Diff(base, p, ops), NEW D, NEW g, Built(g, base, p, ops, D),
           NEW i, Comes(ops, D, i)
    PROVE  Clear(g, ops, D, i)
<1>1. ops[i].kind \in Kinds
  BY DEF Diff, PatchSound, AllSound, OpSound, Comes
<1>2. CASE ops[i].kind = "CreateNode"
  BY <1>2, CreateClear DEF Clear
<1>3. CASE ops[i].kind = "MergeInto"
  BY <1>3, MergeClear DEF Clear
<1>4. CASE ops[i].kind = "UpdateNodeProps"
  BY <1>4, UpdateClear DEF Clear
<1>5. CASE ops[i].kind = "AssertEdge"
  BY <1>5, AssertClear DEF Clear, OfEntity
<1>6. CASE ops[i].kind \in {"InvalidateEdge", "ReinforceEdge"}
  BY <1>6, EdgeOpClear DEF Clear, OfEntity
<1>7. QED
  BY <1>1, <1>2, <1>3, <1>4, <1>5, <1>6 DEF Kinds

LEMMA GrowsOn ==
    ASSUME NEW f, NEW g, NEW h, Grows(f, g), Grows(g, h)
    PROVE  Grows(f, h)
<1>1. \A e \in DOMAIN f.edge :
        /\ Fact(h, e) = Fact(f, e)
        /\ h.edge[e].valid_from = f.edge[e].valid_from
        /\ f.edge[e].valid_to # None => h.edge[e].valid_to = f.edge[e].valid_to
  <2> TAKE e \in DOMAIN f.edge
  <2>1. e \in DOMAIN g.edge
    BY DEF Grows
  <2>2. QED
    BY <2>1 DEF Grows
<1>2. \A n \in DOMAIN f.node : h.node[n].name = f.node[n].name
  BY DEF Grows
<1>3. QED
  BY <1>1, <1>2 DEF Grows

\* An op whose guard holds is applied to what the ops before it have made.
LEMMA BuiltStep ==
    ASSUME NEW base, NEW p, NEW ops, Diff(base, p, ops), NEW D, NEW g, Built(g, base, p, ops, D),
           NEW i, Comes(ops, D, i), Held(g, ops[i]),
           \A j \in ops[i].depends_on : Effect(g, p, j, ops[j]),
           NEW h, h = ApplyOp(g, p, ops, i)
    PROVE  /\ Built(h, base, p, ops, D \cup {i})
           /\ Grows(g, h) /\ Effect(h, p, i, ops[i])
<1>1. /\ GraphOK(base) /\ PatchSound(base, ops) /\ p \in Nat \ {0}
      /\ \A n \in DOMAIN base.node \cup DOMAIN base.edge : n[1] # p
  BY DEF Diff
<1>2. /\ GraphOK(g) /\ Grows(base, g)
      /\ NodesShow(g, base, p, ops, D) /\ EdgesShow(g, base, p, ops, D)
  BY DEF Built
<1>3. i \in 1 .. Len(ops) /\ i \notin D
  BY DEF Comes
<1>4. <<p, i>>[1] = p /\ \A j \in D : <<p, i>> # <<p, j>>
  BY <1>3
<1>5. <<p, i>> \notin DOMAIN g.node
  BY <1>1, <1>2, <1>4 DEF NodesShow, NodeIsNew
<1>6. <<p, i>> \notin DOMAIN g.edge
  BY <1>1, <1>2, <1>4 DEF EdgesShow, EdgeIsNew
<1>7. DOMAIN base.node \subseteq DOMAIN g.node /\ DOMAIN base.edge \subseteq DOMAIN g.edge
  BY <1>2 DEF Grows
<1>8. PICK ps : ps[p].ops = ops
  <2>1. [q \in {p} |-> [ops |-> ops]][p].ops = ops
    OBVIOUS
  <2>2. QED
    BY <2>1
<1>9. \A j \in ops[i].depends_on : ops[j].kind = "CreateNode" => <<p, j>> \in DOMAIN g.node
  BY DEF Effect
<1>10. Applied(g, h, ps, p, i, ops[i])
  BY <1>1, <1>2, <1>3, <1>5, <1>6, <1>7, <1>8, <1>9, OpApplied
<1>11. GraphOK(h) /\ Grows(g, h) /\ Effect(h, p, i, ops[i])
  BY <1>10 DEF Applied
<1>12. Grows(base, h)
  BY <1>2, <1>11, GrowsOn
<1>13. OpSound(base, ops, i)
  BY <1>1, <1>3 DEF PatchSound, AllSound
<1>14. ops[i].kind \in Kinds
  BY <1>13 DEF OpSound
<1>15. ops[i].kind = "UpdateNodeProps" => ops[i].target \in DOMAIN base.node
  BY <1>13 DEF OpSound, UpdateSound
<1>16. ops[i].kind \in {"InvalidateEdge", "ReinforceEdge"} => ops[i].target \in DOMAIN base.edge
  BY <1>13 DEF OpSound, EdgeOpSound, CurrentEdges
<1>17. NodesShow(h, base, p, ops, D \cup {i})
  <2>1. OneUpdate(ops)
    BY DEF Diff
  <2>2. QED
    BY <2>1, <1>2, <1>3, <1>5, <1>7, <1>11, <1>14, <1>15, NodesShowStep
<1>18. EdgesShow(h, base, p, ops, D \cup {i})
  BY <1>2, <1>3, <1>6, <1>7, <1>11, <1>14, <1>16, EdgesShowStep
<1>19. QED
  BY <1>11, <1>12, <1>17, <1>18 DEF Built

-----------------------------------------------------------------------------
(* The whole patch, committed against the graph it was diffed with. *)

\* The op i took effect in g, or a sibling left it nothing to do.
Dealt(g, status, failed, p, ops, D, i) ==
    \/ status[i] = "committed" /\ i \notin failed /\ Effect(g, p, i, ops[i])
    \/ /\ status[i] = "requeued"
       /\ ~OfEntity(ops, i) /\ \E j \in D : Spared(ops, j, i)

\* The walk has met the ops at D, and no other was touched.
Replayed(acc, base, p, ops, D) ==
    /\ DOMAIN acc = {"graph", "status", "failed"}
    /\ DOMAIN acc.status = 1 .. Len(ops)
    /\ Built(acc.graph, base, p, ops, D)
    /\ acc.failed \subseteq D
    /\ \A i \in 1 .. Len(ops) : i \notin D => acc.status[i] = "approved"
    /\ \A i \in D : Dealt(acc.graph, acc.status, acc.failed, p, ops, D, i)

LEMMA ReplayStep ==
    ASSUME NEW base, NEW p, NEW ops, Diff(base, p, ops), NEW D, NEW acc,
           Replayed(acc, base, p, ops, D), NEW i, Comes(ops, D, i),
           NEW t, t = Walk(acc, p, ops, i)
    PROVE  Replayed(t, base, p, ops, D \cup {i})
<1> DEFINE refused == [acc EXCEPT !.status[i] = "requeued", !.failed = @ \cup {i}]
           made == [acc EXCEPT !.status[i] = "committed", !.graph = ApplyOp(@, p, ops, i)]
           s == acc.status
           g == acc.graph
           f == acc.failed
<1>1. /\ DOMAIN acc = {"graph", "status", "failed"} /\ DOMAIN s = 1 .. Len(ops)
      /\ Built(g, base, p, ops, D) /\ f \subseteq D
      /\ \A j \in 1 .. Len(ops) : j \notin D => s[j] = "approved"
      /\ \A j \in D : Dealt(g, s, f, p, ops, D, j)
  BY DEF Replayed
<1>2. /\ i \in 1 .. Len(ops) /\ i \notin D /\ D \subseteq 1 .. Len(ops) /\ ops[i].depends_on \subseteq D
      /\ s[i] = "approved"
  BY <1>1 DEF Comes
<1>3. ASSUME NEW j \in ops[i].depends_on
      PROVE  j \notin f /\ Effect(g, p, j, ops[j])
  <2>1. OfEntity(ops, j)
    <3>1. Introduces(ops, j)
      BY <1>2, AskedOneDeep DEF Diff, PatchSound
    <3>2. QED
      BY <3>1 DEF Introduces, OfEntity
  <2>2. Dealt(g, s, f, p, ops, D, j)
    BY <1>1, <1>2
  <2>3. QED
    BY <2>1, <2>2 DEF Dealt
<1>4. ops[i].depends_on \cap f = {}
  BY <1>3
<1>5. t = IF Held(g, ops[i]) THEN made ELSE refused
  BY <1>2, <1>4 DEF Walk, Held
<1>6. CASE Held(g, ops[i])
  <2>1. /\ DOMAIN t = {"graph", "status", "failed"}
        /\ t.graph = ApplyOp(g, p, ops, i) /\ t.status = [s EXCEPT ![i] = "committed"] /\ t.failed = f
    BY <1>1, <1>5, <1>6
  <2>2. PICK h : h = ApplyOp(g, p, ops, i)
    OBVIOUS
  <2> HIDE DEF s, g, f
  <2>3. Built(h, base, p, ops, D \cup {i}) /\ Grows(g, h) /\ Effect(h, p, i, ops[i])
    BY <1>1, <1>3, <1>6, <2>2, BuiltStep
  <2>4. ASSUME NEW j \in D \cup {i}
        PROVE  Dealt(t.graph, t.status, t.failed, p, ops, D \cup {i}, j)
    <3>1. CASE j = i
      BY <1>1, <1>2, <2>1, <2>2, <2>3, <3>1 DEF Dealt
    <3>2. CASE j \in D /\ j # i
      <4>1. Dealt(g, s, f, p, ops, D, j)
        BY <1>1, <3>2
      <4>2. t.status[j] = s[j]
        BY <1>1, <1>2, <2>1, <3>2
      <4>3. Effect(g, p, j, ops[j]) => Effect(h, p, j, ops[j])
        BY <2>3, EffectGrows
      <4>4. QED
        BY <2>1, <2>2, <4>1, <4>2, <4>3 DEF Dealt
    <3>3. QED
      BY <3>1, <3>2
  <2>5. \A j \in 1 .. Len(ops) : j \notin D \cup {i} => t.status[j] = "approved"
    BY <1>1, <2>1
  <2>6. DOMAIN t.status = 1 .. Len(ops)
    BY <1>1, <2>1
  <2>7. QED
    BY <1>1, <2>1, <2>2, <2>3, <2>4, <2>5, <2>6 DEF Replayed
<1>7. CASE ~Held(g, ops[i])
  <2>1. /\ DOMAIN t = {"graph", "status", "failed"}
        /\ t.graph = g /\ t.status = [s EXCEPT ![i] = "requeued"] /\ t.failed = f \cup {i}
    BY <1>1, <1>5, <1>7
  <2> HIDE DEF s, g, f
  <2>2. ~OfEntity(ops, i) /\ \E j \in D : Spared(ops, j, i)
    BY <1>1, <1>7, AllClear DEF Clear
  <2>3. Built(t.graph, base, p, ops, D \cup {i})
    BY <1>1, <2>1, <2>2, ShowMore DEF Built
  <2>4. ASSUME NEW j \in D \cup {i}
        PROVE  Dealt(t.graph, t.status, t.failed, p, ops, D \cup {i}, j)
    <3>1. CASE j = i
      BY <1>1, <1>2, <2>1, <2>2, <3>1 DEF Dealt
    <3>2. CASE j \in D /\ j # i
      <4>1. Dealt(g, s, f, p, ops, D, j)
        BY <1>1, <3>2
      <4>2. t.status[j] = s[j]
        BY <1>1, <1>2, <2>1, <3>2
      <4>3. QED
        BY <2>1, <3>2, <4>1, <4>2 DEF Dealt
    <3>3. QED
      BY <3>1, <3>2
  <2>5. \A j \in 1 .. Len(ops) : j \notin D \cup {i} => t.status[j] = "approved"
    BY <1>1, <2>1
  <2>6. DOMAIN t.status = 1 .. Len(ops)
    BY <1>1, <2>1
  <2>7. QED
    BY <1>1, <2>1, <2>3, <2>4, <2>5, <2>6 DEF Replayed
<1>8. QED
  BY <1>6, <1>7

\* A patch committed as a whole: each op took effect, but for what was said twice.
LEMMA ReplayOK ==
    ASSUME NEW base, NEW p, NEW ops, Diff(base, p, ops),
           NEW status, status = [i \in DOMAIN ops |-> "approved"],
           NEW done, done = CommitPatch(base, p, ops, status)
    PROVE  Replayed(done, base, p, ops, 1 .. Len(ops))
<1> DEFINE order == Order(ops)
           f == Walked(base, p, ops, status, order)
           Met(k) == {order[n] : n \in 1 .. k}
           T == {k \in Nat : Replayed(f[k], base, p, ops, Met(k))}
<1>1. PatchSound(base, ops) /\ GraphOK(base) /\ IsSequence(ops)
  BY DEF Diff, PatchSound, AllSound
<1>2. /\ Len(order) \in Nat
      /\ \A n \in 1 .. Len(order) :
            /\ order[n] \in 1 .. Len(ops)
            /\ \A j \in ops[order[n]].depends_on : \E m \in 1 .. n - 1 : order[m] = j
  BY <1>1, OrderOK
<1>3. Turns(order, ops)
  BY <1>1, OrderTurns
<1>4. WalkedByOp(f, base, p, ops, status, order)
  BY <1>2, WalkedUpTo
<1>5. done = f[Len(order)]
  BY DEF CommitPatch
<1>6. DOMAIN ops = 1 .. Len(ops)
  <2>1. PICK S : ops \in Seq(S)
    BY <1>1 DEF IsSequence
  <2>2. QED
    BY <2>1
<1> HIDE DEF order, f
<1>7. Replayed(f[0], base, p, ops, Met(0))
  <2>1. f[0] = [graph |-> base, status |-> status, failed |-> {}]
    BY <1>4 DEF WalkedByOp
  <2>2. PICK acc : acc = f[0]
    OBVIOUS
  <2>3. /\ acc.graph = base /\ acc.status = status /\ acc.failed = {}
        /\ DOMAIN acc = {"graph", "status", "failed"}
    BY <2>1, <2>2
  <2>4. Met(0) = {}
    OBVIOUS
  <2> HIDE DEF Met
  <2>5. Built(base, base, p, ops, {})
    BY <1>1 DEF Built, Grows, NodesShow, NodeShows, EdgesShow, EdgeShows, CurrentEdges
  <2>6. QED
    BY <1>6, <2>2, <2>3, <2>4, <2>5 DEF Replayed
<1>8. ASSUME NEW k \in Nat, k < Len(order), Replayed(f[k], base, p, ops, Met(k))
      PROVE  Replayed(f[k + 1], base, p, ops, Met(k + 1))
  <2>1. k + 1 \in 1 .. Len(order) /\ (k + 1) - 1 = k
    BY <1>2, <1>8
  <2>2. f[k + 1] = Walk(f[k], p, ops, order[k + 1])
    BY <1>4, <2>1 DEF WalkedByOp
  <2>3. PICK i \in 1 .. Len(ops) : i = order[k + 1]
    BY <1>2, <2>1
  <2>4. Met(k + 1) = Met(k) \cup {i}
    BY <2>3
  <2>5. Comes(ops, Met(k), i)
    <3>1. \A j \in ops[i].depends_on : j \in Met(k)
      BY <1>2, <2>1, <2>3
    <3>2. Met(k) \subseteq 1 .. Len(ops)
      BY <1>2, <1>8
    <3>3. ASSUME NEW j \in Met(k)
          PROVE  j # i /\ (ops[i].depends_on = {} => j < i)
      <4>1. PICK m \in 1 .. k : j = order[m]
        OBVIOUS
      <4>2. m \in 1 .. Len(order) /\ m < k + 1
        BY <1>2, <1>8, <4>1
      <4>3. QED
        BY <1>3, <2>1, <2>3, <4>1, <4>2 DEF Turns
    <3> HIDE DEF Met
    <3>4. QED
      BY <3>1, <3>2, <3>3 DEF Comes
  <2> HIDE DEF Met
  <2>6. PICK acc : acc = f[k]
    OBVIOUS
  <2>7. QED
    BY <1>8, <2>2, <2>3, <2>4, <2>5, <2>6, ReplayStep
<1>9. 0 \in T /\ \A k \in Nat : k < Len(order) /\ k \in T => k + 1 \in T
  <2> HIDE DEF Met
  <2>1. QED
    BY <1>7, <1>8
<1>10. Len(order) \in T
  <2> HIDE DEF T
  <2>1. QED
    BY <1>2, <1>9, UpToInduction
<1>11. Met(Len(order)) = 1 .. Len(ops)
  BY <1>2, <1>3 DEF Turns
<1>12. QED
  BY <1>5, <1>10, <1>11

-----------------------------------------------------------------------------
(* Where each patch comes from. *)

\* The patch x, staged as p, is what resolution made of its document, with its graph
\* and the answers it got; nothing of it was in that graph.
Made(p, x) ==
    /\ x.doc \in Docs /\ GraphOK(x.base)
    /\ \A n \in DOMAIN x.base.node \cup DOMAIN x.base.edge : n[1] # p
    /\ x.answers \in Answers(x.base, Candidates[x.doc].entities)
    /\ \E verdict \in Adjudications(x.base, Candidates[x.doc], x.answers) :
            x.ops = ResolveNode(x.base, Candidates[x.doc], x.answers, verdict)

Origin == \A p \in DOMAIN patches : Made(p, patches[p])

SameOrigin(x, y) == y.doc = x.doc /\ y.base = x.base /\ y.answers = x.answers /\ y.ops = x.ops

LEMMA MadeSame ==
    ASSUME NEW p, NEW x, Made(p, x), NEW y, SameOrigin(x, y)
    PROVE  Made(p, y)
  BY DEF Made, SameOrigin

LEMMA CommitOrigin ==
    ASSUME Staged(patches), Origin,
           NEW p, p \in DOMAIN patches \/ (p = Len(patches) + 1 /\ Len(patches) < MaxPatches),
           NEW x, DOMAIN x = PatchFields, Made(p, x), CommitNode(p, x)
    PROVE  Origin'
<1>1. PICK done, row :
        patches' = Stage(patches, p, [x EXCEPT !.status = done.status, !.row = row])
  BY DEF CommitNode, Stage
<1>2. PICK y : y = [x EXCEPT !.status = done.status, !.row = row]
  OBVIOUS
<1>3. DOMAIN y = PatchFields /\ SameOrigin(x, y)
  BY <1>2 DEF PatchFields, SameOrigin
<1>4. y.doc \in Docs
  BY <1>3 DEF Made, SameOrigin
<1>5. Among(patches, p, y, patches')
  BY <1>1, <1>2, <1>3, <1>4, StageOK
<1>6. ASSUME NEW q \in DOMAIN patches' PROVE Made(q, patches'[q])
  <2>1. CASE q = p
    BY <1>3, <1>5, <2>1, MadeSame DEF Among
  <2>2. CASE q # p
    BY <1>5, <2>2 DEF Among, Origin
  <2>3. QED
    BY <2>1, <2>2
<1>7. QED
  BY <1>6 DEF Origin

LEMMA IngestOrigin ==
    ASSUME IInv, Origin, NEW d \in Docs, Ingest(d)
    PROVE  Origin'
<1>1. PICK answers \in Answers(canonical, Candidates[d].entities) :
      \E ops \in {ResolveNode(canonical, Candidates[d], answers, verdict) :
                    verdict \in Adjudications(canonical, Candidates[d], answers)} :
        LET p == Len(patches) + 1
            x == [doc |-> d, ops |-> ops, status |-> [i \in DOMAIN ops |-> RoutedStatus(ops[i])],
                  row |-> "pending", accepted |-> {}, base |-> canonical, answers |-> answers]
        IN  IF Awaiting(x) = {} THEN CommitNode(p, x)
            ELSE patches' = Append(patches, x) /\ UNCHANGED <<canonical, marked>>
  BY DEF Ingest
<1>2. PICK ops \in {ResolveNode(canonical, Candidates[d], answers, verdict) :
                    verdict \in Adjudications(canonical, Candidates[d], answers)} :
        LET p == Len(patches) + 1
            x == [doc |-> d, ops |-> ops, status |-> [i \in DOMAIN ops |-> RoutedStatus(ops[i])],
                  row |-> "pending", accepted |-> {}, base |-> canonical, answers |-> answers]
        IN  IF Awaiting(x) = {} THEN CommitNode(p, x)
            ELSE patches' = Append(patches, x) /\ UNCHANGED <<canonical, marked>>
  BY <1>1
<1>3. PICK p, x :
        /\ p = Len(patches) + 1
        /\ x = [doc |-> d, ops |-> ops, status |-> [i \in DOMAIN ops |-> RoutedStatus(ops[i])],
                row |-> "pending", accepted |-> {}, base |-> canonical, answers |-> answers]
        /\ \/ CommitNode(p, x)
           \/ patches' = Append(patches, x) /\ UNCHANGED <<canonical, marked>>
  BY <1>2
<1>4. /\ DOMAIN x = PatchFields /\ x.doc = d /\ x.answers = answers /\ x.ops = ops
      /\ x.base = canonical
  BY <1>3 DEF PatchFields
<1>5. World(canonical, patches) /\ Staged(patches) /\ GraphOK(canonical)
  BY DEF IInv, World
<1>6. Len(patches) < MaxPatches /\ Len(patches) \in Nat /\ DOMAIN patches = 1 .. Len(patches)
  <2>1. Len(patches) \in Nat /\ MaxPatches \in Nat
    BY <1>5, PromotionAssumption DEF Staged
  <2>2. PICK S : patches \in Seq(S)
    BY <1>5 DEF Staged, IsSequence
  <2>3. Len(patches) < MaxPatches
    BY DEF Ingest
  <2>4. QED
    BY <2>1, <2>2, <2>3
<1>7. p \in Nat \ {0} /\ p \notin DOMAIN patches
  BY <1>3, <1>6
<1>8. \A n \in DOMAIN canonical.node \cup DOMAIN canonical.edge : n[1] # p
  BY <1>5, <1>7 DEF World, Minted, Landed
<1>9. Made(p, x)
  BY <1>4, <1>5, <1>8 DEF Made
<1>10. CASE CommitNode(p, x)
  BY <1>3, <1>4, <1>5, <1>6, <1>9, <1>10, CommitOrigin
<1>11. CASE patches' = Append(patches, x)
  <2>1. patches' = Stage(patches, p, x)
    BY <1>7, <1>11 DEF Stage
  <2>2. Among(patches, p, x, patches')
    BY <1>3, <1>4, <1>5, <1>6, <2>1, StageOK
  <2>3. ASSUME NEW q \in DOMAIN patches' PROVE Made(q, patches'[q])
    <3>1. CASE q = p
      BY <1>9, <2>2, <3>1 DEF Among
    <3>2. CASE q # p
      BY <2>2, <3>2 DEF Among, Origin
    <3>3. QED
      BY <3>1, <3>2
  <2>4. QED
    BY <2>3 DEF Origin
<1>12. QED
  BY <1>3, <1>10, <1>11

LEMMA ReviewOrigin ==
    ASSUME IInv, Origin, NEW p \in DOMAIN patches, Review(p)
    PROVE  Origin'
<1> DEFINE old == patches[p]
<1>1. PICK accepted, status : CommitNode(p, [old EXCEPT !.accepted = accepted, !.status = status])
  BY DEF Review
<1>2. PICK x : x = [old EXCEPT !.accepted = accepted, !.status = status] /\ CommitNode(p, x)
  BY <1>1
<1>3. Staged(patches)
  BY DEF IInv
<1>4. DOMAIN old = PatchFields /\ Made(p, old)
  <2>1. PICK S : patches \in Seq(S)
    BY <1>3 DEF Staged, IsSequence
  <2>2. QED
    BY <1>3, <2>1 DEF Staged, Origin
<1> HIDE DEF old
<1>5. DOMAIN x = PatchFields /\ SameOrigin(old, x)
  BY <1>2, <1>4 DEF PatchFields, SameOrigin
<1>6. Made(p, x)
  BY <1>4, <1>5, MadeSame
<1>7. QED
  BY <1>2, <1>3, <1>5, <1>6, CommitOrigin

LEMMA OriginHolds == Spec => [](IInv /\ Origin)
<1>1. Init => IInv /\ Origin
  <2> SUFFICES ASSUME Init PROVE IInv /\ Origin
    OBVIOUS
  <2>1. DOMAIN <<>> = {}
    OBVIOUS
  <2>2. Origin
    BY <2>1 DEF Init, Origin
  <2>3. QED
    BY <2>2, InitInv
<1>2. IInv /\ Origin /\ [Next]_vars => (IInv /\ Origin)'
  <2> SUFFICES ASSUME IInv, Origin, [Next]_vars PROVE (IInv /\ Origin)'
    OBVIOUS
  <2>1. Origin'
    <3>1. CASE \E d \in Docs : Ingest(d)
      BY <3>1, IngestOrigin
    <3>2. CASE \E p \in DOMAIN patches : Review(p)
      BY <3>2, ReviewOrigin
    <3>3. CASE UNCHANGED vars
      BY <3>3 DEF vars, Origin
    <3>4. QED
      BY <3>1, <3>2, <3>3 DEF Next
  <2>2. QED
    BY <2>1, NextInv
<1>3. QED
  BY <1>1, <1>2, PTL DEF Spec

\* What resolution made is as it has to be to be committed as a whole, and says what
\* its document says.
LEMMA MadeWhole ==
    ASSUME NEW p \in Nat \ {0}, NEW x, Made(p, x)
    PROVE  /\ Diff(x.base, p, x.ops)
           /\ Whole(x.base, Mentions(x), x.answers,
                    MergedRelations(x.base, Candidates[x.doc].entities, Candidates[x.doc].relations),
                    x.ops)
           /\ AllVoiced(x.base, Mentions(x), x.answers, x.ops)
           /\ AllFit(x.base, Mentions(x)) =>
                HeardUpTo(x.base, Mentions(x), x.answers, x.ops, Len(Mentions(x)))
<1>1. /\ x.doc \in DOMAIN Content /\ Candidates[x.doc] = Extract(x.doc) /\ GraphOK(x.base)
      /\ x.answers \in Answers(x.base, Candidates[x.doc].entities)
      /\ \A n \in DOMAIN x.base.node \cup DOMAIN x.base.edge : n[1] # p
  BY PromotionAssumption DEF Made, Candidates
<1>2. PICK verdict \in Adjudications(x.base, Extract(x.doc), x.answers) :
        x.ops = ResolveNode(x.base, Extract(x.doc), x.answers, verdict)
  BY <1>1 DEF Made
<1>3. PatchSound(x.base, x.ops)
  BY <1>1, <1>2, PatchOK
<1>4. Whole(x.base, Survivors(Extract(x.doc).entities), x.answers,
            MergedRelations(x.base, Extract(x.doc).entities, Extract(x.doc).relations), x.ops)
  BY <1>1, <1>2, PatchWhole
<1>5. Diff(x.base, p, x.ops)
  BY <1>1, <1>3, <1>4 DEF Diff, Whole
<1>6. Mentions(x) = Survivors(Extract(x.doc).entities)
  BY <1>1 DEF Mentions
<1>7. AllVoiced(x.base, Mentions(x), x.answers, x.ops)
  BY <1>1, <1>2, <1>6, PatchVoiced
<1>8. ASSUME AllFit(x.base, Mentions(x))
      PROVE  HeardUpTo(x.base, Mentions(x), x.answers, x.ops, Len(Mentions(x)))
  BY <1>1, <1>2, <1>6, <1>8, PatchHeard
<1>9. QED
  BY <1>1, <1>4, <1>5, <1>6, <1>7, <1>8

\* A patch committed at once leaves none of its ops behind: canonical as it was
\* diffed with holds every precondition when its turn comes, whatever the ops before
\* it did, but for a fact that two of its mentions say or an edge that two of its
\* relations close (commit_patch in the order of _topo_order).
THEOREM NoSelfConflict == Spec => []SelfConsistent
<1>1. IInv /\ Origin => SelfConsistent
  <2> SUFFICES ASSUME IInv, Origin, NEW p \in DOMAIN patches,
                      NEW done, done = Replay(p), NEW i \in DOMAIN patches[p].ops
               PROVE  \/ done.status[i] = "committed"
                      \/ \E j \in DOMAIN patches[p].ops : Preempts(p, j, i)
    BY DEF SelfConsistent, Newest
  <2>1. DOMAIN patches[p].ops = 1 .. Len(patches[p].ops) /\ p \in Nat \ {0}
    BY PatchesOK
  <2>2. PICK x : x = patches[p]
    OBVIOUS
  <2>3. Diff(x.base, p, x.ops)
    BY <2>1, <2>2, MadeWhole DEF Origin
  <2>4. done = CommitPatch(x.base, p, x.ops, [k \in DOMAIN x.ops |-> "approved"])
    BY <2>2 DEF Replay
  <2>5. Replayed(done, x.base, p, x.ops, 1 .. Len(x.ops))
    BY <2>3, <2>4, ReplayOK
  <2>6. Dealt(done.graph, done.status, done.failed, p, x.ops, 1 .. Len(x.ops), i)
    BY <2>1, <2>2, <2>5 DEF Replayed
  <2>7. CASE done.status[i] = "committed"
    BY <2>7
  <2>8. CASE \E j \in 1 .. Len(x.ops) : Spared(x.ops, j, i)
    <3>1. PICK j \in 1 .. Len(x.ops) : Spared(x.ops, j, i)
      BY <2>8
    <3>2. Preempts(p, j, i)
      BY <2>2, <3>1 DEF Spared, Preempts
    <3>3. QED
      BY <2>1, <2>2, <3>2
  <2>9. QED
    BY <2>6, <2>7, <2>8 DEF Dealt
<1>2. QED
  BY <1>1, OriginHolds, PTL

\* The edge of a relation that the graph of the diff had, or that the patch asserts;
\* it is current, if the patch does not close what it says again.
LEMMA RelationLands ==
    ASSUME NEW base, NEW p, NEW ops, Diff(base, p, ops),
           NEW done, Replayed(done, base, p, ops, 1 .. Len(ops)),
           NEW sv, NEW answers, NEW rs, Complete(base, sv, answers, rs, ops), NEW n \in 1 .. Len(rs),
           NEW s, s = SubjectOf(base, sv, answers, rs[n]),
           NEW o, o = ObjectOf(base, sv, answers, rs[n])
    PROVE  \E e \in DOMAIN done.graph.edge :
                /\ Fact(done.graph, e)
                    = <<Resolved(p, ops, s), rs[n].predicate, Resolved(p, ops, o)>>
                /\ done.graph.edge[e].valid_to = None \/ Disputed(ops)
<1> DEFINE g == done.graph
           fact == <<Resolved(p, ops, s), rs[n].predicate, Resolved(p, ops, o)>>
           Asserting(i) == ops[i].kind = "AssertEdge"
                            /\ <<ops[i].subject, ops[i].predicate, ops[i].object>>
                                = <<s, rs[n].predicate, o>>
<1>1. /\ GraphOK(base) /\ PatchSound(base, ops)
      /\ \A x \in DOMAIN base.node \cup DOMAIN base.edge : x[1] # p
  BY DEF Diff
<1>2. Grows(base, g) /\ EdgesShow(g, base, p, ops, 1 .. Len(ops))
  BY DEF Replayed, Built
<1>3. Len(ops) \in Nat /\ DOMAIN ops = 1 .. Len(ops)
  <2>1. PICK S : ops \in Seq(S)
    BY <1>1 DEF PatchSound, AllSound, IsSequence
  <2>2. QED
    BY <2>1
<1>4. CASE \E i \in 1 .. Len(ops) : Repeats(ops[i], Exact(base, sv, answers, rs[n]))
  <2>1. PICK i \in 1 .. Len(ops) : Repeats(ops[i], Exact(base, sv, answers, rs[n]))
    BY <1>4
  <2>2. PICK e \in CurrentEdges(base) :
            /\ e = ops[i].target
            /\ base.edge[e].subject = s.canonical_id
            /\ base.edge[e].predicate = rs[n].predicate
            /\ base.edge[e].object = o.canonical_id
    BY <2>1 DEF Repeats, Exact, EdgesBetween, EdgesFrom, EdgesTo
  <2>3. e \in DOMAIN base.edge
    BY DEF CurrentEdges
  <2>4. base.edge[e].subject \in Ids /\ base.edge[e].object \in Ids
    BY <1>1, <2>3 DEF GraphOK, IsGraph
  <2>5. Fact(base, e) = fact
    BY <2>2, <2>4, NoneAssumption DEF Fact, Resolved
  <2>6. e \in DOMAIN g.edge /\ Fact(g, e) = fact
    BY <1>2, <2>3, <2>5 DEF Grows
  <2>7. g.edge[e].valid_to = None \/ Disputed(ops)
    BY <1>2, <1>3, <2>1, <2>2 DEF EdgesShow, EdgeShows, Repeats, Disputed
  <2>8. QED
    BY <2>6, <2>7
<1>5. CASE \E i \in 1 .. Len(ops) : Asserting(i)
  <2>1. PICK i \in {k \in 1 .. Len(ops) : Asserting(k)} :
            \A k \in {k \in 1 .. Len(ops) : Asserting(k)} : i <= k
    <3> DEFINE I == {k \in 1 .. Len(ops) : Asserting(k)}
    <3>1. I \in SUBSET Nat /\ I # {}
      BY <1>3, <1>5
    <3> HIDE DEF I
    <3>2. \E k \in I : \A m \in I : k <= m
      BY <3>1, LeastNumber
    <3>3. QED
      BY <3>2 DEF I
  <2>2. i \in 1 .. Len(ops) /\ Asserting(i)
    OBVIOUS
  <2>3. ASSUME NEW j \in 1 .. Len(ops), Spared(ops, j, i)
        PROVE  FALSE
    <3>1. Asserting(j) /\ j < i
      BY <2>2, <2>3 DEF Spared
    <3> HIDE DEF Asserting
    <3>2. i <= j
      BY <2>1, <3>1
    <3>3. QED
      BY <1>3, <2>2, <3>1, <3>2
  <2>4. Effect(g, p, i, ops[i])
    BY <2>2, <2>3 DEF Replayed, Dealt
  <2>5. <<p, i>> \in DOMAIN g.edge
    BY <2>2, <2>4 DEF Effect
  <2>6. <<p, i>> \notin DOMAIN base.edge
    <3>1. <<p, i>>[1] = p
      OBVIOUS
    <3>2. QED
      BY <1>1, <3>1
  <2>7. PICK j \in 1 .. Len(ops) : /\ <<p, i>> = <<p, j>> /\ Fact(g, <<p, i>>) = Stated(p, ops, j)
                                   /\ g.edge[<<p, i>>].valid_to = None
    BY <1>2, <2>5, <2>6 DEF EdgesShow, EdgeIsNew
  <2>8. j = i
    BY <2>7
  <2>9. Fact(g, <<p, i>>) = fact
    BY <2>2, <2>7, <2>8 DEF Stated
  <2>10. QED
    BY <2>5, <2>7, <2>9
<1>6. QED
  BY <1>4, <1>5 DEF Complete

\* No relation of a document is lost between extraction and patch: when its patch is
\* committed as a whole there is an edge for each relation, between the entities that
\* its ends were resolved to (resolve_node: the edges are aliased to the survivors,
\* and one that is there already is reinforced).
THEOREM RelationsLand == Spec => []FactsLand
<1>1. IInv /\ Origin => FactsLand
  <2> SUFFICES ASSUME IInv, Origin, NEW p \in DOMAIN patches
               PROVE
        LET candidates == Candidates[patches[p].doc]
            g == Replay(p).graph
            id == [t \in {e.temp_id : e \in ToSet(candidates.entities)} |->
                    Resolved(p, patches[p].ops, End(p, Alias(candidates.entities, t)))]
        IN  \A r \in ToSet(candidates.relations) :
                \E e \in DOMAIN g.edge :
                    /\ g.edge[e].subject = id[r.subject]
                    /\ PredicateKey[g.edge[e].predicate]
                        = PredicateKey[NormalizePredicate(patches[p].base, r.predicate)]
                    /\ g.edge[e].object = id[r.object]
    BY DEF FactsLand, Newest
  <2>1. p \in Nat \ {0}
    BY PatchesOK
  <2>2. PICK x : x = patches[p]
    OBVIOUS
  <2>3. Made(p, x)
    BY <2>2 DEF Origin
  <2> DEFINE es == Candidates[x.doc].entities
             rs == Candidates[x.doc].relations
             merged == MergedRelations(x.base, es, rs)
             id == [t \in {e.temp_id : e \in ToSet(es)} |->
                        Resolved(p, x.ops, Refers(x.base, Mentions(x), x.answers, Alias(es, t)))]
  <2>4. CandidatesOK(es, rs) /\ GraphOK(x.base)
    BY <2>3, PromotionAssumption, ExtractOK DEF Made, Candidates
  <2>5. Diff(x.base, p, x.ops) /\ Complete(x.base, Mentions(x), x.answers, merged, x.ops)
    BY <2>1, <2>3, MadeWhole DEF Whole
  <2>6. PICK done : done = Replay(p)
    OBVIOUS
  <2>7. done = CommitPatch(x.base, p, x.ops, [k \in DOMAIN x.ops |-> "approved"])
    BY <2>2, <2>6 DEF Replay
  <2>8. Replayed(done, x.base, p, x.ops, 1 .. Len(x.ops))
    BY <2>5, <2>7, ReplayOK
  <2>9. ASSUME NEW r \in ToSet(rs)
        PROVE  \E e \in DOMAIN done.graph.edge :
                    /\ done.graph.edge[e].subject = id[r.subject]
                    /\ PredicateKey[done.graph.edge[e].predicate]
                        = PredicateKey[NormalizePredicate(x.base, r.predicate)]
                    /\ done.graph.edge[e].object = id[r.object]
    <3> HIDE DEF es, rs, merged
    <3>1. PICK k \in 1 .. Len(rs) : r = rs[k]
      BY <2>4 DEF CandidatesOK, ToSet
    <3>2. r.subject \in TempIds(es) /\ r.object \in TempIds(es)
      BY <2>4, <3>1 DEF CandidatesOK
    <3>3. TempIds(es) = {e.temp_id : e \in ToSet(es)}
      <4>1. DOMAIN es = 1 .. Len(es)
        BY <2>4 DEF CandidatesOK
      <4>2. QED
        BY <4>1 DEF TempIds, ToSet
    <3>4. PICK n \in 1 .. Len(merged) :
            /\ merged[n].subject = Alias(es, r.subject)
            /\ PredicateKey[merged[n].predicate]
                = PredicateKey[NormalizePredicate(x.base, r.predicate)]
            /\ merged[n].object = Alias(es, r.object)
      BY <2>4, <3>1, RelationsKept DEF merged, KeptAs
    <3>5. PICK s, o : /\ s = SubjectOf(x.base, Mentions(x), x.answers, merged[n])
                      /\ o = ObjectOf(x.base, Mentions(x), x.answers, merged[n])
      OBVIOUS
    <3>6. PICK e \in DOMAIN done.graph.edge :
            Fact(done.graph, e)
                = <<Resolved(p, x.ops, s), merged[n].predicate, Resolved(p, x.ops, o)>>
      BY <2>5, <2>8, <3>5, RelationLands
    <3>7. id[r.subject] = Resolved(p, x.ops, s) /\ id[r.object] = Resolved(p, x.ops, o)
      BY <3>2, <3>3, <3>4, <3>5 DEF SubjectOf, ObjectOf
    <3> HIDE DEF id
    <3>8. QED
      BY <3>4, <3>6, <3>7 DEF Fact
  <2>10. id = [t \in {e.temp_id : e \in ToSet(es)} |->
                Resolved(p, patches[p].ops, End(p, Alias(es, t)))]
    BY <2>2 DEF End, Mentions
  <2> HIDE DEF id
  <2>11. QED
    BY <2>2, <2>6, <2>9, <2>10
<1>2. QED
  BY <1>1, OriginHolds, PTL

-----------------------------------------------------------------------------
(* The same document again, resolved against what its patch made of canonical. *)

\* The patch p, diffed with base, took effect as a whole; g is what it made of base.
TookEffect(g, base, p, ops) ==
    /\ Diff(base, p, ops)
    /\ Built(g, base, p, ops, 1 .. Len(ops))
    /\ \A i \in 1 .. Len(ops) : Effect(g, p, i, ops[i])

LEMMA AllCommitted ==
    ASSUME NEW base, NEW p, NEW ops, Diff(base, p, ops),
           NEW done, Replayed(done, base, p, ops, 1 .. Len(ops)),
           \A i \in 1 .. Len(ops) : done.status[i] = "committed"
    PROVE  TookEffect(done.graph, base, p, ops)
<1>1. ASSUME NEW i \in 1 .. Len(ops) PROVE Effect(done.graph, p, i, ops[i])
  <2>1. Dealt(done.graph, done.status, done.failed, p, ops, 1 .. Len(ops), i)
    BY DEF Replayed
  <2>2. done.status[i] # "requeued"
    OBVIOUS
  <2>3. QED
    BY <2>1, <2>2 DEF Dealt
<1>2. QED
  BY <1>1 DEF TookEffect, Replayed

\* A node that the patch created is as it said.
NodeCreated(g, p, ops, i) ==
    /\ <<p, i>> \in DOMAIN g.node
    /\ g.node[<<p, i>>].name = ops[i].name
    /\ g.node[<<p, i>>].description = ops[i].description
    /\ g.node[<<p, i>>].attr = ops[i].attr

LEMMA CreatedThere ==
    ASSUME NEW g, NEW base, NEW p, NEW ops, TookEffect(g, base, p, ops),
           NEW i \in 1 .. Len(ops), ops[i].kind = "CreateNode"
    PROVE  NodeCreated(g, p, ops, i)
<1>1. <<p, i>> \in DOMAIN g.node
  BY DEF TookEffect, Effect
<1>2. <<p, i>> \notin DOMAIN base.node
  <2>1. <<p, i>>[1] = p
    OBVIOUS
  <2>2. QED
    BY <2>1 DEF TookEffect, Diff
<1>3. NodesShow(g, base, p, ops, 1 .. Len(ops))
  BY DEF TookEffect, Built
<1>4. NodeIsNew(g, p, ops, 1 .. Len(ops), <<p, i>>)
  BY <1>1, <1>2, <1>3 DEF NodesShow
<1>5. PICK j \in 1 .. Len(ops) : /\ <<p, i>> = <<p, j>>
                                 /\ g.node[<<p, i>>].name = ops[j].name
                                 /\ g.node[<<p, i>>].description = ops[j].description
                                 /\ g.node[<<p, i>>].attr = ops[j].attr
  BY <1>4 DEF NodeIsNew
<1>6. i = j
  BY <1>5
<1>7. QED
  BY <1>1, <1>5, <1>6 DEF NodeCreated

\* The survivor e, which the patch took for new, was created as it is.
CreatedFor(g, p, ops, e) ==
    LET n == <<p, CreatorPlace(ops, e.temp_id)>>
    IN  /\ n \in DOMAIN g.node
        /\ g.node[n].name = e.name
        /\ g.node[n].description = e.description
        /\ g.node[n].attr = e.attr

LEMMA MentionCreated ==
    ASSUME NEW g, NEW base, NEW p, NEW ops, TookEffect(g, base, p, ops),
           NEW sv, sv \in Seq(SurvivorRecords), DistinctIds(sv), NEW first,
           AllVoiced(base, sv, first, ops),
           NEW e \in ToSet(sv), Created(ops, e.temp_id)
    PROVE  CreatedFor(g, p, ops, e)
<1>1. PICK i : i = CreatorPlace(ops, e.temp_id)
  OBVIOUS
<1>2. i \in 1 .. Len(ops) /\ ops[i].kind = "CreateNode" /\ ops[i].temp_id = e.temp_id
  BY <1>1, PlaceOfCreator DEF Created
<1>3. PICK x \in ToSet(sv) : /\ x.temp_id = ops[i].temp_id /\ x.description = ops[i].description
                             /\ x.name = ops[i].name /\ x.attr = ops[i].attr
  BY <1>2 DEF AllVoiced, Voiced
<1>4. x = e
  <2>1. ToSet(sv) = {sv[k] : k \in 1 .. Len(sv)}
    BY DEF ToSet
  <2>2. QED
    BY <1>2, <1>3, <2>1 DEF DistinctIds
<1>5. NodeCreated(g, p, ops, i)
  BY <1>2, CreatedThere
<1>6. QED
  BY <1>1, <1>3, <1>4, <1>5 DEF NodeCreated, CreatedFor

\* A mention whose name is still missing was merged into a node of another name.
LEMMA MissingMerged ==
    ASSUME NEW g, NEW base, NEW p, NEW ops, TookEffect(g, base, p, ops),
           NEW sv, sv \in Seq(SurvivorRecords), DistinctIds(sv), NEW first,
           AllVoiced(base, sv, first, ops),
           NEW k \in 1 .. Len(sv),
           ResolveEntity(base, sv[k], first).id = None => Created(ops, sv[k].temp_id),
           Guessed(ResolveEntity(base, sv[k], first)) => Merged(ops, sv[k].temp_id),
           FindByName(g, sv[k].name) = {}
    PROVE  Merged(ops, sv[k].temp_id)
<1>1. PICK e \in ToSet(sv) : e = sv[k]
  BY DEF ToSet
<1>2. PICK match : match = ResolveEntity(base, e, first)
  OBVIOUS
<1>3. FindByName(base, e.name) = {}
  <2>1. Grows(base, g) /\ GraphOK(g) /\ GraphOK(base)
    BY DEF TookEffect, Diff, Built
  <2>2. FindByName(base, e.name) \subseteq FindByName(g, e.name)
    BY <2>1 DEF Grows, FindByName
  <2>3. QED
    BY <1>1, <2>2
<1>4. match.method # "rules"
  <2>1. \/ \E n, score : match = Match(n, score, "embedding")
        \/ \E n, score : match = Match(n, score, "llm")
        \/ match = Match(None, 0, "none")
    BY <1>2, <1>3 DEF ResolveEntity
  <2>2. QED
    BY <2>1 DEF Match
<1>5. match.id # None
  <2>1. ASSUME match.id = None PROVE FALSE
    <3>1. Created(ops, e.temp_id)
      BY <1>1, <1>2, <2>1
    <3>2. CreatedFor(g, p, ops, e)
      BY <3>1, MentionCreated
    <3>3. QED
      BY <1>1, <3>2 DEF CreatedFor, FindByName
  <2>2. QED
    BY <2>1
<1>6. QED
  BY <1>1, <1>2, <1>4, <1>5 DEF Guessed

\* The predicates are read as they were.
SamePredicates(g, base, rs) ==
    \A r \in ToSet(rs) : NormalizePredicate(g, r.predicate) = NormalizePredicate(base, r.predicate)

LEMMA RelationsSame ==
    ASSUME NEW g, NEW base, NEW es, NEW rs, CandidatesOK(es, rs), SamePredicates(g, base, rs)
    PROVE  MergedRelations(g, es, rs) = MergedRelations(base, es, rs)
<1>1. \A k \in 1 .. Len(rs) : rs[k] \in ToSet(rs)
  BY DEF CandidatesOK, ToSet
<1>2. QED
  BY <1>1, MergedSame DEF SamePredicates

-----------------------------------------------------------------------------
(* Its mentions say what their nodes say. *)

\* The mention e refers to the entity n that it is, or to that created for it.
EntityOf(r, p, ops, e, n) ==
    /\ n = None => r = <<p, CreatorPlace(ops, e.temp_id)>>
    /\ n # None => r = n

LEMMA MentionIs ==
    ASSUME NEW base, NEW sv \in Seq(SurvivorRecords), DistinctIds(sv), NEW first,
           NEW e \in ToSet(sv), NEW p, NEW ops
    PROVE  EntityOf(Resolved(p, ops, Refers(base, sv, first, e.temp_id)), p, ops, e,
                    ResolveEntity(base, e, first).id)
<1> DEFINE n == ResolveEntity(base, e, first).id
<1>1. PICK t : t = e.temp_id
  OBVIOUS
<1>2. Refers(base, sv, first, t) = IF n = None THEN Ref(t, None) ELSE Ref(None, n)
  BY <1>1, MentionRefers
<1>3. CASE n = None
  <2>1. PICK ref : ref = Refers(base, sv, first, t) /\ ref.canonical_id = None /\ ref.temp_id = t
    BY <1>2, <1>3 DEF Ref
  <2>2. Resolved(p, ops, ref) = <<p, CreatorPlace(ops, t)>>
    BY <2>1 DEF Resolved, CreatorPlace
  <2>3. QED
    BY <1>1, <1>3, <2>1, <2>2 DEF EntityOf
<1>4. CASE n # None
  BY <1>1, <1>2, <1>4 DEF Ref, Resolved, EntityOf
<1>5. QED
  BY <1>3, <1>4

\* What a patch that took effect said, and of what: no text is over the cap.
SaidWhole(base, sv, first, ops) ==
    /\ sv \in Seq(SurvivorRecords) /\ DistinctIds(sv)
    /\ AnswersSound(base, sv, first)
    /\ AllVoiced(base, sv, first, ops)
    /\ \A m \in 1 .. Len(sv) : ResolveEntity(base, sv[m], first).id = None => Created(ops, sv[m].temp_id)
    /\ AllFit(base, sv)
    /\ HeardUpTo(base, sv, first, ops, Len(sv))

\* Every text that there is fits.
LEMMA TextsOf ==
    ASSUME NEW base, GraphOK(base), NEW sv \in Seq(SurvivorRecords), AllFit(base, sv)
    PROVE  /\ \A n \in DOMAIN base.node : TextOrNone(base.node[n].description)
           /\ \A e \in ToSet(sv) : TextOrNone(e.description)
<1>1. ASSUME NEW n \in DOMAIN base.node PROVE TextOrNone(base.node[n].description)
  <2>1. base.node[n].description \in Descriptions
    BY DEF GraphOK, IsGraph
  <2>2. QED
    BY <2>1, TextsFit DEF AllFit
<1>2. ASSUME NEW k \in 1 .. Len(sv) PROVE TextOrNone(sv[k].description)
  <2>1. sv[k] \in SurvivorRecords
    BY ElementOfSeq
  <2>2. sv[k].description \in Descriptions
    BY <2>1 DEF SurvivorRecords
  <2>3. QED
    BY <2>2, TextsFit DEF AllFit
<1>3. QED
  BY <1>1, <1>2 DEF ToSet

\* The node n, which was updated, says what a mention of it says.
LEMMA UpdateAbsorbs ==
    ASSUME NEW ops, OneUpdate(ops), NEW n, NEW record, TextOrNone(record.description),
           NEW e, TextOrNone(e.description), Taken(ops, n, record, e),
           NEW i, UpdateOf(ops, i, n), Gathers(record, ops[i]),
           NEW now, now.description = Given(ops[i].description, record.description),
           now.attr = Given(ops[i].attr, record.attr)
    PROVE  Absorbed(now, e)
<1>1. \A j : UpdateOf(ops, j, n) => j = i
  BY DEF UpdateOf, OneUpdate, UpdateAt
<1>2. e.attr # None => now.attr # None
  BY <1>1 DEF Taken, Given
<1>3. ASSUME e.description # None PROVE Carries(now.description, e.description)
  <2>1. CASE Carries(ops[i].description, e.description)
    BY <2>1 DEF Given, Carries
  <2>2. CASE Carries(record.description, e.description) /\ ops[i].description = None
    BY <2>2 DEF Given
  <2>3. CASE Carries(record.description, e.description) /\ ops[i].description # None
    <3>1. PICK s, t, u : s = e.description /\ t = record.description /\ u = ops[i].description
      OBVIOUS
    <3>2. t # None
      BY <2>3, <3>1 DEF Carries
    <3>3. s \in Seq(STRING) /\ Text(t) /\ Text(u) /\ Carries(u, t) /\ Carries(t, s)
      BY <1>3, <2>3, <3>1, <3>2 DEF TextOrNone, Gathers, Text
    <3>4. Carries(u, s)
      BY <3>3, CarriesTransitive
    <3>5. QED
      BY <2>3, <3>1, <3>4 DEF Given
  <2>4. QED
    BY <1>1, <1>3, <2>1, <2>2, <2>3 DEF Taken
<1>4. QED
  BY <1>2, <1>3 DEF Absorbed

\* The node n of base says what a mention of it says.
LEMMA KnownAbsorbs ==
    ASSUME NEW g, NEW base, NEW p, NEW ops, TookEffect(g, base, p, ops),
           NEW sv, NEW first, SaidWhole(base, sv, first, ops),
           NEW e \in ToSet(sv), NEW n \in DOMAIN base.node, n = ResolveEntity(base, e, first).id
    PROVE  Absorbed(g.node[n], e)
<1>1. GraphOK(base) /\ OneUpdate(ops) /\ NodeShows(g, base, ops, 1 .. Len(ops), n)
  BY DEF TookEffect, Diff, Built, NodesShow
<1>2. TextOrNone(base.node[n].description) /\ TextOrNone(e.description)
  BY <1>1, TextsOf DEF SaidWhole
<1>3. Taken(ops, n, base.node[n], e)
  <2>1. PICK m \in 1 .. Len(sv) : e = sv[m]
    BY DEF SaidWhole, ToSet
  <2>2. n # None
    BY <1>1, NoneAssumption DEF GraphOK
  <2>3. Heard(base, first, ops, e)
    BY <2>1 DEF SaidWhole, HeardUpTo
  <2>4. QED
    BY <2>2, <2>3 DEF Heard
<1>4. CASE /\ g.node[n].description = base.node[n].description /\ g.node[n].attr = base.node[n].attr
           /\ \A i \in 1 .. Len(ops) : ~(UpdateAt(ops, i) /\ ops[i].target = n)
  <2>1. \A i : ~UpdateOf(ops, i, n)
    BY <1>4 DEF UpdateOf, UpdateAt
  <2>2. QED
    BY <1>3, <1>4, <2>1 DEF Taken, Absorbed
<1>5. ASSUME NEW i \in 1 .. Len(ops), UpdateAt(ops, i), ops[i].target = n,
             g.node[n].description = Given(ops[i].description, base.node[n].description),
             g.node[n].attr = Given(ops[i].attr, base.node[n].attr)
      PROVE  Absorbed(g.node[n], e)
  <2>1. UpdateOf(ops, i, n) /\ Gathers(base.node[n], ops[i])
    BY <1>5 DEF UpdateOf, SaidWhole, HeardUpTo, AllSteady, Steady
  <2>2. QED
    BY <1>1, <1>2, <1>3, <1>5, <2>1, UpdateAbsorbs
<1>6. QED
  BY <1>1, <1>4, <1>5 DEF NodeShows

\* And so does the node that was created for it.
LEMMA NewAbsorbs ==
    ASSUME NEW g, NEW p, NEW ops, NEW e, CreatedFor(g, p, ops, e), TextOrNone(e.description)
    PROVE  Absorbed(g.node[<<p, CreatorPlace(ops, e.temp_id)>>], e)
<1>1. ASSUME e.description # None PROVE Carries(e.description, e.description)
  <2>1. e.description \in Seq(STRING)
    BY <1>1 DEF TextOrNone, Text
  <2>2. Within(e.description, e.description)
    BY <2>1, WithinSelf
  <2>3. QED
    BY <1>1, <2>2 DEF Carries
<1>2. QED
  BY <1>1 DEF CreatedFor, Absorbed

\* The mentions are the entities that they were.
SameEntities(g, base, p, ops, sv, first, answers) ==
    \A e \in ToSet(sv) :
        ResolveEntity(g, e, answers).id = Resolved(p, ops, Refers(base, sv, first, e.temp_id))

LEMMA AllKnown ==
    ASSUME NEW g, NEW base, NEW p, NEW ops, TookEffect(g, base, p, ops),
           NEW sv, NEW first, SaidWhole(base, sv, first, ops),
           NEW answers, SameEntities(g, base, p, ops, sv, first, answers)
    PROVE  Known(g, sv, answers)
<1> SUFFICES ASSUME NEW e \in ToSet(sv)
             PROVE  Absorbed(g.node[ResolveEntity(g, e, answers).id], e)
  BY DEF Known
<1>1. sv \in Seq(SurvivorRecords) /\ DistinctIds(sv) /\ GraphOK(base)
  BY DEF SaidWhole, TookEffect, Diff
<1>2. PICK n : n = ResolveEntity(base, e, first).id
  OBVIOUS
<1>3. /\ n = None => ResolveEntity(g, e, answers).id = <<p, CreatorPlace(ops, e.temp_id)>>
      /\ n # None => ResolveEntity(g, e, answers).id = n
  <2>1. EntityOf(Resolved(p, ops, Refers(base, sv, first, e.temp_id)), p, ops, e,
                 ResolveEntity(base, e, first).id)
    BY <1>1, MentionIs
  <2>2. EntityOf(ResolveEntity(g, e, answers).id, p, ops, e, n)
    BY <1>2, <2>1 DEF SameEntities
  <2>3. QED
    BY <2>2 DEF EntityOf
<1>4. PICK k \in 1 .. Len(sv) : e = sv[k]
  BY <1>1 DEF ToSet
<1>5. CASE n = None
  <2>1. Created(ops, e.temp_id)
    BY <1>2, <1>4, <1>5 DEF SaidWhole
  <2>2. CreatedFor(g, p, ops, e)
    BY <1>1, <2>1, MentionCreated DEF SaidWhole
  <2>3. TextOrNone(e.description)
    BY <1>1, TextsOf DEF SaidWhole
  <2>4. QED
    BY <1>3, <1>5, <2>2, <2>3, NewAbsorbs
<1>6. CASE n # None
  <2>1. MatchSound(base, sv[k], ResolveEntity(base, sv[k], first))
    BY <1>1, ResolveEntityOK DEF SaidWhole
  <2>2. n \in DOMAIN base.node
    BY <1>2, <1>4, <1>6, <2>1 DEF MatchSound
  <2>3. QED
    BY <1>2, <1>3, <1>6, <2>2, KnownAbsorbs
<1>7. QED
  BY <1>5, <1>6

\* Every mention is an entity of g.
AllFound(g, sv, answers) == \A k \in 1 .. Len(sv) : ResolveEntity(g, sv[k], answers).id # None

LEMMA SameFound ==
    ASSUME NEW g, NEW base, NEW p, NEW ops, TookEffect(g, base, p, ops),
           NEW sv, NEW first, SaidWhole(base, sv, first, ops),
           NEW answers, SameEntities(g, base, p, ops, sv, first, answers)
    PROVE  AllFound(g, sv, answers)
<1> SUFFICES ASSUME NEW k \in 1 .. Len(sv)
             PROVE  ResolveEntity(g, sv[k], answers).id # None
  BY DEF AllFound
<1>1. sv \in Seq(SurvivorRecords) /\ DistinctIds(sv) /\ GraphOK(g)
  BY DEF SaidWhole, TookEffect, Built
<1>2. PICK e \in ToSet(sv) : e = sv[k]
  BY <1>1 DEF ToSet
<1>3. EntityOf(ResolveEntity(g, e, answers).id, p, ops, e, ResolveEntity(base, e, first).id)
  <2>1. EntityOf(Resolved(p, ops, Refers(base, sv, first, e.temp_id)), p, ops, e,
                 ResolveEntity(base, e, first).id)
    BY <1>1, MentionIs
  <2>2. QED
    BY <2>1 DEF SameEntities
<1>4. CASE ResolveEntity(base, e, first).id = None
  <2>1. Created(ops, e.temp_id)
    BY <1>2, <1>4 DEF SaidWhole
  <2>2. CreatedFor(g, p, ops, e)
    BY <1>1, <2>1, MentionCreated DEF SaidWhole
  <2>3. None \notin DOMAIN g.node
    BY <1>1, NoneAssumption DEF GraphOK
  <2>4. QED
    BY <1>2, <1>3, <1>4, <2>2, <2>3 DEF EntityOf, CreatedFor
<1>5. CASE ResolveEntity(base, e, first).id # None
  BY <1>2, <1>3, <1>5 DEF EntityOf
<1>6. QED
  BY <1>4, <1>5

\* No text of the graph is over the cap either.
LEMMA StillFit ==
    ASSUME NEW g, NEW base, NEW p, NEW ops, TookEffect(g, base, p, ops),
           NEW sv, NEW first, SaidWhole(base, sv, first, ops)
    PROVE  AllFit(g, sv)
<1>1. NodesShow(g, base, p, ops, 1 .. Len(ops))
  BY DEF TookEffect, Built
<1>2. ASSUME NEW n \in DOMAIN base.node PROVE Fits(g.node[n].description)
  <2>1. Fits(base.node[n].description)
    BY DEF SaidWhole, AllFit
  <2>2. ASSUME NEW i \in 1 .. Len(ops), UpdateAt(ops, i), ops[i].target = n
        PROVE  Fits(ops[i].description)
    <3>1. Gathers(base.node[n], ops[i])
      BY <2>2 DEF SaidWhole, HeardUpTo, AllSteady, Steady
    <3>2. QED
      BY <3>1 DEF Gathers, TextOrNone, Text, Fits
  <2>3. QED
    BY <1>1, <2>1, <2>2 DEF NodesShow, NodeShows, Given
<1>3. ASSUME NEW n \in DOMAIN g.node, n \notin DOMAIN base.node PROVE Fits(g.node[n].description)
  <2>1. PICK i \in 1 .. Len(ops) : /\ ops[i].kind = "CreateNode"
                                   /\ g.node[n].description = ops[i].description
    BY <1>1, <1>3 DEF NodesShow, NodeIsNew
  <2>2. PICK e \in ToSet(sv) : e.description = ops[i].description
    BY <2>1 DEF SaidWhole, AllVoiced, Voiced
  <2>3. \A k \in 1 .. Len(sv) : Fits(sv[k].description)
    BY DEF SaidWhole, AllFit
  <2>4. Fits(e.description)
    BY <2>3 DEF SaidWhole, ToSet
  <2>5. QED
    BY <2>1, <2>2, <2>4
<1>4. QED
  BY <1>2, <1>3 DEF AllFit, SaidWhole

-----------------------------------------------------------------------------
(* And its patch has nothing new. *)

\* An update that writes what is there changes nothing.
LEMMA UpdateIdle ==
    ASSUME NEW g, GraphOK(g), NEW p, NEW ops, NEW i, ops[i].kind = "UpdateNodeProps",
           ops[i].target \in DOMAIN g.node, Calm(g.node[ops[i].target], ops[i])
    PROVE  Idle(g, p, ops, i)
<1>1. PICK t, h : t = ops[i].target /\ h = ApplyOp(g, p, ops, i)
  OBVIOUS
<1>2. PICK record : record = g.node[t]
  OBVIOUS
<1>3. /\ Given(ops[i].description, record.description) = record.description
      /\ Given(ops[i].attr, record.attr) = record.attr
  BY <1>1, <1>2 DEF Calm, Given
<1>4. /\ record \in [name : EntityNames, entity_type : Labels, description : Descriptions, attr : Values]
      /\ g.node \in [DOMAIN g.node ->
            [name : EntityNames, entity_type : Labels, description : Descriptions, attr : Values]]
      /\ DOMAIN g = {"node", "edge"}
  BY <1>1, <1>2 DEF GraphOK, IsGraph
<1>5. PICK d, a : /\ d = Given(ops[i].description, record.description) /\ d = record.description
                  /\ a = Given(ops[i].attr, record.attr) /\ a = record.attr
  BY <1>3
<1>6. h.node = [[g.node EXCEPT ![t].description = d] EXCEPT ![t].attr = a]
  <2>1. h = [[g EXCEPT !.node[t].description = Given(ops[i].description, @)]
                EXCEPT !.node[t].attr = Given(ops[i].attr, @)]
    BY <1>1 DEF ApplyOp
  <2>2. PICK first : first = [g EXCEPT !.node[t].description = Given(ops[i].description, @)]
    OBVIOUS
  <2>3. first = [g EXCEPT !.node[t].description = d]
    BY <1>2, <1>4, <1>5, <2>2
  <2>4. first.node = [g.node EXCEPT ![t].description = d] /\ DOMAIN first = {"node", "edge"}
    BY <1>4, <2>3
  <2>5. first.node[t].attr = record.attr
    BY <1>1, <1>2, <1>4, <2>4
  <2>6. h = [first EXCEPT !.node[t].attr = Given(ops[i].attr, @)]
    BY <2>1, <2>2
  <2>7. h = [first EXCEPT !.node[t].attr = a]
    BY <1>5, <2>4, <2>5, <2>6
  <2>8. QED
    BY <2>4, <2>7
<1>7. [g.node EXCEPT ![t].description = d] = g.node /\ [g.node EXCEPT ![t].attr = a] = g.node
  BY <1>1, <1>2, <1>4, <1>5
<1>8. h.edge = g.edge
  BY <1>1, EdgesLeft DEF OfEntity
<1>9. h.node = g.node
  BY <1>6, <1>7
<1>10. QED
  BY <1>1, <1>8, <1>9 DEF Idle

\* Every relation is a current edge of g.
AllRepeated(g, sv, answers, rs) == \A n \in 1 .. Len(rs) : Exact(g, sv, answers, rs[n]) # {}

\* The end of an edge is what it was.
LEMMA EndSame ==
    ASSUME NEW g, NEW base, NEW p, NEW ops, NEW sv \in Seq(SurvivorRecords), DistinctIds(sv),
           NEW first, NEW answers, SameEntities(g, base, p, ops, sv, first, answers),
           AllFound(g, sv, answers),
           NEW t \in TempIds(sv)
    PROVE  Refers(g, sv, answers, t).canonical_id = Resolved(p, ops, Refers(base, sv, first, t))
<1>1. PICK k \in 1 .. Len(sv) : sv[k].temp_id = t
  BY DEF TempIds
<1>2. PICK e \in ToSet(sv) : e = sv[k]
  BY DEF ToSet
<1>3. PICK n : n = ResolveEntity(g, e, answers).id /\ n # None
  BY <1>2 DEF AllFound
<1>4. Refers(g, sv, answers, e.temp_id) = Ref(None, n)
  <2>1. Refers(g, sv, answers, e.temp_id) = IF n = None THEN Ref(e.temp_id, None) ELSE Ref(None, n)
    BY <1>3, MentionRefers
  <2>2. QED
    BY <1>3, <2>1
<1>5. Refers(g, sv, answers, t).canonical_id = n
  BY <1>1, <1>2, <1>4 DEF Ref
<1>6. QED
  BY <1>1, <1>2, <1>3, <1>5 DEF SameEntities

LEMMA RelationsRepeated ==
    ASSUME NEW base, NEW p, NEW ops, NEW done, Replayed(done, base, p, ops, 1 .. Len(ops)),
           NEW g, g = done.graph, TookEffect(g, base, p, ops),
           NEW sv \in Seq(SurvivorRecords), DistinctIds(sv),
           NEW first, NEW answers, SameEntities(g, base, p, ops, sv, first, answers),
           AllFound(g, sv, answers),
           NEW rs, MergedSound(rs, sv), Complete(base, sv, first, rs, ops), ~Disputed(ops)
    PROVE  AllRepeated(g, sv, answers, rs)
<1> SUFFICES ASSUME NEW n \in 1 .. Len(rs)
             PROVE  Exact(g, sv, answers, rs[n]) # {}
  BY DEF AllRepeated
<1>1. PICK s, o : s = SubjectOf(base, sv, first, rs[n]) /\ o = ObjectOf(base, sv, first, rs[n])
  OBVIOUS
<1>2. PICK e \in DOMAIN g.edge :
        /\ Fact(g, e) = <<Resolved(p, ops, s), rs[n].predicate, Resolved(p, ops, o)>>
        /\ g.edge[e].valid_to = None
  <2>1. Diff(base, p, ops)
    BY DEF TookEffect
  <2>2. \E e \in DOMAIN done.graph.edge :
                /\ Fact(done.graph, e)
                    = <<Resolved(p, ops, s), rs[n].predicate, Resolved(p, ops, o)>>
                /\ done.graph.edge[e].valid_to = None \/ Disputed(ops)
    BY <1>1, <2>1, RelationLands
  <2>3. QED
    BY <2>2
<1>3. rs[n].subject \in TempIds(sv) /\ rs[n].object \in TempIds(sv)
  BY DEF MergedSound
<1>4. /\ SubjectOf(g, sv, answers, rs[n]).canonical_id = Resolved(p, ops, s)
      /\ ObjectOf(g, sv, answers, rs[n]).canonical_id = Resolved(p, ops, o)
  <2>1. Refers(g, sv, answers, rs[n].subject).canonical_id
            = Resolved(p, ops, Refers(base, sv, first, rs[n].subject))
    BY <1>3, EndSame
  <2>2. Refers(g, sv, answers, rs[n].object).canonical_id
            = Resolved(p, ops, Refers(base, sv, first, rs[n].object))
    BY <1>3, EndSame
  <2>3. QED
    BY <1>1, <2>1, <2>2 DEF SubjectOf, ObjectOf
<1>5. e \in CurrentEdges(g) /\ g.edge[e].subject = Resolved(p, ops, s)
      /\ g.edge[e].predicate = rs[n].predicate /\ g.edge[e].object = Resolved(p, ops, o)
  BY <1>2 DEF CurrentEdges, Fact
<1>6. QED
  BY <1>4, <1>5 DEF Exact, EdgesBetween, EdgesFrom, EdgesTo

\* A patch for a graph that has all of it.
LEMMA AllIdle ==
    ASSUME NEW g, GraphOK(g), NEW ops, PatchSound(g, ops),
           \A i \in 1 .. Len(ops) : ops[i].kind # "CreateNode",
           NEW sv, NEW answers, Known(g, sv, answers), AllSteady(g, sv, answers, ops),
           NEW rs, Complete(g, sv, answers, rs, ops), AllRepeated(g, sv, answers, rs), NEW p
    PROVE  \A i \in 1 .. Len(ops) : Idle(g, p, ops, i)
<1> TAKE i \in 1 .. Len(ops)
<1>1. OpSound(g, ops, i)
  BY DEF PatchSound, AllSound
<1>2. ops[i].kind \notin {"AssertEdge", "InvalidateEdge", "CreateNode"}
  BY DEF Complete, AllRepeated
<1>3. CASE ops[i].kind = "UpdateNodeProps"
  <2>1. ops[i].target \in DOMAIN g.node
    BY <1>1, <1>3 DEF OpSound, UpdateSound
  <2>2. Calm(g.node[ops[i].target], ops[i])
    BY <1>3 DEF AllSteady, UpdateAt, Steady
  <2>3. QED
    BY <1>3, <2>1, <2>2, UpdateIdle
<1>4. CASE ops[i].kind \in {"ReinforceEdge", "MergeInto"}
  BY <1>4 DEF Idle
<1>5. QED
  BY <1>1, <1>2, <1>3, <1>4 DEF OpSound, Kinds

\* The document of the patch x, staged as p, is resolved again, g being what x made of
\* its graph, and ops is what comes of it.
Reread(x, g, answers, ops) ==
    /\ answers \in Answers(g, Candidates[x.doc].entities)
    /\ \E verdict \in Adjudications(g, Candidates[x.doc], answers) :
            ops = ResolveNode(g, Candidates[x.doc], answers, verdict)

NothingNew(p, x, g, answers, ops) ==
    /\ DOMAIN ops = 1 .. Len(ops)
    /\ \A i \in 1 .. Len(ops) : ops[i].kind = "CreateNode" => Merged(x.ops, ops[i].temp_id)
    /\ /\ AllFit(x.base, Mentions(x)) /\ ~Disputed(x.ops)
       /\ SamePredicates(g, x.base, Candidates[x.doc].relations)
       /\ SameEntities(g, x.base, p, x.ops, Mentions(x), x.answers, answers)
       => \A i \in 1 .. Len(ops) : Idle(g, p, ops, i)

LEMMA ReadAgain ==
    ASSUME NEW p \in Nat \ {0}, NEW x, Made(p, x),
           NEW status, status = [i \in DOMAIN x.ops |-> "approved"],
           NEW done, done = CommitPatch(x.base, p, x.ops, status),
           \A i \in 1 .. Len(x.ops) : done.status[i] = "committed",
           NEW answers, NEW ops, Reread(x, done.graph, answers, ops)
    PROVE  NothingNew(p, x, done.graph, answers, ops)
<1>1. PICK g : g = done.graph
  OBVIOUS
<1>2. PICK verdict \in Adjudications(g, Candidates[x.doc], answers) :
        ops = ResolveNode(g, Candidates[x.doc], answers, verdict)
  BY <1>1 DEF Reread
<1> DEFINE es == Candidates[x.doc].entities
           rs == Candidates[x.doc].relations
           sv == Mentions(x)
           merged == MergedRelations(x.base, es, rs)
<1>3. /\ x.doc \in DOMAIN Content /\ Candidates[x.doc] = Extract(x.doc) /\ GraphOK(x.base)
      /\ x.answers \in Answers(x.base, es) /\ answers \in Answers(g, es)
  BY <1>1, PromotionAssumption DEF Made, Candidates, Reread
<1>4. CandidatesOK(es, rs) /\ sv = Survivors(es)
  BY <1>3, ExtractOK DEF Mentions
<1>5. sv \in Seq(SurvivorRecords) /\ DistinctIds(sv)
  <2>1. SurvivorsSound(Survivors(es), es)
    BY <1>4, SurvivorsOK
  <2>2. QED
    BY <1>4, <2>1 DEF SurvivorsSound, DistinctIds
<1>6. MergedSound(merged, sv)
  BY <1>3, <1>4, MergedRelationsOK
<1>7. /\ Diff(x.base, p, x.ops) /\ Whole(x.base, sv, x.answers, merged, x.ops)
      /\ AllVoiced(x.base, sv, x.answers, x.ops)
      /\ AllFit(x.base, sv) => HeardUpTo(x.base, sv, x.answers, x.ops, Len(sv))
  BY MadeWhole
<1>8. Replayed(done, x.base, p, x.ops, 1 .. Len(x.ops))
  BY <1>7, ReplayOK
<1>9. TookEffect(g, x.base, p, x.ops) /\ GraphOK(g)
  <2>1. TookEffect(g, x.base, p, x.ops)
    BY <1>1, <1>7, <1>8, AllCommitted
  <2>2. QED
    BY <2>1 DEF TookEffect, Built
<1>10. AnswersSound(x.base, sv, x.answers) /\ AnswersSound(g, sv, answers)
  BY <1>3, <1>4, <1>9, AnswersOK
<1>11. /\ PatchSound(g, ops) /\ AllVoiced(g, sv, answers, ops)
       /\ Whole(g, sv, answers, MergedRelations(g, es, rs), ops)
       /\ AllFit(g, sv) => HeardUpTo(g, sv, answers, ops, Len(sv))
  <2>1. PatchSound(g, ops)
    BY <1>3, <1>9, <1>2, PatchOK
  <2>2. AllVoiced(g, sv, answers, ops)
    BY <1>3, <1>4, <1>9, <1>2, PatchVoiced
  <2>3. Whole(g, sv, answers, MergedRelations(g, es, rs), ops)
    BY <1>3, <1>4, <1>9, <1>2, PatchWhole
  <2>4. AllFit(g, sv) => HeardUpTo(g, sv, answers, ops, Len(sv))
    BY <1>3, <1>4, <1>9, <1>2, PatchHeard
  <2>5. QED
    BY <2>1, <2>2, <2>3, <2>4
<1> HIDE DEF sv, merged, es, rs
<1>12. ASSUME NEW i \in 1 .. Len(ops), ops[i].kind = "CreateNode"
       PROVE  Merged(x.ops, ops[i].temp_id)
  <2>1. PICK e \in ToSet(sv) : e.temp_id = ops[i].temp_id /\ ResolveEntity(g, e, answers).id = None
    BY <1>11, <1>12 DEF AllVoiced, Voiced
  <2>2. PICK k \in 1 .. Len(sv) : e = sv[k]
    BY <1>5 DEF ToSet
  <2>3. FindByName(g, sv[k].name) = {}
    <3>1. MatchSound(g, sv[k], ResolveEntity(g, sv[k], answers))
      BY <1>5, <1>9, <1>10, ResolveEntityOK
    <3>2. QED
      BY <2>1, <2>2, <3>1 DEF MatchSound
  <2>4. Merged(x.ops, sv[k].temp_id)
    BY <1>5, <1>7, <1>9, <2>3, MissingMerged DEF Whole
  <2>5. QED
    BY <2>1, <2>2, <2>4
<1>13. ASSUME AllFit(x.base, sv), ~Disputed(x.ops), SamePredicates(g, x.base, rs),
              SameEntities(g, x.base, p, x.ops, sv, x.answers, answers)
       PROVE  \A i \in 1 .. Len(ops) : Idle(g, p, ops, i)
  <2>1. SaidWhole(x.base, sv, x.answers, x.ops)
    BY <1>5, <1>7, <1>10, <1>13 DEF SaidWhole, Whole
  <2>2. Known(g, sv, answers) /\ AllFound(g, sv, answers)
    BY <1>9, <1>13, <2>1, AllKnown, SameFound
  <2>3. AllSteady(g, sv, answers, ops)
    <3>1. AllFit(g, sv)
      BY <1>9, <2>1, StillFit
    <3>2. QED
      BY <1>11, <3>1 DEF HeardUpTo
  <2>4. MergedRelations(g, es, rs) = merged
    BY <1>4, <1>13, RelationsSame DEF merged
  <2>5. Complete(x.base, sv, x.answers, merged, x.ops) /\ Complete(g, sv, answers, merged, ops)
    BY <1>7, <1>11, <2>4 DEF Whole
  <2>6. AllRepeated(g, sv, answers, merged)
    BY <1>1, <1>5, <1>6, <1>8, <1>9, <1>13, <2>2, <2>5, RelationsRepeated
  <2>7. \A i \in 1 .. Len(ops) : ops[i].kind # "CreateNode"
    <3>1. \A e \in ToSet(sv) : ResolveEntity(g, e, answers).id # None
      BY <1>5, <2>2 DEF ToSet, AllFound
    <3>2. QED
      BY <1>11, <3>1 DEF AllVoiced, Voiced
  <2>8. QED
    BY <1>9, <1>11, <2>2, <2>3, <2>5, <2>6, <2>7, AllIdle
<1>14. DOMAIN ops = 1 .. Len(ops)
  <2>1. PICK S : ops \in Seq(S)
    BY <1>11 DEF PatchSound, AllSound, IsSequence
  <2>2. QED
    BY <2>1
<1>15. QED
  BY <1>1, <1>12, <1>13, <1>14 DEF NothingNew, sv, rs

\* Nothing is new twice: when the text of a patch that was committed as a whole is
\* resolved again, whatever the embedder and the model answer then, the only mentions
\* that can introduce an entity are those the patch merged into a node of another name
\* (the cascade looks names up first, and a merge leaves no name to be found).  And
\* where its mentions are the entities and its predicates the predicates they were, its
\* patch merges mentions, reinforces the facts and rewrites what is there (_extend_props
\* adds what is not there yet, correlate_relation reinforces an exact match), if no text
\* is over the cap and the document did not both repeat and supersede a fact.
THEOREM DocumentsSettle == Spec => []Settled
<1>1. IInv /\ Origin => Settled
  <2> SUFFICES ASSUME IInv, Origin, NEW p \in Newest,
                      \A i \in DOMAIN Replay(p).status : Replay(p).status[i] = "committed",
                      NEW answers \in Answers(Replay(p).graph, Candidates[patches[p].doc].entities),
                      NEW verdict \in Adjudications(Replay(p).graph, Candidates[patches[p].doc], answers),
                      NEW ops, ops = ResolveNode(Replay(p).graph, Candidates[patches[p].doc], answers, verdict)
               PROVE
        LET x == patches[p]
            candidates == Candidates[x.doc]
            mentions == ToSet(Survivors(candidates.entities))
            done == Replay(p)
            merged == {x.ops[i].temp_id : i \in {j \in DOMAIN x.ops : x.ops[j].kind = "MergeInto"}}
            short == /\ \A e \in mentions : Short(e)
                     /\ \A n \in DOMAIN x.base.node : Short(x.base.node[n])
        IN  /\ \A i \in DOMAIN ops : ops[i].kind = "CreateNode" => ops[i].temp_id \in merged
            /\ /\ short /\ ~Disputed(x.ops)
               /\ \A r \in ToSet(candidates.relations) :
                    NormalizePredicate(done.graph, r.predicate) = NormalizePredicate(x.base, r.predicate)
               /\ \A e \in mentions :
                    ResolveEntity(done.graph, e, answers).id = Resolved(p, x.ops, End(p, e.temp_id))
               => \A i \in DOMAIN ops : Idle(done.graph, p, ops, i)
    BY DEF Settled
  <2>1. p \in DOMAIN patches /\ p \in Nat \ {0}
    BY PatchesOK DEF Newest
  <2>2. PICK x : x = patches[p]
    OBVIOUS
  <2>3. Made(p, x)
    BY <2>1, <2>2 DEF Origin
  <2>4. PICK done : done = Replay(p)
    OBVIOUS
  <2>5. done = CommitPatch(x.base, p, x.ops, [k \in DOMAIN x.ops |-> "approved"])
    BY <2>2, <2>4 DEF Replay
  <2>6. Diff(x.base, p, x.ops)
    BY <2>1, <2>3, MadeWhole
  <2>7. Replayed(done, x.base, p, x.ops, 1 .. Len(x.ops))
    BY <2>5, <2>6, ReplayOK
  <2>8. \A i \in 1 .. Len(x.ops) : done.status[i] = "committed"
    BY <2>4, <2>7 DEF Replayed
  <2>9. Reread(x, done.graph, answers, ops)
    BY <2>2, <2>4 DEF Reread
  <2>10. NothingNew(p, x, done.graph, answers, ops)
    BY <2>1, <2>3, <2>5, <2>8, <2>9, ReadAgain
  <2>11. ASSUME \A e \in ToSet(Mentions(x)) : Short(e),
                \A n \in DOMAIN x.base.node : Short(x.base.node[n])
         PROVE  AllFit(x.base, Mentions(x))
    <3>1. \A k \in 1 .. Len(Mentions(x)) : Mentions(x)[k] \in ToSet(Mentions(x))
      <4>1. PICK S : Mentions(x) \in Seq(S)
        BY <2>3, MentionsOK DEF Made
      <4>2. QED
        BY <4>1 DEF ToSet
    <3>2. QED
      BY <2>11, <3>1 DEF Short, Fits, AllFit
  <2>12. SameEntities(done.graph, x.base, p, x.ops, Mentions(x), x.answers, answers)
            <=> \A e \in ToSet(Mentions(x)) :
                    ResolveEntity(done.graph, e, answers).id = Resolved(p, x.ops, End(p, e.temp_id))
    BY <2>2 DEF SameEntities, End, Mentions
  <2>13. ASSUME NEW i \in DOMAIN ops, ops[i].kind = "CreateNode"
         PROVE  ops[i].temp_id
                    \in {x.ops[j].temp_id : j \in {k \in DOMAIN x.ops : x.ops[k].kind = "MergeInto"}}
    <3>1. Merged(x.ops, ops[i].temp_id)
      BY <2>10, <2>13 DEF NothingNew
    <3>2. DOMAIN x.ops = 1 .. Len(x.ops)
      BY <2>1, <2>2, PatchesOK
    <3>3. QED
      BY <3>1, <3>2 DEF Merged
  <2>14. ASSUME \A e \in ToSet(Mentions(x)) : Short(e),
                \A n \in DOMAIN x.base.node : Short(x.base.node[n]), ~Disputed(x.ops),
                SamePredicates(done.graph, x.base, Candidates[x.doc].relations),
                SameEntities(done.graph, x.base, p, x.ops, Mentions(x), x.answers, answers)
         PROVE  \A i \in DOMAIN ops : Idle(done.graph, p, ops, i)
    BY <2>10, <2>11, <2>14 DEF NothingNew
  <2>15. QED
    BY <2>2, <2>4, <2>12, <2>13, <2>14 DEF Mentions, SamePredicates
<1>2. QED
  BY <1>1, OriginHolds, PTL

-----------------------------------------------------------------------------
(* The walk of a question. *)

LEMMA EndsOfOne ==
    ASSUME NEW g, NEW e
    PROVE  Ends(g, {e}) = {g.edge[e].subject, g.edge[e].object}
  BY DEF Ends

LEMMA EndsOfAll ==
    ASSUME NEW g, NEW facts, NEW b
    PROVE  b \in Ends(g, facts) <=> \E e \in facts : b = g.edge[e].subject \/ b = g.edge[e].object
  BY DEF Ends

\* A hop asks for nothing else than its frontier.
LEMMA RowsSplit ==
    ASSUME NEW g, NEW as_of, NEW F, NEW G
    PROVE  /\ Rows(g, F \cup G, as_of) = Rows(g, F, as_of) \cup Rows(g, G, as_of)
           /\ Rows(g, F, as_of) \subseteq DOMAIN g.edge
  BY DEF Rows

LEMMA ReachOfNone ==
    ASSUME NEW g, NEW as_of, NEW anchor \in DOMAIN g.node
    PROVE  WithinReach(g, {anchor}, as_of, 0) = {anchor}
<1>1. [i \in 0 .. 0 |-> anchor] \in [0 .. 0 -> DOMAIN g.node]
  OBVIOUS
<1>2. anchor \in WithinReach(g, {anchor}, as_of, 0)
  <2>1. \A i \in 1 .. 0 : FALSE
    OBVIOUS
  <2>2. PICK path : path = [i \in 0 .. 0 |-> anchor]
    OBVIOUS
  <2>3. path \in [0 .. 0 -> DOMAIN g.node] /\ path[0] = anchor
    BY <2>2
  <2>4. QED
    BY <2>1, <2>3 DEF WithinReach
<1>3. WithinReach(g, {anchor}, as_of, 0) \subseteq {anchor}
  BY DEF WithinReach
<1>4. QED
  BY <1>2, <1>3

LEMMA ReachOfOne ==
    ASSUME NEW g, IsGraph(g), NEW as_of, NEW anchor \in DOMAIN g.node
    PROVE  WithinReach(g, {anchor}, as_of, 1)
            = {anchor} \cup Ends(g, Rows(g, {anchor}, as_of))
<1> DEFINE N == DOMAIN g.node
           near == Rows(g, {anchor}, as_of)
           link(a, b) == \E e \in DOMAIN g.edge : /\ Valid(g.edge[e], as_of)
                                                   /\ Ends(g, {e}) = {a, b}
           step(path, i) == path[i] = path[i - 1] \/ link(path[i - 1], path[i])
<1>1. \A e \in DOMAIN g.edge : g.edge[e].subject \in N /\ g.edge[e].object \in N
  BY DEF IsGraph
<1>2. ASSUME NEW b \in WithinReach(g, {anchor}, as_of, 1)
      PROVE  b \in {anchor} \cup Ends(g, near)
  <2>1. PICK path \in [0 .. 1 -> N] :
          path[0] = anchor /\ path[1] = b /\ \A i \in 1 .. 1 : step(path, i)
    BY DEF WithinReach
  <2> HIDE DEF step
  <2>2. step(path, 1)
    BY <2>1
  <2>3. path[1] = path[0] \/ link(path[0], path[1])
    <3> HIDE DEF link
    <3>1. 1 - 1 = 0
      OBVIOUS
    <3>2. QED
      BY <2>2, <3>1 DEF step
  <2>4. CASE b = anchor
    BY <2>4
  <2>5. CASE \E e \in DOMAIN g.edge : Valid(g.edge[e], as_of) /\ Ends(g, {e}) = {anchor, b}
    <3>1. PICK e \in DOMAIN g.edge : Valid(g.edge[e], as_of) /\ Ends(g, {e}) = {anchor, b}
      BY <2>5
    <3>2. e \in near
      BY <3>1 DEF Rows
    <3>3. b = g.edge[e].subject \/ b = g.edge[e].object
      BY <3>1, EndsOfOne
    <3>4. QED
      BY <3>2, <3>3, EndsOfAll
  <2>6. QED
    BY <2>1, <2>3, <2>4, <2>5
<1>3. ASSUME NEW b \in N, step([i \in 0 .. 1 |-> IF i = 0 THEN anchor ELSE b], 1)
      PROVE  b \in WithinReach(g, {anchor}, as_of, 1)
  <2>1. PICK path : path = [i \in 0 .. 1 |-> IF i = 0 THEN anchor ELSE b]
    OBVIOUS
  <2>2. path \in [0 .. 1 -> N] /\ path[0] = anchor /\ path[1] = b
    BY <2>1
  <2>3. \A i \in 1 .. 1 : step(path, i)
    <3> HIDE DEF step
    <3>1. step(path, 1)
      BY <1>3, <2>1
    <3>2. \A i \in 1 .. 1 : i = 1
      OBVIOUS
    <3>3. QED
      BY <3>1, <3>2
  <2>4. QED
    BY <2>2, <2>3 DEF WithinReach
<1>4. anchor \in WithinReach(g, {anchor}, as_of, 1)
  <2>1. PICK path : path = [i \in 0 .. 1 |-> IF i = 0 THEN anchor ELSE anchor]
    OBVIOUS
  <2>2. path[0] = anchor /\ path[1] = anchor
    BY <2>1
  <2>3. step(path, 1)
    BY <2>2
  <2> HIDE DEF step
  <2>4. QED
    BY <1>3, <2>1, <2>3
<1>5. ASSUME NEW b \in Ends(g, near)
      PROVE  b \in WithinReach(g, {anchor}, as_of, 1)
  <2>1. PICK e \in near : b = g.edge[e].subject \/ b = g.edge[e].object
    BY EndsOfAll
  <2>2. /\ e \in DOMAIN g.edge /\ Valid(g.edge[e], as_of)
        /\ g.edge[e].subject = anchor \/ g.edge[e].object = anchor
    BY <2>1, EndsOfOne DEF Rows
  <2>3. CASE b = anchor
    BY <1>4, <2>3
  <2>4. CASE b # anchor
    <3>1. link(anchor, b) /\ b \in N
      <4>1. Ends(g, {e}) = {g.edge[e].subject, g.edge[e].object}
        BY EndsOfOne
      <4>2. {g.edge[e].subject, g.edge[e].object} = {anchor, b}
        BY <2>1, <2>2, <2>4
      <4>3. b \in N
        BY <1>1, <2>1, <2>2
      <4>4. QED
        BY <2>2, <4>1, <4>2, <4>3
    <3>2. PICK path : path = [i \in 0 .. 1 |-> IF i = 0 THEN anchor ELSE b]
      OBVIOUS
    <3>3. path[0] = anchor /\ path[1] = b
      BY <3>2
    <3>4. step(path, 1)
      <4> HIDE DEF link
      <4>1. 1 - 1 = 0
        OBVIOUS
      <4>2. QED
        BY <3>1, <3>3, <4>1
    <3> HIDE DEF step
    <3>5. QED
      BY <1>3, <3>1, <3>2, <3>4
  <2>5. QED
    BY <2>3, <2>4
<1>6. QED
  <2> HIDE DEF near
  <2>1. QED
    BY <1>2, <1>4, <1>5 DEF near

\* What a walk of two hops may see.
LEMMA NearbyOK ==
    ASSUME NEW g, IsGraph(g), NEW as_of, NEW anchor \in DOMAIN g.node,
           NEW near, near = Rows(g, {anchor}, as_of)
    PROVE  /\ Nearby(g, {anchor}, as_of, 0) = near
           /\ Nearby(g, {anchor}, as_of, 1)
                = near \cup Rows(g, Ends(g, near) \ {anchor}, as_of)
<1>1. Nearby(g, {anchor}, as_of, 0) = near
  BY ReachOfNone DEF Nearby, Rows
<1>2. Nearby(g, {anchor}, as_of, 1) = Rows(g, {anchor} \cup Ends(g, near), as_of)
  <2>1. WithinReach(g, {anchor}, as_of, 1) = {anchor} \cup Ends(g, near)
    BY ReachOfOne
  <2>2. \A F : WithinReach(g, {anchor}, as_of, 1) = F =>
                Nearby(g, {anchor}, as_of, 1) = Rows(g, F, as_of)
    BY DEF Nearby, Rows
  <2>3. QED
    BY <2>1, <2>2
<1>3. {anchor} \cup Ends(g, near) = {anchor} \cup (Ends(g, near) \ {anchor})
  OBVIOUS
<1>4. Rows(g, {anchor} \cup (Ends(g, near) \ {anchor}), as_of)
        = Rows(g, {anchor}, as_of) \cup Rows(g, Ends(g, near) \ {anchor}, as_of)
  BY RowsSplit
<1>5. QED
  BY <1>1, <1>2, <1>3, <1>4

\* One turn of the loop: it ends at the limit, or when there is nowhere to go on.
Turn(g, w, as_of, limit) ==
    IF w.frontier = {} \/ Cardinality(w.facts) >= limit THEN {w} ELSE Hop(g, w, as_of, limit)

LEMMA TwoTurns ==
    ASSUME NEW g, NEW anchors, NEW as_of, NEW limit,
           NEW facts \in Neighborhoods(g, anchors, 2, as_of, limit)
    PROVE  \E w \in Turn(g, At({}, anchors, anchors), as_of, limit) :
           \E v \in Turn(g, w, as_of, limit) : v.facts = facts
<1> DEFINE Start == {At({}, anchors, anchors)}
           Step(W) == UNION {Turn(g, w, as_of, limit) : w \in W}
           Ok(f) == f = [n \in 0 .. 2 |-> IF n = 0 THEN Start ELSE Step(f[n - 1])]
           h == [n \in 0 .. 2 |-> IF n = 0 THEN Start ELSE IF n = 1 THEN Step(Start)
                                  ELSE Step(Step(Start))]
           walks == CHOOSE f : Ok(f)
<1>1. facts \in {w.facts : w \in walks[2]}
  BY DEF Neighborhoods, Turn
<1>2. Ok(walks)
  <2>1. Ok(h)
    <3> HIDE DEF Start, Step
    <3>1. \A n \in 0 .. 2 : n = 0 \/ (n = 1 /\ n - 1 = 0) \/ (n = 2 /\ n - 1 = 1)
      OBVIOUS
    <3>2. h[0] = Start /\ h[1] = Step(Start)
      OBVIOUS
    <3>3. \A n \in 0 .. 2 : h[n] = IF n = 0 THEN Start ELSE Step(h[n - 1])
      BY <3>1, <3>2
    <3>4. QED
      BY <3>3
  <2> HIDE DEF Ok, h
  <2>2. QED
    BY <2>1
<1>3. walks[2] = Step(Step(Start))
  <2> HIDE DEF Start, Step, walks
  <2>1. walks[0] = Start /\ walks[1] = Step(walks[0]) /\ walks[2] = Step(walks[1])
    BY <1>2
  <2>2. QED
    BY <2>1
<1>4. \E w \in Start : \E u \in Turn(g, w, as_of, limit) :
      \E v \in Turn(g, u, as_of, limit) : v.facts = facts
  <2> HIDE DEF walks, Start
  <2>1. PICK v \in Step(Step(Start)) : v.facts = facts
    BY <1>1, <1>3
  <2>2. PICK u \in Step(Start) : v \in Turn(g, u, as_of, limit)
    BY <2>1
  <2>3. PICK w \in Start : u \in Turn(g, w, as_of, limit)
    BY <2>2
  <2>4. QED
    BY <2>1, <2>2, <2>3
<1>5. QED
  BY <1>4

\* A walk goes on with all its new rows, or with as many as there is room for.
Turned(g, w, v, new, took, limit) ==
    /\ took \subseteq new
    /\ v.facts = w.facts \cup took
    /\ v.frontier = Ends(g, took) \ w.seen
    /\ Cardinality(v.facts) <= limit
    /\ \/ took = new
       \/ /\ Cardinality(v.facts) = limit
          /\ Cardinality(w.facts \cup new) > limit

LEMMA TurnOK ==
    ASSUME NEW g, IsGraph(g), NEW as_of, NEW limit \in Nat,
           NEW w, w.facts \subseteq DOMAIN g.edge,
           NEW v \in Hop(g, w, as_of, limit),
           NEW new, new = Rows(g, w.frontier, as_of) \ w.facts
    PROVE  \E took : Turned(g, w, v, new, took, limit)
<1> DEFINE room == limit - Cardinality(w.facts)
<1>1. IsFiniteSet(w.facts) /\ IsFiniteSet(new)
  <2>1. IsFiniteSet(DOMAIN g.edge) /\ new \subseteq DOMAIN g.edge
    BY RowsSplit DEF IsGraph
  <2>2. QED
    BY <2>1, FS_Subset
<1>2. Cardinality(w.facts) \in Nat /\ Cardinality(new) \in Nat
  BY <1>1, FS_CardinalityType
<1>3. PICK took \in (IF Cardinality(new) <= room THEN {new} ELSE kSubset(room, new)) :
        v = At(w.facts \cup took, Ends(g, took) \ w.seen,
               w.seen \cup (Ends(g, took) \ w.seen))
  BY DEF Hop
<1>4. v.facts = w.facts \cup took /\ v.frontier = Ends(g, took) \ w.seen
  BY <1>3 DEF At
<1>5. ASSUME NEW s \in SUBSET new
      PROVE  /\ IsFiniteSet(s)
             /\ Cardinality(w.facts \cup s) = Cardinality(w.facts) + Cardinality(s)
  <2>1. IsFiniteSet(s) /\ w.facts \cap s = {}
    BY <1>1, FS_Subset
  <2>2. Cardinality(w.facts \cup s) = Cardinality(w.facts) + Cardinality(s) - 0
    BY <1>1, <2>1, FS_Union, FS_EmptySet
  <2>3. Cardinality(s) \in Nat
    BY <2>1, FS_CardinalityType
  <2>4. QED
    BY <1>2, <2>1, <2>2, <2>3
<1>6. PICK a, b, c : a = Cardinality(w.facts) /\ b = Cardinality(new) /\ c = Cardinality(took)
  OBVIOUS
<1>7. CASE b <= limit - a
  <2>1. took = new
    BY <1>3, <1>6, <1>7
  <2>2. Cardinality(v.facts) = a + b
    BY <1>4, <1>5, <1>6, <2>1
  <2>3. a + b <= limit
    BY <1>2, <1>6, <1>7
  <2>4. QED
    BY <1>4, <2>1, <2>2, <2>3 DEF Turned
<1>8. CASE ~(b <= limit - a)
  <2>1. took \in SUBSET new /\ c = limit - a
    BY <1>3, <1>6, <1>8 DEF kSubset
  <2>2. Cardinality(v.facts) = a + c
    BY <1>4, <1>5, <1>6, <2>1
  <2>3. Cardinality(w.facts \cup new) = a + b
    BY <1>5, <1>6
  <2>4. a + c = limit /\ a + b > limit
    BY <1>2, <1>6, <1>8, <2>1
  <2>5. QED
    BY <1>4, <2>1, <2>2, <2>3, <2>4 DEF Turned
<1>9. QED
  BY <1>7, <1>8

LEMMA More ==
    ASSUME NEW S, IsFiniteSet(S), NEW T \in SUBSET S
    PROVE  /\ Cardinality(T) \in Nat /\ Cardinality(S) \in Nat
           /\ T = S \/ Cardinality(T) < Cardinality(S)
<1>1. IsFiniteSet(T) /\ Cardinality(T) <= Cardinality(S)
  BY FS_Subset
<1>2. Cardinality(T) \in Nat /\ Cardinality(S) \in Nat
  BY <1>1, FS_CardinalityType
<1>3. Cardinality(S) = Cardinality(T) => S = T
  BY FS_Subset
<1>4. QED
  BY <1>1, <1>2, <1>3

\* All of reach, or as much of it as the limit is, and what is near first.
InReach(facts, near, reach, limit) ==
    /\ facts \subseteq reach
    /\ \/ facts = reach
       \/ Cardinality(reach) > limit /\ Cardinality(facts) = limit
    /\ \/ near \subseteq facts
       \/ facts \subseteq near

LEMMA TwoHops ==
    ASSUME NEW g, IsGraph(g), NEW as_of, NEW limit \in Nat, NEW anchor \in DOMAIN g.node,
           NEW facts \in Neighborhoods(g, {anchor}, 2, as_of, limit),
           NEW near, near = Rows(g, {anchor}, as_of),
           NEW far, far = Rows(g, Ends(g, near) \ {anchor}, as_of)
    PROVE  InReach(facts, near, near \cup far, limit)
<1> DEFINE reach == near \cup far
<1>1. PICK start : start = At({}, {anchor}, {anchor})
  OBVIOUS
<1>2. start.facts = {} /\ start.frontier = {anchor} /\ start.seen = {anchor}
  BY <1>1 DEF At
<1>3. PICK w \in Turn(g, start, as_of, limit) :
      \E v \in Turn(g, w, as_of, limit) : v.facts = facts
  BY <1>1, TwoTurns
<1>4. PICK v \in Turn(g, w, as_of, limit) : v.facts = facts
  BY <1>3
<1>5. IsFiniteSet(reach) /\ reach \subseteq DOMAIN g.edge
  <2>1. IsFiniteSet(DOMAIN g.edge) /\ reach \subseteq DOMAIN g.edge
    BY RowsSplit DEF IsGraph
  <2>2. QED
    BY <2>1, FS_Subset
<1>6. Cardinality({}) = 0
  BY FS_EmptySet
<1>7. ASSUME NEW s \in SUBSET reach, Cardinality(s) = limit
      PROVE  s = reach \/ Cardinality(reach) > limit
  BY <1>5, <1>7, More
<1>8. CASE w = start /\ Cardinality(start.facts) >= limit
  <2>1. limit = 0
    BY <1>2, <1>6, <1>8
  <2>2. v = start
    BY <1>2, <1>6, <1>8, <2>1 DEF Turn
  <2>3. facts = {} /\ Cardinality(facts) = limit
    BY <1>2, <1>4, <1>6, <2>1, <2>2
  <2>4. QED
    BY <1>7, <2>3 DEF InReach
<1>9. CASE w \in Hop(g, start, as_of, limit)
  <2>1. near = Rows(g, start.frontier, as_of) \ start.facts /\ start.facts \subseteq DOMAIN g.edge
    BY <1>2
  <2>2. PICK took : Turned(g, start, w, near, took, limit)
    BY <1>9, <2>1, TurnOK
  <2>3. /\ took \subseteq near /\ took \subseteq DOMAIN g.edge
        /\ w.facts = took /\ w.frontier = Ends(g, took) \ {anchor}
        /\ Cardinality(w.facts) <= limit
        /\ took = near \/ Cardinality(w.facts) = limit
    BY <1>2, <1>5, <2>2 DEF Turned
  <2>4. CASE took # near
    <3>1. Cardinality(w.facts) = limit
      BY <2>3, <2>4
    <3>2. v = w
      BY <3>1 DEF Turn
    <3>3. facts = took
      BY <1>4, <2>3, <3>2
    <3>4. QED
      BY <1>7, <2>3, <3>1, <3>3 DEF InReach
  <2>5. CASE took = near
    <3>1. w.facts = near /\ Rows(g, w.frontier, as_of) = far
      BY <2>3, <2>5
    <3>2. CASE v = w /\ (w.frontier = {} \/ Cardinality(w.facts) >= limit)
      <4>1. CASE w.frontier = {}
        <5>1. far = {}
          BY <3>1, <4>1 DEF Rows
        <5>2. QED
          BY <1>4, <3>1, <3>2, <5>1 DEF InReach
      <4>2. CASE Cardinality(w.facts) >= limit
        <5>1. facts = near /\ Cardinality(near) >= limit
          BY <1>4, <3>1, <3>2, <4>2
        <5>2. Cardinality(near) = limit
          <6>1. near \in SUBSET reach /\ Cardinality(near) <= limit
            BY <2>3, <3>1
          <6>2. Cardinality(near) \in Nat
            BY <1>5, <6>1, More
          <6>3. QED
            BY <5>1, <6>1, <6>2
        <5>3. QED
          BY <1>7, <5>1, <5>2 DEF InReach
      <4>3. QED
        BY <3>2, <4>1, <4>2
    <3>3. CASE v \in Hop(g, w, as_of, limit)
      <4>1. PICK new : new = Rows(g, w.frontier, as_of) \ w.facts
        OBVIOUS
      <4>2. PICK more : Turned(g, w, v, new, more, limit)
        BY <2>3, <3>3, <4>1, TurnOK
      <4>3. w.facts \cup new = reach
        BY <3>1, <4>1
      <4>4. QED
        BY <1>4, <3>1, <4>1, <4>2, <4>3 DEF InReach, Turned
    <3>4. QED
      BY <3>2, <3>3 DEF Turn
  <2>6. QED
    BY <2>4, <2>5
<1>10. QED
  BY <1>2, <1>8, <1>9 DEF Turn

LEMMA WalkOfTwoHops ==
    ASSUME NEW g, IsGraph(g), NEW as_of, NEW limit \in Nat, NEW anchor \in DOMAIN g.node,
           NEW facts \in Neighborhoods(g, {anchor}, 2, as_of, limit)
    PROVE  InReach(facts, Nearby(g, {anchor}, as_of, 0), Nearby(g, {anchor}, as_of, 1), limit)
<1>1. PICK near : near = Rows(g, {anchor}, as_of)
  OBVIOUS
<1>2. PICK far : far = Rows(g, Ends(g, near) \ {anchor}, as_of)
  OBVIOUS
<1>3. /\ Nearby(g, {anchor}, as_of, 0) = near
      /\ Nearby(g, {anchor}, as_of, 1) = near \cup far
  BY <1>1, <1>2, NearbyOK
<1>4. InReach(facts, near, near \cup far, limit)
  BY <1>1, <1>2, TwoHops
<1>5. QED
  BY <1>3, <1>4

\* A question of two hops sees what is within reach, up to its limit and the nearer
\* facts first, in every graph that commits can leave and for any order of rows.
THEOREM WalksExact == Spec => []WalkExact
<1>1. IInv => WalkExact
  <2> SUFFICES ASSUME IInv PROVE WalkExact
    OBVIOUS
  <2>1. IsGraph(canonical)
    BY DEF IInv, World, GraphOK
  <2>2. \A anchor \in DOMAIN canonical.node, as_of \in AsOf, limit \in Limits :
        \A facts \in Neighborhoods(canonical, {anchor}, 2, as_of, limit) :
            InReach(facts, Nearby(canonical, {anchor}, as_of, 0),
                    Nearby(canonical, {anchor}, as_of, 1), limit)
    BY <2>1, PromotionAssumption, WalkOfTwoHops
  <2>3. QED
    BY <2>2, Zenon DEF WalkExact, InReach
<1>2. QED
  BY <1>1, Invariant, PTL
=============================================================================
