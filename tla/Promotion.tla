----------------------------- MODULE Promotion -----------------------------
(***************************************************************************)
(* Promotion of documents to canonical knowledge: each document is         *)
(* extracted and resolved against canonical into a patch (ResolvePatch),   *)
(* the patch is routed and staged, parks for its reviewer if it has to     *)
(* (src/kgi/pipeline/graph.py), and is committed op by op with the rebase  *)
(* check (src/kgi/commit/engine.py).  Any number of patches may be parked  *)
(* meanwhile, diffed against a canonical that the others then change.      *)
(*                                                                         *)
(* The question here is what ends up in canonical.  So the handlers of one *)
(* document run undisturbed between two parkings: one process works at a   *)
(* time and none is killed.  CommitEngine, GateLoop and IngestPipeline     *)
(* have the processes, their interleavings and their deaths.               *)
(*                                                                         *)
(* A definition marked "Fault:" is no part of the model: it is the         *)
(* definition after it with a bug seeded.                                  *)
(***************************************************************************)
EXTENDS ResolvePatch, Retrieval

CONSTANTS
    Docs,       \* documents, by content hash
    Graph0,     \* canonical before any of them
    MaxPatches, \* bound: patches ever staged
    MaxDocs,    \* bound: documents ever ingested
    MaxHeld,    \* bound: ops that one review does not accept
    AsOf,       \* the moments a question may be asked about, None for now
    Limits      \* fact limits of a question

Fact(g, e) == <<g.edge[e].subject, g.edge[e].predicate, g.edge[e].object>>

\* Canonical starts empty, or as earlier commits leave it: no entity is there twice
\* under one name and no fact is current twice.
ASSUME PromotionAssumption ==
    /\ Docs \subseteq DOMAIN Content
    /\ MaxPatches \in Nat
    /\ AsOf \subseteq Dates
    /\ Limits \subseteq Nat
    /\ IsGraph(Graph0)
    /\ DOMAIN Graph0.node \cup DOMAIN Graph0.edge \subseteq {0} \X Nat
    /\ \A m, n \in DOMAIN Graph0.node :
            Fold[Graph0.node[m].name] = Fold[Graph0.node[n].name] => m = n
    /\ \A e, f \in CurrentEdges(Graph0) : Fact(Graph0, e) = Fact(Graph0, f) => e = f

VARIABLES
    canonical,  \* the canonical graph
    patches,    \* the patches in the order they were staged
    marked      \* documents with a (:Document) node

vars == <<canonical, patches, marked>>

\* What is extracted of a document depends on the document alone.
Candidates == [d \in Docs |-> Extract(d)]

Awaiting(x) == {i \in DOMAIN x.ops : x.status[i] = "pending"}

Init ==
    /\ canonical = Graph0
    /\ patches = <<>>
    /\ marked = {}

-----------------------------------------------------------------------------
(* commit_patch. *)

\* _topo_order.  Dependencies are one level deep: a CreateNode or a MergeInto
\* waits for nothing.
Order(ops) ==
    LET places == [i \in DOMAIN ops |-> i]
    IN  Picked(places, {i \in DOMAIN ops : ops[i].depends_on = {}})
        \o Picked(places, {i \in DOMAIN ops : ops[i].depends_on # {}})

Holds(g, pre) ==
    CASE pre.kind = "node_exists" -> pre.subject \in DOMAIN g.node
      [] pre.kind = "edge_exists" -> pre.subject \in CurrentEdges(g)
      [] pre.kind = "edge_absent" ->
            EdgesBetween(g, pre.subject, pre.object, pre.predicate) = {}
      [] pre.kind = "name_absent" -> FindByName(g, pre.subject) = {}
      [] pre.kind = "prop_equals" -> /\ pre.subject \in DOMAIN g.node
                                     /\ g.node[pre.subject].description = pre.value

\* _resolve: the id minted for the op that introduces the temp_id.
Resolved(p, ops, ref) ==
    IF ref.canonical_id # None THEN ref.canonical_id
    ELSE <<p, SelectInSeq(ops, LAMBDA o : o.kind = "CreateNode" /\ o.temp_id = ref.temp_id)>>

Given(new, old) == IF new = None THEN old ELSE new

\* A node or an edge is new: its id is minted for it.
Put(f, x, v) == [y \in DOMAIN f \cup {x} |-> IF y = x THEN v ELSE f[y]]

\* _OpApplier.apply.  The Alias node of a MergeInto is read by no query.
ApplyOp(g, p, ops, i) ==
    LET op == ops[i]
    IN  CASE op.kind = "CreateNode" ->
                [g EXCEPT !.node = Put(@, <<p, i>>,
                    [name |-> op.name, entity_type |-> op.entity_type,
                     description |-> op.description, attr |-> op.attr])]
          [] op.kind = "UpdateNodeProps" ->
                [g EXCEPT !.node[op.target].description = Given(op.description, @),
                          !.node[op.target].attr = Given(op.attr, @)]
          [] op.kind = "MergeInto" -> g
          [] op.kind = "AssertEdge" ->
                [g EXCEPT !.edge = Put(@, <<p, i>>,
                    [subject |-> Resolved(p, ops, op.subject), predicate |-> op.predicate,
                     object |-> Resolved(p, ops, op.object),
                     valid_from |-> op.valid_from, valid_to |-> None, support |-> 1])]
          [] op.kind = "InvalidateEdge" -> [g EXCEPT !.edge[op.target].valid_to = op.valid_to]
          [] op.kind = "ReinforceEdge" -> [g EXCEPT !.edge[op.target].support = @ + 1]

\* One op of the walk.  Its status "committed" stands for its ledger entry.
Walk(acc, p, ops, i) ==
    LET refuse(status) == [acc EXCEPT !.status[i] = status, !.failed = @ \cup {i}]
    IN  CASE acc.status[i] \notin {"approved", "committed"} -> refuse(acc.status[i])
          [] /\ acc.status[i] \in {"approved", "committed"}
             /\ ops[i].depends_on \cap acc.failed # {} -> refuse("blocked")
          [] /\ acc.status[i] = "approved"
             /\ ops[i].depends_on \cap acc.failed = {} ->
                IF \A pre \in ops[i].preconditions : Holds(acc.graph, pre)
                THEN [acc EXCEPT !.status[i] = "committed", !.graph = ApplyOp(@, p, ops, i)]
                ELSE refuse("requeued")
          [] OTHER -> acc

\* The walk after its first k ops.
Walked(g, p, ops, status, order) ==
    LET walk[k \in 0 .. Len(order)] ==
            IF k = 0 THEN [graph |-> g, status |-> status, failed |-> {}]
            ELSE Walk(walk[k - 1], p, ops, order[k])
    IN  walk

CommitPatch(g, p, ops, status) ==
    LET order == Order(ops)
    IN  Walked(g, p, ops, status, order)[Len(order)]

\* commit_node: the row's status is "requeued" only if this pass requeued an op.
CommitNode(p, x) ==
    LET done == CommitPatch(canonical, p, x.ops, x.status)
        requeued == \E i \in DOMAIN x.ops : x.status[i] # "requeued" /\ done.status[i] = "requeued"
        row == IF \E i \in DOMAIN x.ops : done.status[i] = "pending" THEN "pending"
               ELSE IF requeued THEN "requeued" ELSE "committed"
    IN  /\ canonical' = done.graph
        /\ patches' = LET y == [x EXCEPT !.status = done.status, !.row = row]
                      IN  IF p \in DOMAIN patches THEN [patches EXCEPT ![p] = y]
                          ELSE Append(patches, y)
        /\ marked' = IF row = "committed" THEN marked \cup {x.doc} ELSE marked

-----------------------------------------------------------------------------
\* parse_node to stage_node, and the commit when nothing needs a reviewer.
Ingest(d) ==
    /\ Len(patches) < MaxPatches
    /\ Cardinality({d} \cup {patches[p].doc : p \in DOMAIN patches}) <= MaxDocs
    /\ d \notin marked
    /\ \A p \in DOMAIN patches : patches[p].doc = d => patches[p].row # "pending"
    /\ LET candidates == Candidates[d]
           p == Len(patches) + 1
       IN  \E answers \in Answers(canonical, candidates.entities) :
           \E ops \in {ResolveNode(canonical, candidates, answers, verdict) :
                        verdict \in Adjudications(canonical, candidates, answers)} :
            LET x == [doc |-> d, ops |-> ops, status |-> [i \in DOMAIN ops |-> RoutedStatus(ops[i])],
                      row |-> "pending", accepted |-> {}, base |-> canonical, answers |-> answers]
            IN  IF Awaiting(x) = {} THEN CommitNode(p, x)
                ELSE patches' = Append(patches, x) /\ UNCHANGED <<canonical, marked>>

\* review_node and the commit after it: what is neither accepted nor rejected is
\* deferred.
Review(p) ==
    /\ patches[p].row = "pending"
    /\ \E held \in SUBSET Awaiting(patches[p]) :
        /\ Cardinality(held) <= MaxHeld
        /\ \E rejected \in SUBSET held :
            LET accepted == Awaiting(patches[p]) \ held
                decided(i) == IF i \in accepted THEN "approved"
                              ELSE IF i \in rejected THEN "rejected" ELSE patches[p].status[i]
            IN  CommitNode(p, [patches[p] EXCEPT
                    !.accepted = @ \cup accepted,
                    !.status = [i \in DOMAIN @ |-> decided(i)]])

Next ==
    \/ \E d \in Docs : Ingest(d)
    \/ \E p \in DOMAIN patches : Review(p)

Spec == Init /\ [][Next]_vars

-----------------------------------------------------------------------------
(* What the properties are about. *)

Committed(p, i) == patches[p].status[i] = "committed"

\* The merged relations of a patch's document, and the ends its edges have.
Relations(p) ==
    LET candidates == Candidates[patches[p].doc]
    IN  ToSet(MergedRelations(patches[p].base, candidates.entities, candidates.relations))

End(p, t) == Refers(patches[p].base, Survivors(Candidates[patches[p].doc].entities),
                    patches[p].answers, t)

\* The patch just staged.  What a patch says of its document never changes, so that
\* it is enough to look at it then.
Newest ==
    {p \in DOMAIN patches :
        /\ p = Len(patches)
        /\ patches[p].accepted = {}
        /\ patches[p].row = "pending" => patches[p].base = canonical}

\* The patch committed at once against the graph it was diffed with, every op
\* approved.
Replay(p) ==
    CommitPatch(patches[p].base, p, patches[p].ops, [i \in DOMAIN patches[p].ops |-> "approved"])

TypeOK ==
    /\ IsGraph(canonical)
    /\ DOMAIN canonical.node \cup DOMAIN canonical.edge \subseteq (0 .. MaxPatches) \X Nat
    /\ marked \subseteq Docs

-----------------------------------------------------------------------------
(* What is in canonical, and how it got there. *)

\* No entity is there twice under one name: the name check at commit makes up for
\* patches that were diffed before another one landed.
EntitiesDistinct ==
    \A m, n \in DOMAIN canonical.node :
        Fold[canonical.node[m].name] = Fold[canonical.node[n].name] => m = n

\* A fact is current twice only when one of its edges was asserted on an entity
\* its own patch introduced (such an assertion has no edge_absent to check).
NoTwinFacts ==
    \A e, f \in CurrentEdges(canonical) :
        LET guarded(x) == x[1] # 0 => LET op == patches[x[1]].ops[x[2]]
                                      IN  BothCanonical(op.subject, op.object)
        IN  Fact(canonical, e) = Fact(canonical, f) /\ guarded(e) /\ guarded(f) => e = f

\* A new entity or a new fact is in canonical only after a reviewer accepted it:
\* no confidence of the model is high enough to do without.
NewKnowledgeSeen ==
    \A p \in DOMAIN patches : \A i \in DOMAIN patches[p].ops :
        /\ patches[p].ops[i].kind \in {"CreateNode", "AssertEdge"}
        /\ Committed(p, i)
        => i \in patches[p].accepted

\* An op on an entity of a type that is new, or one half of a contested fact, took
\* effect only after a reviewer accepted it, however sure the model is of it: also
\* a merge, an update and the closing of an edge.
ForcedSeen ==
    \A p \in DOMAIN patches : \A i \in DOMAIN patches[p].ops :
        LET op == patches[p].ops[i]
        IN  (op.new_type \/ op.semantic) /\ Committed(p, i) => i \in patches[p].accepted

\* The mention was merged into an entity, and the merge did not take effect.
Vetoed(p, t) ==
    \E i \in DOMAIN patches[p].ops :
        /\ patches[p].ops[i].kind = "MergeInto"
        /\ patches[p].ops[i].temp_id = t
        /\ ~Committed(p, i)

Statements(record) == IF record.description = None THEN {} ELSE ToSet(record.description)

\* Rejecting a merge keeps the mention's text out of the entity: each statement of
\* a description was there before, or is from a mention of that entity whose
\* merge was not refused.  (An update folded from two mentions waits for both.)
RejectedMentionSilent ==
    \A n \in DOMAIN canonical.node : \A s \in Statements(canonical.node[n]) :
        \/ n \in DOMAIN Graph0.node /\ s \in Statements(Graph0.node[n])
        \/ \E p \in DOMAIN patches :
            \E e \in ToSet(Survivors(Candidates[patches[p].doc].entities)) :
                /\ s \in Statements(e)
                /\ Resolved(p, patches[p].ops, End(p, e.temp_id)) = n
                /\ ~Vetoed(p, e.temp_id)

\* What a node said, it still says.
Kept(old, new) ==
    /\ Statements(old) \subseteq Statements(new)
    /\ old.attr # None => new.attr = old.attr

\* A description that is cut at DescCap when it is joined loses its end, which is the
\* old text's when that is over the cap itself.
Short(record) == record.description = None \/ Len(record.description) <= DescCap

\* A patch that is committed before its target changes joins descriptions and
\* fills gaps: it takes nothing away, when no description was over the cap.
ValuesKeptIfUnchanged ==
    [][\A p \in DOMAIN patches' :
        /\ p \notin DOMAIN patches \/ patches'[p] # patches[p]
        /\ \A e \in ToSet(Survivors(Candidates[patches'[p].doc].entities)) : Short(e)
        => \A n \in DOMAIN patches'[p].base.node :
                canonical.node[n] = patches'[p].base.node[n] /\ Short(canonical.node[n]) =>
                    Kept(canonical.node[n], canonical'.node[n])]_vars

\* The same, whatever changed between the diff and the commit.
ValuesKept ==
    [][\A n \in DOMAIN canonical.node : Kept(canonical.node[n], canonical'.node[n])]_vars

\* An edge on a merged mention is in canonical only if the merge was not rejected.
RejectedMergeHolds ==
    \A p \in DOMAIN patches : \A i \in DOMAIN patches[p].ops :
        /\ patches[p].ops[i].kind = "MergeInto"
        /\ patches[p].status[i] = "rejected"
        => \A r \in Relations(p) :
            patches[p].ops[i].temp_id \in {r.subject, r.object} =>
                \A j \in DOMAIN patches[p].ops :
                    LET op == patches[p].ops[j]
                    IN  /\ op.kind = "AssertEdge"
                        /\ <<op.subject, op.predicate, op.object>>
                            = <<End(p, r.subject), r.predicate, End(p, r.object)>>
                        => ~Committed(p, j)

-----------------------------------------------------------------------------
(* What a patch says of its document. *)

\* What the proofs about the commit engine assume of a patch (DiffAssumption and
\* GuardAssumption of GateLoop), and what the intake step of IngestPipeline assumes:
\* merges, edges and reinforcements name what the graph has that the patch was
\* diffed with, or temp ids that one op alone introduces, which the edge waits for;
\* a creation asks that its name be absent, a closing that its edge be current;
\* dependencies are one level deep (so that Order is topological); every
\* precondition held then.
DiffedWith(g, ops, i) ==
    LET op == ops[i]
        introduces(j) == ops[j].kind \in {"CreateNode", "MergeInto"}
        asks(kind, subject) ==
            \E pre \in op.preconditions : pre.kind = kind /\ pre.subject = subject
        fromDiff(ref) ==
            \/ ref.temp_id = None /\ ref.canonical_id \in DOMAIN g.node
            \/ /\ ref.canonical_id = None
               /\ \E j \in op.depends_on : introduces(j) /\ ops[j].temp_id = ref.temp_id
    IN  /\ op.kind = "MergeInto" => op.target \in DOMAIN g.node
        /\ op.kind = "AssertEdge" => fromDiff(op.subject) /\ fromDiff(op.object)
        /\ op.kind = "ReinforceEdge" => op.target \in DOMAIN g.edge
        /\ op.kind = "CreateNode" => asks("name_absent", op.name)
        /\ op.kind = "InvalidateEdge" => asks("edge_exists", op.target)
        /\ introduces(i) =>
            \A j \in DOMAIN ops : introduces(j) /\ ops[j].temp_id = op.temp_id => j = i
        /\ \A j \in op.depends_on : ops[j].depends_on = {}
        /\ \A pre \in op.preconditions : Holds(g, pre)

DiffSound ==
    \A p \in Newest : \A i \in DOMAIN patches[p].ops :
        DiffedWith(patches[p].base, patches[p].ops, i)

\* Sibling j leaves op i nothing to do: the same fact asserted through another
\* mention, or the edge closed for another relation.
Preempts(p, j, i) ==
    LET a == patches[p].ops[i]
        b == patches[p].ops[j]
    IN  \/ /\ a.kind = "AssertEdge" /\ b.kind = "AssertEdge" /\ j < i
           /\ <<a.subject, a.predicate, a.object>> = <<b.subject, b.predicate, b.object>>
        \/ /\ a.kind \in {"InvalidateEdge", "ReinforceEdge"} /\ b.kind = "InvalidateEdge"
           /\ j < i /\ a.target = b.target

\* A patch does not stand in its own way: accepted as a whole with canonical
\* unchanged, every op of it commits, but for a fact said twice.
SelfConsistent ==
    \A p \in Newest :
        LET done == Replay(p)
        IN  \A i \in DOMAIN patches[p].ops :
                \/ done.status[i] = "committed"
                \/ \E j \in DOMAIN patches[p].ops : Preempts(p, j, i)

\* No relation of the document is lost between extraction and patch: accepted as a
\* whole, there is an edge for each, between the entities its ends are resolved to,
\* with its predicate (up to the spelling that _dedupe_batch does not tell apart).
FactsLand ==
    \A p \in Newest :
        LET candidates == Candidates[patches[p].doc]
            g == Replay(p).graph
            id == [t \in {e.temp_id : e \in ToSet(candidates.entities)} |->
                    Resolved(p, patches[p].ops, End(p, Alias(candidates.entities, t)))]
        IN  \A r \in ToSet(candidates.relations) :
                \E e \in DOMAIN g.edge :
                    /\ g.edge[e].subject = id[r.subject]
                    /\ PredicateKey[g.edge[e].predicate]
                        = PredicateKey[NormalizePredicate(patches[p].base, r.predicate)]
                    /\ g.edge[e].object = id[r.object]

\* The document says a known fact again and supersedes it as well.
Disputed(ops) ==
    \E i, j \in DOMAIN ops :
        /\ ops[i].kind = "ReinforceEdge" /\ ops[j].kind = "InvalidateEdge"
        /\ ops[i].target = ops[j].target

\* An op that leaves the graph as it is, but for the support of a fact.
Idle(g, p, ops, i) ==
    \/ ops[i].kind \in {"ReinforceEdge", "MergeInto"}
    \/ /\ ops[i].kind = "UpdateNodeProps"
       /\ LET h == ApplyOp(g, p, ops, i) IN h.node = g.node /\ h.edge = g.edge

\* Nothing is new twice.  After a patch was committed as a whole, the same text may
\* be resolved again with whatever similarities and judgments: the only mentions
\* that can introduce an entity are those the first patch merged into one of another
\* name, for the merge left nothing they are found by.  And where its mentions are
\* the entities and its predicates the predicates they were before, it at most
\* reinforces facts and merges mentions, if it did not dispute a fact and no text is
\* over the cap.
Settled ==
    \A p \in Newest :
        LET x == patches[p]
            candidates == Candidates[x.doc]
            mentions == ToSet(Survivors(candidates.entities))
            done == Replay(p)
            merged == {x.ops[i].temp_id : i \in {j \in DOMAIN x.ops : x.ops[j].kind = "MergeInto"}}
            short == /\ \A e \in mentions : Short(e)
                     /\ \A n \in DOMAIN x.base.node : Short(x.base.node[n])
            sameEntities(answers) ==
                \A e \in mentions : ResolveEntity(done.graph, e, answers).id
                                        = Resolved(p, x.ops, End(p, e.temp_id))
            samePredicates ==
                \A r \in ToSet(candidates.relations) :
                    NormalizePredicate(done.graph, r.predicate)
                        = NormalizePredicate(x.base, r.predicate)
        IN  (\A i \in DOMAIN done.status : done.status[i] = "committed") =>
                \A answers \in Answers(done.graph, candidates.entities) :
                    \A verdict \in Adjudications(done.graph, candidates, answers) :
                        LET ops == ResolveNode(done.graph, candidates, answers, verdict)
                        IN  /\ \A i \in DOMAIN ops :
                                ops[i].kind = "CreateNode" => ops[i].temp_id \in merged
                            /\ short /\ ~Disputed(x.ops) /\ samePredicates /\ sameEntities(answers)
                               => \A i \in DOMAIN ops : Idle(done.graph, p, ops, i)

-----------------------------------------------------------------------------
(* What a question sees. *)

\* The assertion an invalidation of its patch makes room for.
SupersededBy(p, i) ==
    CHOOSE j \in 1 .. i - 1 :
        /\ patches[p].ops[j].kind = "AssertEdge"
        /\ \A k \in j + 1 .. i : patches[p].ops[k].kind = "InvalidateEdge"

\* When a dated fact supersedes another, a question about any moment since the
\* old fact began is answered with the old or with the new one, never with both
\* or with neither.
HandoverExact ==
    \A p \in DOMAIN patches : \A i \in DOMAIN patches[p].ops :
        patches[p].ops[i].kind = "InvalidateEdge" /\ Committed(p, i) =>
            LET j == SupersededBy(p, i)
                old == canonical.edge[patches[p].ops[i].target]
                new == canonical.edge[<<p, j>>]
            IN  Committed(p, j) /\ new.valid_from # None =>
                    \A t \in AsOf \ {None} :
                        old.valid_from = None \/ old.valid_from <= t =>
                            (Valid(old, t) <=> t < new.valid_from)

\* A walk of two hops finds the facts within reach, all of them unless the limit
\* is met, exactly as many as the limit otherwise; and a fact farther away never
\* takes the place of a nearer one.
WalkExact ==
    \A anchor \in DOMAIN canonical.node, as_of \in AsOf, limit \in Limits :
        LET near == Nearby(canonical, {anchor}, as_of, 0)
            reach == Nearby(canonical, {anchor}, as_of, 1)
        IN  \A facts \in Neighborhoods(canonical, {anchor}, 2, as_of, limit) :
                /\ facts \subseteq reach
                /\ \/ facts = reach
                   \/ Cardinality(reach) > limit /\ Cardinality(facts) = limit
                /\ \/ near \subseteq facts
                   \/ facts \subseteq near
=============================================================================
