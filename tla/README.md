# kgi in TLA+

`kgi` turns documents into a knowledge graph. Everything an LLM infers goes into a
*patch*, a list of typed operations; nothing reaches the canonical graph except ops a
reviewer (or the routing policy) approved, applied by one commit engine. These modules
model that path from the command line to the graph, check it with TLC on small
instances and prove its central invariants with TLAPS for every number of processes,
patches and ops, for every document and for every answer a model gives. Two views meet in it: how the writes of several processes interleave and
what survives a death (`CommitEngine`, `GateLoop`, `IngestPipeline`), and what a document turns
into on its way to the graph (`Extraction`, `ResolvePatch`, `Routing`, `Promotion`, `Retrieval`). Paths below are those of the repository, relative to its root
(`PROJECT.json` names them with a leading `src/`).

## 1. The system

### Components

| Component | State it keeps | Operations | What makes it correct |
|---|---|---|---|
| Commit engine, `src/kgi/commit/engine.py` | per call: copy of the ops with their statuses, `CommitReport`, `id_map`; in Neo4j: canonical nodes, edges, aliases, the `AppliedOp` ledger | `commit_patch`; `_OpApplier.apply` for each op kind | an op takes effect once and never without its dependencies; the ledger and the graph agree; nothing is written on a stale precondition; history only changes by closing windows; references always resolve |
| Patch model, `src/kgi/models/patch.py` | op kinds, statuses, preconditions | none | the statuses mean what `docs/lifecycle.md` says of them |
| Pipeline graph, `src/kgi/pipeline/graph.py` | a LangGraph thread per run, with a checkpoint after each node | `parse`, `decompose`, `extract`, `resolve`, `score_route`, `stage`, `review`, `commit`, and the loop `commit` to `review` | a parked patch survives any wait and any crash; a document is staged once at a time and ingested once |
| Staging store, `src/kgi/stores/neo4j.py` | `(:Patch)` rows: status, thread id, the patch as json; `(:ReviewDecision)`, `(:Document)` | `save_patch`, `pending_patch_for_doc`, `save_decision`, `mark_document_committed` | the row says what the thread's checkpoint says |
| Canonical store, `src/kgi/stores/neo4j.py` | `:Canonical` nodes, `:REL` edges, `:Alias` nodes | reads for the engine, the resolver and the viewer | only the commit engine writes it |
| Resolution, `src/kgi/resolution/cascade.py` and `resolve_node` | none (reads canonical and the vectors) | `resolve_entities`, `resolve_node`, `_extend_props`, `_dedupe_batch` | a patch is well formed: edges on staged entities depend on the op that introduces them, every op carries the preconditions it needs |
| Correlation, `src/kgi/conflict/engine.py` | none | `correlate_relation`: new, confirms, extends, contradicts | a superseding fact and the closing of the old one belong together |
| Confidence and routing, `src/kgi/confidence/scorer.py`, `src/kgi/routing/policy.py` | thresholds | `score_op`, `score_route_node` | only what is certain enough skips the reviewer |
| Intake, `src/kgi/ingestion`, `src/kgi/decomposition` | none | parsers, atomizer | text to units, nothing lost |
| Extraction, `src/kgi/extraction` | none | LLM call, ground truth | relations refer to extracted entities |
| Schema manager, `src/kgi/schema` | type lists | read only | none |
| Vector index, `src/kgi/stores/qdrant.py`, `scripts/reindex_vectors.py` | entity, fact and predicate vectors | upserts of `commit_node`, similarity search, rebuild | holds what canonical holds |
| Retrieval, `src/kgi/retrieval` | none | anchors, hop expansion, rank fusion, answer | facts of the right time, within the limit |
| Viewer board, `src/kgi/viewer/app.py` | none | `POST /api/review` resumes a thread; the rest renders | takes the same path as `kgi review` |
| Command line, `src/kgi/cli.py` | none | `ingest`, `review`, `pending`, `search`, `ask`, `eval`, `serve` | see the pipeline |
| Evaluation, LLM client, observability, `scripts/reset_dev.py` | none | offline tools and I/O wrappers | none |

### How they interact

`kgi ingest` invokes the graph on a thread. `parse` reads two stores: is there a
`(:Document)` of this hash, and is there a pending `(:Patch)` of it. The middle nodes
produce a patch; `stage` writes its row; if an op awaits review the thread stops at
`interrupt()` and the process ends. Later, from a terminal or the board, somebody
reads the row, decides some of the ops and resumes the thread: `review` applies the
decisions to the checkpointed patch, `commit` calls `commit_patch`, saves the row, marks
the document, writes the vectors, and the thread goes back to the gate while an op is
deferred. The commit engine shares the Neo4j database with every other run.

### What is hard

* **Interleaving.** Nothing in the code prevents two processes from resuming one
  thread, or from committing two patches at once. Neo4j isolates at read-committed: a
  precondition that was read can be false when the write commits.
* **Crashes.** A process can die between any two store writes. What survives is the
  thread's last checkpoint and Neo4j; `commit_patch` is then re-run from its start.
* **Retries.** The driver's `execute_write` re-runs the transaction function after a
  transient error, with `id_map` already changed by the first attempt.
* **Waiting.** Days pass between `stage` and `commit`; the graph moves meanwhile.
* **Partial decisions.** Some ops accepted, some rejected, some deferred, over several
  rounds, with dependencies between them.

`PROJECT.json` lists each of these hazards at the line where it bites, with the
properties that would catch it going wrong.

## 2. The modules

Processes, crashes and statuses (`<--` is EXTENDS):

```
OpLifecycle  <--  OpLifecycleProofs
     ^ refined by GateLoop (ImplementsLifecycle)
CommitEngine  <--  GateLoop  <--  IngestPipeline     (ImplementsGateLoop: GateLoop's Spec)
                    ^   ^            ^        ^
        GateLoopProofs  MCGateLoop   |  MCIngestPipeline
          ^    ^    ^------ IngestPipelineProofs
          |  LifecycleProofs         ^
          |         ^                |
          |         +------ PatchClosureProofs
        CanonicalGraphProofs
```

Content:

```
CanonicalReads  <--  Extraction  <--+
                     Routing     <--+--  ResolvePatch  <--+
      ^                                                   |
      +---------- Retrieval  <----------------------------+--  Promotion  <--  MCPromotion
                     ResolvePatch  <--  PatchProofs  <--------+    ^
                                                              PromotionProofs
```

**`CommitEngine`** is `commit/engine.py`: its state and its steps, no specification of its own.
`node`, `edge`, `aliases`, `ledger` are the database; `pc`, `patch`, `working`,
`report`, `id_map`, `current` are the local variables of one `commit_patch` call per
process. One op is taken through

| Code | Action |
|---|---|
| the op is not approved: `failed_deps.add`, `report.skipped` | `Skip` |
| a dependency failed: status `blocked` | `Block` |
| `_already_applied`: id registered, status `committed` | `LedgerHit` |
| not in the ledger | `LedgerMiss` |
| a precondition fails: status `requeued` | `Requeue` |
| all preconditions hold | `RebaseHolds` |
| `_OpApplier.apply` of each kind, with `_write_ledger`, in one commit | `ApplyCreateNode`, `ApplyUpdateNodeProps`, `ApplyMergeInto`, `ApplyAssertEdge`, `ApplyInvalidateEdge`, `ApplyReinforceEdge` |
| the uniqueness constraint on `AppliedOp.op_id` aborts the transaction | `LedgerCollision` |
| the driver runs the transaction function again | `Retry` |

`_topo_order` is modelled as any order that respects `depends_on` (`Reached`), a set of
behaviours that contains the code's order; after a `Retry` this lets another ready op go
first, which the code does not do and which the properties allow for.

**`OpLifecycle`** is the abstract specification of an op's life (`pending`, decided once, `approved`,
and then `committed`, `requeued` or `blocked` according to what happened), over two variables, a status
and the set of ops that took effect. It is the state machine of `docs/lifecycle.md` with one edge
weakened to what the code does: there an op may be `blocked` when a dependency did not take effect
for whatever reason, a deferral included, where line 91 names rejection and requeue only. So the refinement does not
speak for that line; `BlockedByVerdict` states it, and is violated (finding 2).

**`GateLoop`** closes the engine with the gate: `Arrive` (a patch is diffed and staged; until then its place `at` is
"new"), `Resume` (a process loads the checkpoint),
`Review` (`review_node`, any subset of the undecided ops accepted, any other rejected, the rest
deferred), `Commit` (an engine step), `Return` (the checkpoint after `commit_node` and the
branch back to the gate), `Crash`. `Exclusive` says whether one thread may be run by two
processes at once. The code does not exclude it; the runs say which promises need it.
The ops of a patch are constants, and `Arrive` is possible when canonical *as it is then* is one they could have been diffed
against (`Diffable`): what they name is there, whether it was there at first or an earlier patch put it there, and every
precondition holds. A patch whose entity or edge some other patch mints can thus arrive only after that, which is how the pipeline
gets to such a patch; one whose time never comes never arrives.

**`IngestPipeline`** adds what happens before and after: `Ingest`, the two reads of `parse_node`
as separate steps (`Duplicate`/`NotCommitted`, `InFlight`/`NotInFlight`), `Resolve` (`Arrive`, or once more if a death undid it), `Stage`,
`ReviewCommand` (a session that may have been opened long ago: `opened`) with the decisions it
resumes the thread with (`given`), `SaveDecision` for each `(:ReviewDecision)` node and
`ReviewReturns` for the checkpoint after `review_node`, and the end of `commit_node` as
`SavePatch`, `MarkDocument`, `IndexAndReturn`, with `Die` in between any of them.

**`CanonicalReads`** has the canonical graph as a value and the queries resolution,
correlation and extraction make of it (`stores/neo4j.py`).

**`Extraction`** goes from a parsed document to candidates: `decompose`, `extract_unit` after the
model has answered (names to mentions, `_drop_unnamed`), the BPMN parser's triples and
`ground_truth_candidates`, and which entity types are new. What the model answers for a
unit is part of the constant `Content`.

**`ResolvePatch`** goes from candidates to a routed patch: `normalize_predicate`, `_dedupe_batch`
(`Survivors`, `Alias`, `MergedRelations`), the cascade (`ResolveEntity`), `_extend_props`,
`_propose_update` (`ProposeUpdate`, `FoldUpdate`), the ops of an entity (`EntityOps`), `correlate_relation`
(`Correlate`), `resolve_node` (`ResolveNode`), `score_route_node` (`RoutedStatus`). All of it reads canonical
and writes nothing, so it is a function of graph, candidates, the answers of embedder and judge (`Answers`: for each mention
not found by name how near each node is, and any candidate of the band or none) and the adjudicator's (`Adjudications`: any verdict
for each edge that contends with a relation). The texts compared are names *with descriptions*, and a commit writes the vector of a node
anew: so nothing ties the similarities one patch was given to those of the next. `Cosines` is the set of tables they are taken from, and
each resolution takes one; `Hits` are the five nearest at or above a score. `Routing` has the score, in 1/10000 with its rounding, and the thresholds.

**`Promotion`** closes these into a state machine: `Ingest` (parse to stage, and the commit when
nothing needs a reviewer), `Review` (any ops rejected or deferred, the commit after it, the row's
status, the document mark), over `canonical`, `patches` and `marked`. `CommitPatch` is `commit_patch`
once more, with the content of nodes and edges that `CommitEngine` leaves out, and without its
interleavings: one process works at a time, and none dies. Patches park in any number and are
reviewed in any order, so that each is committed against a graph it was not diffed with.

**`Retrieval`** is `neighborhood_facts`: the walk from a question's anchors, hop by hop, with the
temporal filter and the fact limit, the rows of a hop in any order.

`MCGateLoop` and `MCIngestPipeline` give concrete ops, built the way `resolve_node` and
`correlate_relation` build them, preconditions and dependencies included, some on what another patch of the instance mints; `Promotion`'s `DiffSound`
checks that `resolve_node` does build patches like that. `MCPromotion` gives documents.

Definitions marked `Fault:` are not part of any specification. Each is the definition that
follows it with a plausible bug (a guard dropped, a set not updated, a swapped pair); it
documents what the property beside it in `PROJECT.json` ("mutants") would catch.

### Abstractions

* `Mint(o)` stands for the id the code derives by `uuid5` from the patch and op ids; that
  two different pairs collide is excluded.
* In the modules about processes, names are model values already case-folded, and one node property (the
  description) and one timestamp (`valid_to`) are kept; quotes, confidence, attributes, the other
  provenance and `reason` texts are left out: no guard of that code reads them.
* Strings are compared in three ways, and each is a constant function of its own: `Fold` is Cypher's `toLower` (`find_by_name`, `name_absent`), `Key`
  is `strip().lower()` of a name and `PredicateKey` of a predicate (`_dedupe_batch`); everywhere else a predicate is compared exactly, as the code does.
  Names with one `Fold` have one `Key` (`ResolutionAssumption`).
* In `Promotion` a description is a sequence of
  statements, "already covered" is a run of statements inside another, the cap (`_DESC_CAP`) counts
  statements; `attr` stands for any other property; moments are numbers; within one
  resolution the similarity of a mention and a node depends on their names (`Cosines` has the tables, another may be taken for each patch); a paraphrase is a given predicate (`Paraphrase`).
* `CreateNode` builds its record with `{name, **properties}` (`pipeline/graph.py:349`) and the engine sets all of it on the node, so that a property the model
  calls `name` or `id` would overwrite the entity's own. `attr` stands for a property of any other name; what that overwrite does to
  `EntitiesDistinct` and to the ids is not modelled.
* `Groups`, `FirstGiven`, `MostConfident` give the result of `_dedupe_batch`'s in-place updates, mention
  by mention, for the whole batch at once.
* `Order` is the topological order for dependencies one level deep, which is all `resolve_node` makes;
  `DiffSound` checks that.
* `review_node` also takes the decisions `edit` and `force_merge`. The command line and the board send neither
  (`cli.py:166-173`, `viewer/app.py:21`), so that no decision of the model changes an op. An edit could break what a
  patch was built to keep: a renamed `CreateNode` would go on asking that its old name be absent.
* `SplitNode` raises `NotImplementedError` in the code and is left out.
* A transaction's reads are a ledger lookup and one step for all preconditions; its write
  and its ledger entry become visible together, as they are one commit.
* A checkpoint is written after each node (LangGraph's contract). `stage`'s row and the
  checkpoint after it are one step: a death between the two leaves, in the code, a pending row whose thread
  is still at `stage`, and no state of the model.
* New input given to a thread restarts the graph at `parse` and its checkpoint takes the place of the
  earlier run's (LangGraph's `invoke` with an input): `Ingest` on a used thread sets that thread's place `at` to "end" at once. `ThreadReuse` says whether users do that.
* `IngestPipeline`'s `Resolve` yields some patch of the document that canonical allows at that
  moment (`Diffable`; checked of the real construction by `DiffSound`). Which patch it is the processes' modules leave open:
  a patch is one of a given set, so what depends on the text of a document diffed late is `Promotion`'s to say.
* A decision saved again after a death is the same `<<op, action>>` pair; the node of the code has a
  new id each time.
* `Routes` gives the routes each op may get. In the MC modules a `CreateNode` is always
  reviewed: its best score is 0.875, under the 0.92 of auto-approval (theorem `NewKnowledgeReviewed`).
* External to the repository and modelled from its use here: Neo4j's isolation and constraint,
  the driver's retry, LangGraph's checkpoints and resume.

## 3. The runs

| Run | Instance | Result | What it shows |
|---|---|---|---|
| `gate_serial` | 1 process, patches A (create, edge on it, close e1), B (create of the same name, merge, update that depends on it, close e1) and C (edge on what A creates) | passes, 1,272,410 states | see below |
| `gate_race` | 2 processes on one thread, patches A (create, edge on it) and C (reinforce that edge), `Exclusive = FALSE` | passes, 486,256 states | the ledger is enough |
| `pipeline_serial` | 1 process, documents d1 (patches A: create, edge on it; C: reinforce) and d2 (patch B: create of the same name) | passes, 1,027,194 states | the whole path |
| `pipeline_review` | 1 process, document d1 (patches A, C), everything reviewed, fair | passes, 15,168 states | a patch on offer gets closed |
| `promotion` | 4 documents, at most 2 of them and 3 patches in a behaviour | passes, 93,788 states | the content |
| `gate_twins` | 2 processes, one create of the same name each | `NoTwins` violated | finding 4 |
| `gate_blocked` | 1 process, create and edge | `BlockedByVerdict` violated | finding 2 |
| `pipeline_requeue` | 1 process, two patches | `NoneLeftRequeued` violated | finding 1 |
| `pipeline_lock` | 2 processes, one document | `OnePending` violated | finding 3 |
| `pipeline_killed` | 1 process, one auto-approved op, fair | `KilledRunResumes` violated | finding 5 |
| `promotion_rejected` | one document that mentions an alias | `RejectedMergeHolds` violated | finding 6 |
| `promotion_values` | two documents about one city | `ValuesKept` violated | finding 7 |

**`gate_serial`** (`GateTypeOK`, `NoTwins`, `DependencyClosed`, `InductiveInv`, `HistoryKept`,
`RebasedWrites`). One process at a time, but every mix of decisions, crashes, retries and
the patches interleaved between rounds. `A` and `B` create one name and close one
edge with different dates, so the later one must requeue: no twin, no window moved. `b3`
depends on `b2`, and `a2` on `a1`, so that each deferral and rejection meets a dependent op.
`C` has an edge on the entity that `a1` mints, and arrives when that is in canonical.
`InductiveInv` is checked here before it is proved.

**`gate_race`** (`LedgerFaithful`, `SupportCounted`, `RefsResolve`). Two processes walk the same
patch at the same time, dying and retrying anywhere. `a2` needs the id that `a1` minted, possibly in
the other process; `x2`, of a patch diffed after that, adds support to the edge `a2` minted, an effect that is not
idempotent by itself. Process symmetry is used: the run checks invariants only.

**`pipeline_serial`** (`PipelineTypeOK`, `OnePending`, `MarkedClosed`, `BoardMatchesGate`,
`IngestedOnce`, `ImplementsGateLoop`, `AuditTrail`, `StatusTruthful`, `ImplementsLifecycle`). From the command to the vectors, with deaths between any
two store writes: a document has one pending patch, is marked only when a patch of it is
closed, is never staged again after that; the reviewer is shown what the gate asks; and
the pipeline is an implementation of `GateLoop`, so `GateLoop`'s theorems apply to it, and of `OpLifecycle`; saved statuses never lie
about canonical (two processes on one thread may overwrite each other's checkpoint, so this takes one runner per thread; the theorems say so for any
number of processes); and no op is
in canonical that neither routing let through nor a recorded decision accepted, although the
decisions are saved one by one and the process may die between them.

**`pipeline_review`** (`ReviewedPatchCloses`). As long as the row of a patch has an op to decide, `kgi review` offers it; once deaths and
transient errors stop, that leads to a pass that closes the patch, whatever the earlier passes left: a thread parked at the gate, one killed
in the commit node whose decisions are in the checkpoint and not in the row, ops deferred again and again. What no command resumes is finding 5.

**`promotion`**. Canonical knows that Acme has had its headquarters in Basel since moment 1. `Move` says
in three units, one with a paraphrase, one with the predicate in capitals and one with a blank behind the city's name, that it is in Zurich from 3 on; `Alias1` mentions AcmeCorp,
which is near Acme by 92% or by 80%, as their descriptions have it, and which the judge may or may not take for Acme in the second case; `Both` mentions Acme and AcmeCorp, so that
two mentions may fold into one update; `Flow` is a BPMN process with an unnamed element and a broken flow.
The properties, by what could go wrong:

| Property | What it says |
|---|---|
| `EntitiesDistinct`, `NoTwinFacts` | patches parked at the same time create no entity twice, and no fact twice unless one assertion is on an entity its own patch introduced (which has no `edge_absent` to check) |
| `NewKnowledgeSeen`, `ForcedSeen` | a new entity or fact is in canonical only after a reviewer accepted it, and so does an op on an entity of a new type or one half of a contested fact take effect (the override for high-degree merges is not among these, section 5) |
| `RejectedMentionSilent` | each statement of an entity's description is from a mention whose merge was not refused, also when updates were folded |
| `ValuesKeptIfUnchanged` | a patch whose target has not changed since the diff takes no value away, if no text is longer than the cap on its own (in this run none is) |
| `DiffSound` | a patch is what `DiffAssumption`, `GuardAssumption` and `Arrive` assume of one, for the graph it was diffed with |
| `SelfConsistent` | accepted as a whole against the graph it was diffed with, no op of a patch stands in the way of another |
| `FactsLand` | and then every relation extracted has its edge, between the entities its ends were resolved to, with its predicate up to case and blanks |
| `Settled` | and then the same document, resolved again whatever embedder and judge answer, introduces an entity only for a mention that was merged into a node of another name; where its mentions and predicates are read as before, it only merges mentions, reinforces facts and rewrites what is there (unless a text is over the cap, or it both repeats and supersedes a fact) |
| `HandoverExact` | a dated supersession leaves no moment with both facts or with neither |
| `WalkExact` | a two-hop walk finds the valid facts within reach, cut at the limit, the nearer ones first |

For `Settled` the same document is resolved again after such a commit, with any of the tables of similarities and any answer of the judge. A mention
that was found by its name, and one that was created, is found by its name. So a new entity can only come from a mention that was merged into a node of
another name: the merge leaves an alias that no lookup reads, and what the vectors say of the node has changed with its description. This is what is
left of "re-ingesting the same document produces no duplicate knowledge" (`kg_ingestion_architecture.md:48`) where the intake does not refuse the document: after a requeue, or for an edited copy.

`SelfConsistent`, `FactsLand` and `Settled` replay the patch staged last against its own base; what a patch says
of its document never changes afterwards, so each patch is looked at in the states it was staged in (`Newest`).

### Bounds, and why they are enough

In the runs about processes all bounds are the sizes of `RunIds`, `PatchIds`, `OpIds` and the entity
sets; no counter is capped, since support can only grow by ops of the instance. Two processes are what a race
between check and write takes. Three ops per patch give a chain of dependencies and an independent
op; two patches are the least that compete for a name or an edge. A third patch is needed for
one diffed against what the first put into canonical, and for re-ingesting a document (`C`). For more of everything there are the proofs.

`Promotion` is bounded by `MaxPatches = 3` (two that compete and one that meets their result),
two tables of similarities (one on each side of `EMBEDDING_ACCEPT`),
`MaxDocs = 2` (a document again after a requeue, or two that compete), `MaxHeld = 1` (one op of a review
rejected or deferred; a patch parked again is reviewed again, so several are held over several
rounds), `DescCap = 3` (the joined descriptions of `Both` reach it), `Confidences = {95}` (a judge surer
or less sure routes a merge otherwise; the theorems of `PatchProofs` cover every score), two hops and the
limits 1, 2 and 60 (met at once, in the middle, never), the moments 2 and 3 (before the supersession, at it).

### Fairness

Only `FairPipelineSpec` has fairness, and two runs use it. It assumes that a process that is not killed goes on (`WF` of its steps), and that people use the
commands the code offers: a patch `kgi review` offers again and again is in the end reviewed with a decision for each op it asks about (`SF` of `DecideAll`), and a
patch whose row is pending is in the end given to `kgi ingest` with its thread id, where `ThreadReuse` allows that. It is strong fairness because other runs may
hold the process for a while. A reviewer who defers an op for ever is outside it: nothing can close such a patch, nor should it. No step is assumed that no command takes: in particular
nothing re-runs a thread left in the commit node unless its row has something to decide (`cli.py:143`). Both properties have the condition `DeathsStop`, that
deaths and transient errors end. In `pipeline_killed` the property is refuted, so there the assumption makes the result stronger.

## 4. What is proved

For arbitrary sets of processes, documents, patches and ops (finite or not, but for `SupportOnce`), with crashes and retries
anywhere:

| Module | Theorem | Statement |
|---|---|---|
| `GateLoopProofs` | `TypeCorrect` | `Spec => []GateTypeOK` |
| | `InductiveInvHolds` | `Spec => []InductiveInv` |
| | `DependenciesFirst` | `Spec => []DependencyClosed` |
| | `LedgerMatchesGraph` | `Spec => []LedgerFaithful` |
| | `NoMissingReference` | `Spec => []RefsResolve` |
| | `SerialRebase` | one process: `Spec => RebasedWrites` |
| `CanonicalGraphProofs` | `SupportOnce` | finitely many ops: `Spec => []SupportCounted` |
| | `SerialNames` | one process: `Spec => []NoTwins` |
| | `SerialHistory` | one process: `Spec => HistoryKept` |
| `LifecycleProofs` | `StatusesTruthful` | `OneRunner`: `Spec => []StatusTruthful` |
| | `GateImplementsLifecycle` | `OneRunner`: `Spec => ImplementsLifecycle` |
| `OpLifecycleProofs` | `LifecycleTruthful` | `OpLifecycle!Spec => []VerdictsTrue` |
| `IngestPipelineProofs` | `PipelineIsGateLoop` | no thread id used twice: `PipelineSpec => ImplementsGateLoop` |
| | `PipelineCommitsSoundly` | the same: `PipelineSpec => [](DependencyClosed /\ LedgerFaithful /\ RefsResolve)` |
| | `PipelineTypeCorrect` | `PipelineSpec => []PipelineTypeOK` |
| | `AuditTrailComplete` | `PipelineSpec => []AuditTrail` |
| | `SerialIntake`, `SerialIngestedOnce` | one process: `PipelineSpec => []OnePending /\ IngestedOnce` |
| `PatchClosureProofs` | `PipelineIsLifecycle` | no thread id used twice, `OneRunner`: `PipelineSpec => ImplementsLifecycle /\ []StatusTruthful` |
| | `SerialClosure`, `SerialBoard` | no thread id used twice, one process: `PipelineSpec => [](MarkedClosed /\ BoardMatchesGate)` |
| `PatchProofs` | `ScoreRange` | a score is in 0 .. 10000 |
| | `NewKnowledgeReviewed` | with a resolution of 0.5 every route is `review` |
| | `TwoMentionsReviewed` | with fewer than three mentions nothing is auto-approved |
| | `PatchOK` | for every graph, document, embedder, judge and adjudicator: `PatchSound(g, ResolveNode(g, ...))` |
| | `PatchVoiced` | and `AllVoiced` of it: each statement of an op has a mention of its entity to be from |
| | `PatchWhole` | and `Whole`: its ops are not in each other's way, and no mention without a node of its name and no merged relation is left out |
| | `PatchHeard` | and `HeardUpTo`: with no text over the cap, no mention's text or attribute is left out, and to a node that says it all nothing else is written |
| `PromotionProofs` | `TypeCorrect` | `Spec => []TypeOK` |
| | `EntitiesStayDistinct` | `Spec => []EntitiesDistinct` |
| | `NoTwinFactsHold` | `Spec => []NoTwinFacts` |
| | `NewKnowledgeReviewedFirst` | `Spec => []NewKnowledgeSeen` |
| | `ForcedReviewedFirst` | `Spec => []ForcedSeen` (new types and contested facts) |
| | `DiffsSound` | `Spec => []DiffSound` |
| | `RejectedStaysSilent` | `Spec => []RejectedMentionSilent` |
| | `ValuesStay` | `Spec => ValuesKeptIfUnchanged` |
| | `NoSelfConflict` | `Spec => []SelfConsistent` |
| | `RelationsLand` | `Spec => []FactsLand` |
| | `DocumentsSettle` | `Spec => []Settled` |
| | `HandoversExact` | `Spec => []HandoverExact` |
| | `WalksExact` | `Spec => []WalkExact` |

**Assumptions.** `EngineAssumption` and `GateAssumption` type the constants: ops belong to one
patch, `None` and the minted ids are fresh. `DiffAssumption` says what `resolve_node` guarantees
of the ops of a patch whatever the graph: an edge names canonical entities, of the first graph or minted by some other patch, or a staged entity that an op it depends on introduces, a reinforcement an edge,
and a staged entity is introduced by one op. That the entities and edges are there is no assumption but the guard of `Arrive`, at the moment of the diff. `GuardAssumption` says which preconditions it gives: a `CreateNode`
asks that its name be absent, an `InvalidateEdge` that its edge be current; and no two entities of the first graph have one
name. TLC evaluates all four on every instance, and `DiffSound` checks on `ResolveNode` that patches are built
like that. A theorem that needs more says so: one process (`\A q, r \in RunIds : q = r`), `~ThreadReuse`,
`IsFiniteSet(OpIds)`, or `OneRunner`: no two processes run one thread (`Exclusive`), or there is only one.

The theorems of `PatchProofs` and `PromotionProofs` are under the assumptions of the content modules. `NoneAssumption`
says that `None` is no date, description or id. `ContentAssumption` types what a document holds and what the model answers, as the response
classes type it (`extraction/extractor.py:18-40`): any names, types, quotes and confidences, the confidences within the bounds Pydantic
enforces there and in `models/candidates.py:22,35` and `models/patch.py:51`; a unit's text is whatever it is. `ResolutionAssumption` types the tables of similarities, which may be any,
the cap, today's date and the judge's confidences, and says that names alike for `toLower` are alike for `strip().lower()`. `PromotionAssumption` says of the first graph what the code keeps true of every graph: its edges join nodes
it has, no name is there twice and no fact is current twice; moments are dates and limits natural numbers. Nothing is
assumed of how many documents, mentions, relations, patches or ops there are, nor of what embedder, judge and adjudicator answer.
`Labels` is `STRING` with three literals the code coins: the union is `STRING`, but the provers know of no literal that it is a string.

**The argument.** `DependencyClosed` is not inductive: what makes the next `Apply` safe is in the
memory of the process, not in the database. `RunInv` says what a process in the middle of
its walk knows: what its report calls committed is in the ledger, and the ids of those ops
are in `id_map`; the op whose transaction is open has all its dependencies among them; and
`id_map` holds nothing but ids that ops of this patch introduce (perhaps of an op
whose write was rolled back: a `Retry` leaves it). The ledger only grows, so the other
processes cannot falsify what one knows. With that, an `AssertEdge` at its write finds both ends
registered (`NoMissingReference`), both ends alive (`LedgerFaithful` for the dependency,
`DiffKept` for canonical ones: what a patch was diffed against is there from its arrival on, since nothing deletes a node or an edge), so its `MATCH ... MERGE` is never the silent no-op, which is
what makes the ledger entry true. `SerialRebase` uses a second invariant: with one process,
what was read in `RebaseHolds` still holds at the write. Without that hypothesis it is false,
as `gate_twins` shows.

**The pipeline.** `PipelineIsGateLoop` needs to know that the nodes before the gate disturb nothing the gate loop
works on. `Staging` says it: a run in the intake is idle and not on the thread of an earlier run, its patch is its own
and has no row, and a patch without a row is run by nobody, opened by nobody and not at its end. With a thread id used
twice the refinement is false: new input moves a parked thread to its end, a step `GateLoop` does not have
(the second case of `Ingest`). `PipelineInv` is `PipelineTypeOK` with `RunShape`: a run in the intake has a patch where it stages one, one
that left `idle` has a patch, and the end of `commit_node` comes after the walk. `AuditTrailComplete` needs no
exclusion: `AuditInv` says that what is approved or committed in a checkpoint, in the ledger, or may still be applied by a run
is `Backed` (let through by routing, or its acceptance recorded), and that an open transaction is on such an op.
`SerialIntake` uses `SerialInv`: with one process the run in the intake has seen the document unmarked and knows of no
pending patch of it, a run decides nothing but at the gate, and a closed row has nothing undecided in its checkpoint.

**Canonical.** `OnlyApplyWrites` leaves the write of one op to look at. With one process `SerialRebase` says that its
preconditions hold in the state it lands on: the name is free, so `NoTwins` is kept; the window is open, so
`HistoryKept` is. An assertion cannot hit an edge that is there, because an op not in the ledger has minted nothing
(`LedgerFaithful`). `SupportOnce` needs no such hypothesis: the ledger entry and the increment are one commit, and the second of two
processes meets the uniqueness constraint. Its invariant needs `DiffKept` for edges, without which a reinforcement could be a no-op that
the ledger counts.

**Verdicts.** `StatusTruthful` is about the checkpoint, which is written once, at the end of a walk. `VerdictInv` says
what a walk knows of each op until then (`OpKnown`): what it has not reached has the checkpoint's status, what its report
calls requeued or blocked is not in canonical, what it calls committed is. Two processes on one thread falsify that of each
other, hence `OneRunner`. With it every step of `GateLoop` is a step of `OpLifecycle` or a stutter; the engine's write
is the abstract one, and `Return` settles all ops of the patch, which the abstract specification allows for.

**Closed patches.** A death after `SavePatch` makes the commit node run again, and `SavePatch` saves a row again. `ClosureInv` says
why a closed row stays closed: an op still `approved` in the checkpoint and not applied lacks a dependency for good (`ClosedRow`), so
the second pass finds nothing to do or to requeue; and what a pass saved is what its walk found (`PassSaved`).

**Routing.** The scores are linear in bounded inputs; the theorems replace the argument "0.875 is the best a new
node can score" for every confidence, count and type flag, and the patches' proofs use them.

**Patches.** A patch is built by recursive functions over sequences, with a list of lists flattened here and there. What such a fold gives is proved by
induction through two lemmas without operator parameters, `SetInduction` (a set that has 0 and with a natural number its successor contains `Nat`)
and `UpToInduction`; the set is the one of the lengths for which the claim holds. What the library's induction theorems say with an operator,
these say with a set, as far as the claims are about numbers. The proof goes along the code: extraction gives
relations whose ends are entities it extracted (`_drop_unnamed` takes those of a dropped entity along, ground truth names what it has ensured), deduplication
keeps one mention per folded name and redirects every end to a survivor, the cascade gives a node of the graph or none. For the patch itself,
`PatchSound` is proved place by place: `EntityOps` and `Correlate` keep what the ops before have and add ops that are sound where they stand. What makes it hard is
that a later mention may change an op that is already there: `FoldUpdate` puts its text and what it waits for into the update of the first mention,
and must leave kind, target and order alone. `PatchVoiced` follows the texts along the same recursion: `Voiced` says of a creation and of a merge which mention it is for, and
of an update that each of its statements is the node's own or from a mention that `Backs` it, found by name or by a merge the update waits for. Folding and joining keep that, because a
fold adds to what the update waits for and a join says nothing that neither text said (`JoinOK`).

`PatchWhole` is about ops of one patch side by side. A node has one update because `ProposeUpdate` folds (`Apart`), a name one creation because deduplication
left one mention of it (`NamesApart`, by way of `Voiced`), and an assertion between two known entities depends on nothing, since no mention of it is created (`RefersApart`). `Covers` goes
along `RelationPatch`: after k relations each of them is reinforced or asserted, nothing else is, and an edge is opened or closed only for a relation that has no exact edge. `RelationsKept` says
that aliasing and grouping lose no relation and invent none.

`PatchHeard` is `PatchVoiced` the other way round: what a mention says is in its node or in the node's update. "Says" is `Carries`: the text is a run of the description, or the description is as long as
the cap. A joined text carries both it was joined from (`JoinCarries`), what is carried already is not joined again (`JoinIdle`), and carrying is transitive (`CarriesTransitive`), so that an update folded from many
mentions carries all of them and all the node said (`Gathers`), and is `Calm`, that is writes what is there, if its node carries them already. A description as long as the cap has to count: the join cuts the new text off, and the next join does so again.

**Promotion.** None of its invariants is inductive. The inductive one is `IInv`: `World` says of canonical and patches together that canonical is a
graph without two entities of one name and without twin facts but those said above; that each id in it is of the first graph or was minted for an op that took effect, so that no id is minted twice (`Minted`);
and of each patch that it is sound for the graph it was diffed with and that canonical still has that graph's nodes
(`PatchHere`), that what was applied was seen where it must be (`Seen`), and that it still has its effect (`Effects`). The step from one `World` to the next is an
induction over the walk (`CommitPatchOK`): after each k ops there is a `World` again, between the ops of the commit as well. At the write of an op its preconditions hold in the graph it lands on, so that
the name is free, the fact is absent, the window is open; its dependencies took effect before it, so that its references resolve. `EntitiesDistinct`, `NoTwinFacts`,
`NewKnowledgeSeen` and `ForcedSeen` are then conjuncts of the invariant or follow from the routes, for patches parked in any number and reviewed in any order.
`HandoverExact` needs two things more: an assertion precedes the invalidations it makes room for and dates them, and nobody moves a window that is closed.
`RejectedMentionSilent` and `ValuesKeptIfUnchanged` ask where a text is from. `Told` follows a walk: what a node says at its end it said at its start, or an op
of the patch says it, and of an update each merge it waits for is committed. With `PatchVoiced` that gives the conjunct `Vocal` of `IInv`: each statement in canonical, and in the graph
each patch was diffed with, is sourced. It has to speak of those graphs too, because an update carries over the text it was joined with, which canonical may have changed since. That a source stays one
needs that a committed merge is never taken back: a merge waits for nothing, so that no later pass can block it (`MergesStay`).
`SelfConsistent` and `FactsLand` are about a commit that does not happen: the patch alone, all of it accepted, on the graph it was diffed with. `Origin` says of each patch that it is what `ResolveNode` makes of its
document with that graph, so that `PatchWhole` is true of it. `Replayed` goes along the walk: the graph is `Built` from the base by the ops met so far, each new node and edge is one op's, each changed
description and each closed window too, and every op met took effect or was `Spared`. What is left is to see that such a graph still satisfies the guard of the next op (`AllClear`): a name is taken only by the one op that creates it, a description is
changed only by the one update, an edge is closed only by an invalidation of a sibling, and between two known entities a fact is asserted only by the same assertion of another relation, which `Order`
puts first because both wait for nothing (`OrderTurns`). For `FactsLand` the least of the assertions of a fact is spared by none.
`Settled` puts two patches side by side, that of the document and that of the same text resolved against what the first made of its graph (`ReadAgain`). A mention found by its name is found again, since names only get more;
one that had neither a node of its name nor a merge was created under its own name (`MentionFound`, from `PatchWhole`), and is found by that: for these the second answers are never asked (`SameFound`). So only a merged mention can be created. If the mentions
are the entities and the predicates what they were, each relation has the current edge that `RelationsLand` speaks of and is reinforced (`RelationsSame`, `RelationsRepeated`), each node carries what its mentions say by `PatchHeard` of the first patch
(`AllKnown`), and by `PatchHeard` of the second each update writes what is there.
`WalkExact` counts: a hop that meets the limit takes exactly what is left of it, a hop that does not takes all, so that the second hop begins only when the first is complete.

The premises of `Settled` are needed. A merged mention may be another entity the next time: its node's vector is that of the joined description, an entity the same patch introduced may be nearer, and the judge may
change its mind. A predicate that was new is, once committed, what a paraphrase of it is read as; `PredicateKey` lets a patch have a fact under one spelling only, so that the other one is new the next time. A document that both repeats a known fact and supersedes it reinforces an edge and
closes it, and asserts it anew the next time; a text over the cap loses a statement each time it is joined. The code does nothing against any of these.

**Model-checked only.** Every invariant and action property of the passing runs is stated by a theorem. `ReviewedPatchCloses` is liveness under fairness, which the prover does not reach. `NoTwins` and
`HistoryKept` are proved of `GateLoop`; that they carry over to the pipeline is `PipelineIsGateLoop`.

## 5. Where the code and its documents disagree

1. **A requeued op can be lost** (`pipeline_requeue`). `commit_node` looks at the requeued list of
   its own pass. A pass that requeues one op and leaves another deferred goes back to the gate; the
   next pass skips the requeued op, reports nothing requeued, and the document is marked as
   ingested. `docs/lifecycle.md:94` says a requeued op re-enters resolution.
2. **A deferral blocks** (`gate_blocked`). Deferred ops are put into `failed_deps` like
   rejected ones; an accepted edge on a deferred entity becomes `blocked`, and no later
   pass takes that back. `docs/lifecycle.md:91` and `models/patch.py:140` give rejection or requeue of a
   dependency as the reason for `blocked`.
3. **The intake lock is not one** (`pipeline_lock`). It is read in `parse_node`; the row is written nodes
   later. Two ingests started together stage the document twice (`docs/lifecycle.md:113`).
4. **`name_absent` does not close the race** between two commits that run at the same time
   (`gate_twins`; `docs/lifecycle.md:107-110`): under read-committed isolation both read that
   the name is free, and there is no constraint on names.
5. **A run killed in the commit node is stuck** (`pipeline_killed`) if its row has no op to decide, because routing settled
   them all or the last decisions were saved by a pass that did not return: `kgi ingest --thread-id` starts over and stops at the patch's own pending row, `kgi review`
   refuses a patch with nothing to decide. (A patch decided at the gate and killed before `save_patch` is still offered, since its row still
   says `pending`; `pipeline_review` shows that it gets through.)
6. **A rejected merge keeps its edges** (`promotion_rejected`). Edges on a merged mention refer to the canonical node
   and depend on no op. Rejecting the merge blocks the mention's text and leaves its facts, now about an entity
   the reviewer said it is not. `models/patch.py:9` and `docs/lifecycle.md:77` say such an edge depends on the merge.
7. **A filled gap can be overwritten** (`promotion_values`). A property that was empty at the diff has no precondition:
   of two parked patches the later one replaces what the earlier one wrote. `commit/engine.py:11` and
   `docs/lifecycle.md:30` say that gaps are filled and nothing is overwritten. The description has `prop_equals` only
   where it was joined.
One more is read off a single call, so no run is spent on it: **a merge into a hub needs no reviewer**. `routing/policy.py:3-6` sends a merge into a
high-degree canonical node to a human "regardless of score". `score_route_node` passes `route_op` no degree (`pipeline/graph.py:442`), the default 0 is used, and
`node_degree` has no caller: such a merge is approved by its score alone. `ForcedSeen` and its theorem are about the other two overrides, and do not speak for this one.

Seen while modelling, and said by no document to be otherwise, so not findings: the two halves of a supersession have no
dependency, a reviewer can accept one and reject the other; a supersession without a date closes the old fact today and
leaves the new one open at its start, so that a question about the past sees both; a joined description is cut at `_DESC_CAP`,
and of an old text longer than that, which a mention may bring in, the end is lost (`pipeline/graph.py:170`; hence the condition `Short` in
`ValuesKeptIfUnchanged`, which the proof asked for); `ReinforceEdge` drops the date of
the mention that reinforces; `support_count` is the number of mentions in one document, where the comment at
`confidence/scorer.py:23` speaks of independent sources; the aliases a merge leaves are read by no later resolution.

## 6. Not modelled

* **Text**: Markdown and docling parsing, prompts, the model's answers as such, rendering, logging, the answer's citations.
* **Numbers of libraries**: similarity search, full-text search and the fusion of their ranks into the seeds of a walk.
* **`evaluation.py`**: scores triples against gold files; no state, nothing that runs beside it.
* **`reindex_vectors.py`, `reset_dev.py`**: run alone, drop and refill or delete.
* **The `commit_report` of a re-used thread**: LangGraph keeps it in the thread's state; a thread id used for a second
  document may skip it (`pipeline/graph.py:87`).
* **Unused code**: `node_degree`, `subgraph_for_review`, `set_status`, `ExtractionRun`, `SplitNode`.

What is left that the modules would bear: edits at the gate in `Promotion`, once a command offers them; processes that
race in `Promotion`, where each document is handled undisturbed.
