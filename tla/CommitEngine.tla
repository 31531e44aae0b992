---------------------------- MODULE CommitEngine ----------------------------
(***************************************************************************)
(* The commit engine (src/kgi/commit/engine.py): the only writer of the    *)
(* canonical graph.  commit_patch walks the ops of one patch in dependency *)
(* order, one Neo4j transaction per op; the transaction looks the op up in *)
(* the AppliedOp ledger, re-checks the op's preconditions and writes the   *)
(* fact together with its ledger entry.                                    *)
(*                                                                         *)
(* Several processes ("runs") may execute commit_patch at once, on the     *)
(* same patch or on different ones.  Neo4j gives read-committed isolation, *)
(* so the ledger lookup, the precondition reads and the write of one       *)
(* transaction are three steps here, between which other runs may commit;  *)
(* the only cross-transaction guard is the uniqueness constraint on        *)
(* AppliedOp.op_id.                                                        *)
(*                                                                         *)
(* This module has the engine's state and its steps; GateLoop and          *)
(* IngestPipeline put them in a closed system.  A definition marked        *)
(* "Fault:" is no part of the model: it is the definition after it with a  *)
(* bug seeded, kept to show which property the bug breaks.                 *)
(***************************************************************************)
EXTENDS Naturals

CONSTANTS
    RunIds,     \* processes that may execute commit_patch
    PatchIds,
    OpIds,
    op,         \* op_id -> the operation (models/patch.py)
    TempIds,    \* temp_id values, the names a patch gives to its new entities
    Names,      \* entity names, already case-folded
    Values,     \* property values and timestamps
    Predicates,
    Node0,      \* canonical ids present before any of these patches
    Edge0,      \* edge ids present before any of these patches
    node0,      \* Node0 -> node record
    edge0,      \* Edge0 -> edge record
    None

Kinds == {"CreateNode", "UpdateNodeProps", "MergeInto",
          "AssertEdge", "InvalidateEdge", "ReinforceEdge"}

Statuses == {"pending", "approved", "rejected", "committed", "requeued", "blocked"}

\* The four lists of a CommitReport, and None for an op not reached yet.
Outcomes == {"committed", "requeued", "blocked", "skipped", None}

\* Ids are minted from (patch_id, op_id), never drawn afresh, so a re-run mints
\* the same ones; the prefix ("can", "edge", "alias") is given by the use.
Mint(o) == <<op[o].patch_id, o>>

NodeIds == Node0 \cup {Mint(o) : o \in OpIds}
EdgeIds == Edge0 \cup {Mint(o) : o \in OpIds}

PreconditionKinds ==
    {"node_exists", "edge_exists", "edge_absent", "name_absent", "prop_equals"}

\* expected holds {predicate, object_id} for edge_absent, {prop, value} for
\* prop_equals (the one property modelled is the description).
Preconditions ==
    [kind : PreconditionKinds, subject : NodeIds \cup EdgeIds \cup Names,
     predicate : Predicates \cup {None}, value : NodeIds \cup Values \cup {None}]

\* One record for all op kinds; a field the kind does not have is None.
\* target is canonical_id or canonical_edge_id, value the property value or
\* valid_to that the op writes.
Operations ==
    [patch_id : PatchIds, kind : Kinds, depends_on : SUBSET OpIds,
     preconditions : SUBSET Preconditions,
     temp_id : TempIds \cup {None}, name : Names \cup {None},
     target : NodeIds \cup EdgeIds \cup {None},
     subject : NodeIds \cup TempIds \cup {None}, predicate : Predicates \cup {None},
     object : NodeIds \cup TempIds \cup {None}, value : Values \cup {None}]

NodeRecords == [name : Names \cup {None}, description : Values \cup {None}]
EdgeRecords == [subject : NodeIds, predicate : Predicates \cup {None}, object : NodeIds,
                valid_to : Values \cup {None}, support : Nat]

\* Every op belongs to one patch, its dependencies are ops of that patch, a
\* merge is into a canonical entity, and None is not the name of anything.
ASSUME EngineAssumption ==
    /\ op \in [OpIds -> Operations]
    /\ \A o \in OpIds : \A d \in op[o].depends_on : op[d].patch_id = op[o].patch_id
    /\ \A o \in OpIds : op[o].kind = "MergeInto" => op[o].target \in NodeIds
    /\ node0 \in [Node0 -> NodeRecords]
    /\ edge0 \in [Edge0 -> EdgeRecords]
    /\ None \notin NodeRecords \cup EdgeRecords \cup NodeIds \cup EdgeIds
    /\ None \notin Names \cup Values \cup TempIds \cup OpIds \cup PatchIds
    /\ None \notin {"committed", "requeued", "blocked", "skipped"}
    /\ Node0 \cap {Mint(o) : o \in OpIds} = {}
    /\ Edge0 \cap {Mint(o) : o \in OpIds} = {}
    /\ NodeIds \cap TempIds = {}

-----------------------------------------------------------------------------
VARIABLES
    \* the canonical store (Neo4j), shared by all runs
    node,       \* canonical id -> node record, None when there is no such node
    edge,       \* edge id -> edge record, None when there is no such edge
    aliases,    \* (alias id, canonical id) pairs: (:Alias)-[:SAME_AS]->(:Canonical)
    ledger,     \* op ids with an (:AppliedOp) node
    \* one commit_patch call per run
    pc,         \* where the run stands
    patch,      \* the patch it works on
    working,    \* its in-memory copy of the op statuses (mutated in place)
    report,     \* op id -> the CommitReport list the op is in
    id_map,     \* temp id -> canonical id, None when not registered
    current     \* the op whose transaction is open

graph == <<node, edge, aliases, ledger>>
call == <<pc, patch, working, report, id_map, current>>
engine == <<graph, call>>

OpsOf(p) == {o \in OpIds : op[o].patch_id = p}

NoReport == [o \in OpIds |-> None]
NoIds == [t \in TempIds |-> None]

EngineTypeOK ==
    /\ node \in [NodeIds -> NodeRecords \cup {None}]
    /\ edge \in [EdgeIds -> EdgeRecords \cup {None}]
    /\ aliases \in SUBSET (NodeIds \X NodeIds)
    /\ ledger \in SUBSET OpIds
    /\ pc \in [RunIds -> {"idle", "gate", "loop", "rebase", "write"}]
    /\ patch \in [RunIds -> PatchIds \cup {None}]
    /\ working \in [RunIds -> [OpIds -> Statuses]]
    /\ report \in [RunIds -> [OpIds -> Outcomes]]
    /\ id_map \in [RunIds -> [TempIds -> NodeIds \cup {None}]]
    /\ current \in [RunIds -> OpIds \cup {None}]

EngineInit ==
    /\ node = [n \in NodeIds |-> IF n \in Node0 THEN node0[n] ELSE None]
    /\ edge = [e \in EdgeIds |-> IF e \in Edge0 THEN edge0[e] ELSE None]
    /\ aliases = {}
    /\ ledger = {}
    /\ pc = [r \in RunIds |-> "idle"]
    /\ patch = [r \in RunIds |-> None]
    /\ working = [r \in RunIds |-> [o \in OpIds |-> "pending"]]
    /\ report = [r \in RunIds |-> NoReport]
    /\ id_map = [r \in RunIds |-> NoIds]
    /\ current = [r \in RunIds |-> None]

-----------------------------------------------------------------------------
(* The reads of _check_precondition. *)

Live(n) == n \in NodeIds /\ node[n] # None
\* Fault: an invalidated edge passes for a current one.
CurrentOrClosed(e) == e \in EdgeIds /\ edge[e] # None

Current(e) == e \in EdgeIds /\ edge[e] # None /\ edge[e].valid_to = None

\* Fault: the name is looked up in the snapshot the patch was diffed against.
NameAbsentAtDiff(name) == \A n \in Node0 : Live(n) => node[n].name # name

NameAbsent(name) == \A n \in NodeIds : Live(n) => node[n].name # name

EdgeAbsent(s, p, b) ==
    \A e \in EdgeIds :
        Current(e) => <<edge[e].subject, edge[e].predicate, edge[e].object>> # <<s, p, b>>

CheckPrecondition(pre) ==
    \/ pre.kind = "node_exists" /\ Live(pre.subject)
    \/ pre.kind = "edge_exists" /\ Current(pre.subject)
    \/ pre.kind = "edge_absent" /\ EdgeAbsent(pre.subject, pre.predicate, pre.value)
    \/ pre.kind = "name_absent" /\ NameAbsent(pre.subject)
    \/ pre.kind = "prop_equals" /\ Live(pre.subject)
                                /\ node[pre.subject].description = pre.value

Rebased(o) == \A pre \in op[o].preconditions : CheckPrecondition(pre)

-----------------------------------------------------------------------------
(* commit_patch: the walk over the ops.  _topo_order is some order in which *)
(* an op comes after its dependencies, so the next op is any op whose       *)
(* dependencies are all in the report.                                      *)

Failed == {"requeued", "blocked", "skipped"}

Remaining(r) == {o \in OpsOf(patch[r]) : report[r][o] = None}

\* Fault: an op waits until its dependencies are committed.
ReachedAfterCommits(r, o) ==
    /\ pc[r] = "loop"
    /\ o \in Remaining(r)
    /\ \A d \in op[o].depends_on : report[r][d] = "committed"

Reached(r, o) == /\ pc[r] = "loop"
               /\ o \in Remaining(r)
               /\ op[o].depends_on \cap Remaining(r) = {}

\* Fault: everything that was not rejected is committed.
CommittableUnlessRejected(r, o) == working[r][o] # "rejected"

Committable(r, o) == working[r][o] \in {"approved", "committed"}

\* Fault: the skipped ops are not put into failed_deps.
BlockedUnlessSkipped(r, o) ==
    \E d \in op[o].depends_on : report[r][d] \in Failed \ {"skipped"}

Blocked(r, o) == \E d \in op[o].depends_on : report[r][d] \in Failed

Record(r, o, outcome) == report' = [report EXCEPT ![r][o] = outcome]
SetStatus(r, o, status) == working' = [working EXCEPT ![r][o] = status]
Goto(r, label) == pc' = [pc EXCEPT ![r] = label]

Skip(r, o) ==
    /\ Reached(r, o)
    /\ ~Committable(r, o)
    /\ Record(r, o, "skipped")
    /\ UNCHANGED <<graph, pc, patch, working, id_map, current>>

\* Fault: a blocked op is given the status of a requeued one.
BlockAsRequeue(r, o) ==
    /\ Reached(r, o)
    /\ Committable(r, o)
    /\ Blocked(r, o)
    /\ SetStatus(r, o, "requeued")
    /\ Record(r, o, "blocked")
    /\ UNCHANGED <<graph, pc, patch, id_map, current>>

Block(r, o) ==
    /\ Reached(r, o)
    /\ Committable(r, o)
    /\ Blocked(r, o)
    /\ SetStatus(r, o, "blocked")
    /\ Record(r, o, "blocked")
    /\ UNCHANGED <<graph, pc, patch, id_map, current>>

\* Fault: a created node is registered under its temp id.
IntroducedTempId(o) == IF op[o].kind = "CreateNode" THEN op[o].temp_id ELSE op[o].target

\* The canonical id a node-introducing op gives to its temp id.
Introduced(o) == IF op[o].kind = "CreateNode" THEN Mint(o) ELSE op[o].target

IntroducesId(o) == op[o].kind \in {"CreateNode", "MergeInto"}

Register(r, o) ==
    id_map' = IF IntroducesId(o)
              THEN [id_map EXCEPT ![r][op[o].temp_id] = Introduced(o)] ELSE id_map

\* Fault: an op found in the ledger does not register its id.
LedgerHitUnregistered(r, o) ==
    /\ Reached(r, o)
    /\ Committable(r, o)
    /\ ~Blocked(r, o)
    /\ o \in ledger
    /\ SetStatus(r, o, "committed")
    /\ Record(r, o, "committed")
    /\ UNCHANGED <<graph, pc, patch, id_map, current>>

\* The ledger has the op: an earlier pass applied it.
LedgerHit(r, o) ==
    /\ Reached(r, o)
    /\ Committable(r, o)
    /\ ~Blocked(r, o)
    /\ o \in ledger
    /\ Register(r, o)
    /\ SetStatus(r, o, "committed")
    /\ Record(r, o, "committed")
    /\ UNCHANGED <<graph, pc, patch, current>>

\* Fault: the op is applied without the re-check of its preconditions.
LedgerMissNoRebase(r, o) ==
    /\ Reached(r, o)
    /\ Committable(r, o)
    /\ ~Blocked(r, o)
    /\ o \notin ledger
    /\ Goto(r, "write")
    /\ current' = [current EXCEPT ![r] = o]
    /\ UNCHANGED <<graph, patch, working, report, id_map>>

LedgerMiss(r, o) ==
    /\ Reached(r, o)
    /\ Committable(r, o)
    /\ ~Blocked(r, o)
    /\ o \notin ledger
    /\ Goto(r, "rebase")
    /\ current' = [current EXCEPT ![r] = o]
    /\ UNCHANGED <<graph, patch, working, report, id_map>>

Requeue(r) ==
    /\ pc[r] = "rebase"
    /\ ~Rebased(current[r])
    /\ SetStatus(r, current[r], "requeued")
    /\ Record(r, current[r], "requeued")
    /\ Goto(r, "loop")
    /\ current' = [current EXCEPT ![r] = None]
    /\ UNCHANGED <<graph, patch, id_map>>

RebaseHolds(r) ==
    /\ pc[r] = "rebase"
    /\ Rebased(current[r])
    /\ Goto(r, "write")
    /\ UNCHANGED <<graph, patch, working, report, id_map, current>>

-----------------------------------------------------------------------------
(* _OpApplier.apply: the write of one op and its ledger entry, one commit.  *)

\* _resolve of a NodeRef; None stands for its KeyError.
ResolveRef(r, ref) == IF ref \in TempIds THEN id_map[r][ref] ELSE ref

\* Fault: the ledger entry is a MERGE, so that a second write goes unnoticed.
AppliesAgain(r, o, kind) ==
    /\ pc[r] = "write"
    /\ o = current[r]
    /\ op[o].kind = kind
    /\ ledger' = ledger \cup {o}
    /\ Register(r, o)
    /\ SetStatus(r, o, "committed")
    /\ Record(r, o, "committed")
    /\ Goto(r, "loop")
    /\ current' = [current EXCEPT ![r] = None]
    /\ UNCHANGED patch

Applies(r, o, kind) ==
    /\ pc[r] = "write"
    /\ o = current[r]
    /\ op[o].kind = kind
    /\ o \notin ledger
    /\ ledger' = ledger \cup {o}
    /\ Register(r, o)
    /\ SetStatus(r, o, "committed")
    /\ Record(r, o, "committed")
    /\ Goto(r, "loop")
    /\ current' = [current EXCEPT ![r] = None]
    /\ UNCHANGED patch

ApplyCreateNode(r, o) ==
    /\ Applies(r, o, "CreateNode")
    /\ node' = [node EXCEPT ![Mint(o)] = [name |-> op[o].name, description |-> op[o].value]]
    /\ UNCHANGED <<edge, aliases>>

\* MATCH finds nothing when the target is gone: the write is then empty.
ApplyUpdateNodeProps(r, o) ==
    /\ Applies(r, o, "UpdateNodeProps")
    /\ node' = IF Live(op[o].target)
               THEN [node EXCEPT ![op[o].target].description = op[o].value] ELSE node
    /\ UNCHANGED <<edge, aliases>>

ApplyMergeInto(r, o) ==
    /\ Applies(r, o, "MergeInto")
    /\ aliases' = aliases \cup (IF Live(op[o].target) THEN {<<Mint(o), op[o].target>>} ELSE {})
    /\ UNCHANGED <<node, edge>>

\* Fault: the edge is written from its object to its subject.
ApplyAssertEdgeReversed(r, o) ==
    LET s == ResolveRef(r, op[o].subject)
        b == ResolveRef(r, op[o].object)
    IN  /\ Applies(r, o, "AssertEdge")
        /\ s # None /\ b # None
        /\ edge' = IF Live(s) /\ Live(b)
                   THEN [edge EXCEPT ![Mint(o)] =
                           [subject |-> b, predicate |-> op[o].predicate, object |-> s,
                            valid_to |-> None, support |-> 1]]
                   ELSE edge
        /\ UNCHANGED <<node, aliases>>

ApplyAssertEdge(r, o) ==
    LET s == ResolveRef(r, op[o].subject)
        b == ResolveRef(r, op[o].object)
    IN  /\ Applies(r, o, "AssertEdge")
        /\ s # None /\ b # None
        /\ edge' = IF Live(s) /\ Live(b)
                   THEN [edge EXCEPT ![Mint(o)] =
                           [subject |-> s, predicate |-> op[o].predicate, object |-> b,
                            valid_to |-> None,
                            support |-> IF edge[Mint(o)] = None THEN 1
                                        ELSE edge[Mint(o)].support]]
                   ELSE edge
        /\ UNCHANGED <<node, aliases>>

EdgeTarget(o) == op[o].target \in EdgeIds /\ edge[op[o].target] # None

ApplyInvalidateEdge(r, o) ==
    /\ Applies(r, o, "InvalidateEdge")
    /\ edge' = IF EdgeTarget(o) THEN [edge EXCEPT ![op[o].target].valid_to = op[o].value]
               ELSE edge
    /\ UNCHANGED <<node, aliases>>

ApplyReinforceEdge(r, o) ==
    /\ Applies(r, o, "ReinforceEdge")
    /\ edge' = IF EdgeTarget(o) THEN [edge EXCEPT ![op[o].target].support = @ + 1]
               ELSE edge
    /\ UNCHANGED <<node, aliases>>

Apply(r, o) ==
    \/ ApplyCreateNode(r, o)
    \/ ApplyUpdateNodeProps(r, o)
    \/ ApplyMergeInto(r, o)
    \/ ApplyAssertEdge(r, o)
    \/ ApplyInvalidateEdge(r, o)
    \/ ApplyReinforceEdge(r, o)

-----------------------------------------------------------------------------
\* Fault: the id map outlives the call.
ForgetAllButIds(r) ==
    /\ pc' = [pc EXCEPT ![r] = "idle"]
    /\ patch' = [patch EXCEPT ![r] = None]
    /\ working' = [working EXCEPT ![r] = [o \in OpIds |-> "pending"]]
    /\ report' = [report EXCEPT ![r] = NoReport]
    /\ current' = [current EXCEPT ![r] = None]
    /\ UNCHANGED id_map

\* The call is over or its process is gone: its memory is lost, an open
\* transaction is rolled back.
Forget(r) ==
    /\ pc' = [pc EXCEPT ![r] = "idle"]
    /\ patch' = [patch EXCEPT ![r] = None]
    /\ working' = [working EXCEPT ![r] = [o \in OpIds |-> "pending"]]
    /\ report' = [report EXCEPT ![r] = NoReport]
    /\ id_map' = [id_map EXCEPT ![r] = NoIds]
    /\ current' = [current EXCEPT ![r] = None]

\* Another run wrote the same op after this transaction's ledger lookup: the
\* uniqueness constraint on AppliedOp.op_id aborts it, the error leaves
\* commit_patch and ends the run.
LedgerCollision(r) ==
    /\ pc[r] = "write"
    /\ current[r] \in ledger
    /\ Forget(r)
    /\ UNCHANGED graph

\* execute_write runs the transaction function again after a transient error: the
\* transaction is rolled back, but what apply has put into id_map stays there.
Retry(r, o) ==
    /\ pc[r] \in {"rebase", "write"}
    /\ o = current[r]
    /\ \/ UNCHANGED id_map
       \/ pc[r] = "write" /\ Register(r, o)
    /\ Goto(r, "loop")
    /\ current' = [current EXCEPT ![r] = None]
    /\ UNCHANGED <<graph, patch, working, report>>

\* commit_patch returns: every op of the patch is in the report.
Walked(r) == pc[r] = "loop" /\ Remaining(r) = {}

EngineStep(r) ==
    \/ \E o \in OpIds : \/ Skip(r, o) \/ Block(r, o)
                        \/ LedgerHit(r, o) \/ LedgerMiss(r, o)
                        \/ Apply(r, o) \/ Retry(r, o)
    \/ Requeue(r)
    \/ RebaseHolds(r)
    \/ LedgerCollision(r)
=============================================================================
