------------------------------ MODULE GateLoop ------------------------------
(***************************************************************************)
(* The part of the pipeline graph behind the stage node: the review gate   *)
(* and the commit node, which a run of the thread goes round until no op   *)
(* is left undecided (src/kgi/pipeline/graph.py).                          *)
(*                                                                         *)
(* A patch is diffed against canonical as it is by then and parked on a    *)
(* thread.  A run loads the thread's checkpoint, applies the reviewer's    *)
(* decisions, calls commit_patch and writes the next checkpoint.  A run    *)
(* may die between any two steps; the checkpoint is all that survives.     *)
(* Nothing in the code stops two processes from resuming the same thread   *)
(* (a terminal and the viewer board): Exclusive says whether the           *)
(* deployment does.                                                        *)
(***************************************************************************)
EXTENDS CommitEngine, FiniteSets

CONSTANTS
    Routes,     \* op_id -> the routes score_route may give it
    Exclusive   \* TRUE when at most one process runs a thread at a time

RouteTargets == {"auto_approve", "review", "auto_reject"}

ASSUME GateAssumption ==
    /\ Routes \in [OpIds -> SUBSET RouteTargets]
    /\ Exclusive \in BOOLEAN

\* What an edge of a patch names: a canonical entity, or an entity staged by an op
\* of the patch that the edge depends on.  Each staged entity has a temp id of its
\* own and one op that introduces it; what is reinforced is an edge.
FromDiff(o, ref) ==
    \/ ref \in NodeIds
    \/ \E d \in op[o].depends_on : IntroducesId(d) /\ op[d].temp_id = ref /\ ref \in TempIds

ASSUME DiffAssumption ==
    \A o \in OpIds :
        /\ op[o].kind = "AssertEdge" => FromDiff(o, op[o].subject) /\ FromDiff(o, op[o].object)
        /\ op[o].kind = "ReinforceEdge" => op[o].target \in EdgeIds
        /\ IntroducesId(o) =>
              \A d \in OpsOf(op[o].patch_id) :
                  IntroducesId(d) /\ op[d].temp_id = op[o].temp_id => d = o

\* The guards that resolve_node and correlate_relation give their ops: a new entity
\* asks that its name be absent, the closing of an edge that the edge be current;
\* and the graph the patches start from has no two entities of one name.
ASSUME GuardAssumption ==
    /\ \A o \in OpIds :
        /\ op[o].kind = "CreateNode" =>
              \E pre \in op[o].preconditions :
                  pre.kind = "name_absent" /\ pre.subject = op[o].name
        /\ op[o].kind = "InvalidateEdge" =>
              \E pre \in op[o].preconditions :
                  pre.kind = "edge_exists" /\ pre.subject = op[o].target
    /\ \A m, n \in Node0 : node0[m].name = node0[n].name => m = n

VARIABLES
    ckpt,       \* op_id -> status in the thread's last checkpoint
    at          \* patch_id -> the node the checkpoint will run next, "new" before
                \* the document is resolved

vars == <<engine, ckpt, at>>

GateTypeOK ==
    /\ EngineTypeOK
    /\ ckpt \in [OpIds -> Statuses]
    /\ at \in [PatchIds -> {"new", "review", "commit", "end"}]

\* score_route_node settles the ops that need no reviewer.
StatusOf(route) ==
    CASE route = "auto_approve" -> "approved"
      [] route = "auto_reject" -> "rejected"
      [] OTHER -> "pending"

\* needs_review: only review-routed ops can be pending after score_route.
Pending(p, status) == {o \in OpsOf(p) : status[o] = "pending"}
Undecided(p, status) == Pending(p, status) # {}

Init ==
    /\ EngineInit
    /\ ckpt \in [OpIds -> {"pending", "approved", "rejected"}]
    /\ \A o \in OpIds : \E route \in Routes[o] : ckpt[o] = StatusOf(route)
    /\ at = [p \in PatchIds |-> "new"]

-----------------------------------------------------------------------------
\* resolve_node looks up in canonical what the op merges into, reinforces or hangs
\* an edge on.
Refers(o) ==
    /\ op[o].kind = "MergeInto" => Live(op[o].target)
    /\ op[o].kind = "AssertEdge" =>
          \A ref \in {op[o].subject, op[o].object} : ref \in NodeIds => Live(ref)
    /\ op[o].kind = "ReinforceEdge" => EdgeTarget(o)

\* The ops of p are what a diff against canonical as it is now can give: what they
\* name is there, whoever put it there, and what they ask for holds.
Diffable(p) == \A o \in OpsOf(p) : Refers(o) /\ Rebased(o)

\* score_route and stage: the thread of the patch stands at the gate, or past it.
Begin(p) == at' = [at EXCEPT ![p] = IF Undecided(p, ckpt) THEN "review" ELSE "commit"]

\* The nodes up to the gate: the document is resolved into the patch.
Arrive(p) ==
    /\ at[p] = "new"
    /\ Diffable(p)
    /\ Begin(p)
    /\ UNCHANGED <<engine, ckpt>>

\* pipeline.invoke on the thread: the state comes from the checkpoint.
Resume(r, p) ==
    /\ pc[r] = "idle"
    /\ at[p] \in {"review", "commit"}
    /\ Exclusive => \A q \in RunIds : patch[q] # p
    /\ pc' = [pc EXCEPT ![r] = IF at[p] = "review" THEN "gate" ELSE "loop"]
    /\ patch' = [patch EXCEPT ![r] = p]
    /\ working' = [working EXCEPT ![r] = ckpt]
    /\ UNCHANGED <<graph, report, id_map, current, ckpt, at>>

\* review_node: each undecided op is accepted (force_merge and edit approve it
\* too), rejected, or deferred, which leaves it pending.  The checkpoint written
\* after the node has the decisions.
Decided(status, accepted, rejected) ==
    [o \in OpIds |-> IF o \in accepted THEN "approved"
                     ELSE IF o \in rejected THEN "rejected" ELSE status[o]]

OfPatch(p, s, other) == [o \in OpIds |-> IF o \in OpsOf(p) THEN s[o] ELSE other[o]]

Review(r) ==
    /\ pc[r] = "gate"
    /\ \E accepted, rejected \in SUBSET Pending(patch[r], working[r]) :
        /\ accepted \cap rejected = {}
        /\ LET s == Decided(working[r], accepted, rejected)
           IN  /\ working' = [working EXCEPT ![r] = s]
               /\ ckpt' = OfPatch(patch[r], s, ckpt)
    /\ at' = [at EXCEPT ![patch[r]] = "commit"]
    /\ Goto(r, "loop")
    /\ UNCHANGED <<graph, patch, report, id_map, current>>

Commit(r) == EngineStep(r) /\ UNCHANGED <<ckpt, at>>

\* The end of commit_node: the statuses are saved, and the run goes back to the
\* gate while an op is undecided.
Return(r) ==
    /\ Walked(r)
    /\ ckpt' = OfPatch(patch[r], working[r], ckpt)
    /\ at' = [at EXCEPT ![patch[r]] =
                IF Undecided(patch[r], working[r]) THEN "review" ELSE "end"]
    /\ Forget(r)
    /\ UNCHANGED graph

\* The process dies.  The checkpoint keeps the node it was in.
Crash(r) ==
    /\ pc[r] # "idle"
    /\ Forget(r)
    /\ UNCHANGED <<graph, ckpt, at>>

\* Every patch that could be made is closed and no run is left.
Done == /\ \A p \in PatchIds : at[p] = "end" \/ (at[p] = "new" /\ ~Diffable(p))
        /\ \A r \in RunIds : pc[r] = "idle"
        /\ UNCHANGED vars

Next ==
    \/ \E p \in PatchIds : Arrive(p)
    \/ \E r \in RunIds, p \in PatchIds : Resume(r, p)
    \/ \E r \in RunIds : Review(r) \/ Commit(r) \/ Return(r) \/ Crash(r)
    \/ Done

Spec == Init /\ [][Next]_vars

-----------------------------------------------------------------------------
(* What the engine and the gate promise. *)

\* No op is applied without the ops it depends on, whatever was rejected,
\* deferred or requeued, and however often the commit node was re-run
\* (commit_patch: the failed_deps set).
DependencyClosed == \A o \in ledger : op[o].depends_on \subseteq ledger

\* The canonical id a node reference of op o stands for: a temp id is the id
\* given by an op that introduces it in the same patch.
StandsFor(o, ref, n) ==
    IF ref \in TempIds
    THEN \E d \in OpsOf(op[o].patch_id) :
            /\ IntroducesId(d)
            /\ op[d].temp_id = ref
            /\ n = Introduced(d)
    ELSE n = ref

\* The ledger and the graph say the same: an op in the ledger left its fact
\* in the graph, with the right endpoints, and a fact minted by an op is there
\* only if the ledger has the op (apply and _write_ledger in one transaction,
\* MATCH ... MERGE never silently empty).
LedgerFaithful ==
    \A o \in OpIds :
        /\ op[o].kind = "CreateNode" =>
              (o \in ledger <=> node[Mint(o)] # None)
        /\ op[o].kind = "MergeInto" =>
              (o \in ledger <=> <<Mint(o), op[o].target>> \in aliases)
        /\ op[o].kind = "AssertEdge" =>
              (o \in ledger <=> edge[Mint(o)] # None)
        /\ op[o].kind = "AssertEdge" /\ o \in ledger =>
              /\ StandsFor(o, op[o].subject, edge[Mint(o)].subject)
              /\ StandsFor(o, op[o].object, edge[Mint(o)].object)

\* Support is counted once per reinforcing op, across crashes, re-runs and
\* two processes on one thread.
Reinforcements(e) == {o \in ledger : op[o].kind = "ReinforceEdge" /\ op[o].target = e}
SupportCounted ==
    \A e \in EdgeIds : edge[e] # None =>
        edge[e].support = (IF e \in Edge0 THEN edge0[e].support ELSE 1)
                          + Cardinality(Reinforcements(e))

\* _resolve never raises: when an edge is about to be written, every temp id it
\* names has been registered, by this walk or by a ledger hit of this walk.
RefsResolve ==
    \A r \in RunIds : pc[r] = "write" /\ op[current[r]].kind = "AssertEdge" =>
        /\ ResolveRef(r, op[current[r]].subject) # None
        /\ ResolveRef(r, op[current[r]].object) # None

\* A closed validity window is never opened again nor moved, and evidence is
\* never taken away (facts change only by closing windows).
HistoryKept ==
    [][\A e \in EdgeIds : edge[e] # None =>
          /\ edge'[e] # None
          /\ edge[e].valid_to # None => edge'[e].valid_to = edge[e].valid_to
          /\ edge'[e].support >= edge[e].support]_vars

\* What is written was re-verified: every precondition of an op holds in the
\* state its write lands on.
RebasedWrites == [][\A o \in ledger' \ ledger : Rebased(o)]_vars

\* No two canonical entities have one name (name_absent).
NoTwins == \A m, n \in NodeIds :
              Live(m) /\ Live(n) /\ node[m].name = node[n].name => m = n

\* The statuses saved with the patch are true: what a reviewer rejected or has
\* not decided, and what was requeued or blocked, is not in canonical; what is
\* called committed is.
StatusTruthful ==
    \A o \in OpIds :
        /\ ckpt[o] \in {"pending", "rejected", "requeued", "blocked"} => o \notin ledger
        /\ ckpt[o] = "committed" => o \in ledger

\* The gate and the engine, seen through the saved statuses and the ledger, are
\* the op lifecycle: an op is decided once, takes effect only while approved and
\* after its dependencies, and gets the verdict that is true of it.
Lifecycle == INSTANCE OpLifecycle
    WITH Ops <- OpIds, DependsOn <- [o \in OpIds |-> op[o].depends_on],
         status <- ckpt, applied <- ledger

ImplementsLifecycle == Lifecycle!Spec

\* An op is blocked because a dependency was rejected or requeued (or is itself
\* blocked).
BlockedByVerdict ==
    \A o \in OpIds : ckpt[o] = "blocked" =>
        \E d \in op[o].depends_on : ckpt[d] \in {"rejected", "requeued", "blocked"}

-----------------------------------------------------------------------------
(* The invariant that makes DependencyClosed, LedgerFaithful and            *)
(* RefsResolve inductive: what a run in the middle of its walk knows.       *)

\* A busy run has a patch and an idle one no memory; the report calls committed
\* only what the ledger has and the id_map knows, the id_map holds only ids that
\* ops of the patch introduce (if not yet in canonical: Retry), and an open
\* transaction is on an op of the patch all of whose dependencies this walk has
\* found committed.
RunInv(r) ==
    /\ pc[r] # "idle" => patch[r] \in PatchIds
    /\ pc[r] = "idle" => patch[r] = None /\ report[r] = NoReport /\ id_map[r] = NoIds
    /\ \A o \in OpIds : report[r][o] = "committed" =>
          /\ o \in ledger
          /\ IntroducesId(o) /\ op[o].temp_id \in TempIds => id_map[r][op[o].temp_id] # None
    /\ pc[r] \in {"rebase", "write"} =>
          /\ current[r] \in OpsOf(patch[r])
          /\ \A d \in op[current[r]].depends_on : report[r][d] = "committed"
    /\ \A t \in TempIds : id_map[r][t] # None =>
          \E d \in OpsOf(patch[r]) :
             /\ IntroducesId(d)
             /\ op[d].temp_id = t /\ id_map[r][t] = Introduced(d)

CallInv == \A r \in RunIds : RunInv(r)

\* What a patch was diffed against never disappears, and a run works on a patch
\* that was diffed.
DiffKept ==
    /\ \A p \in PatchIds : at[p] # "new" => \A o \in OpsOf(p) : Refers(o)
    /\ \A r \in RunIds : pc[r] # "idle" => at[patch[r]] # "new"

InductiveInv ==
    /\ GateTypeOK
    /\ CallInv
    /\ DiffKept
    /\ DependencyClosed
    /\ LedgerFaithful
=============================================================================
