--------------------------- MODULE IngestPipeline ---------------------------
(***************************************************************************)
(* The whole ingest path (src/kgi/pipeline/graph.py): a document is        *)
(* registered and checked against the intake lock, resolved into a patch,  *)
(* staged, reviewed, committed, marked as ingested and indexed.            *)
(*                                                                         *)
(* GateLoop is the part from the gate on; here are the nodes before it,    *)
(* the end of commit_node after commit_patch, the staging rows and the     *)
(* commands that start or resume a run (src/kgi/cli.py, the viewer).  Each *)
(* read or write of a store is a step of its own: runs of other documents, *)
(* or of the same one, go on in between, and a run may die there.          *)
(***************************************************************************)
EXTENDS GateLoop

CONSTANTS
    Docs,       \* documents, by content hash
    DocOf,      \* patch_id -> the document it comes from
    ThreadReuse \* TRUE when `kgi ingest` may be given the thread id of a run

ASSUME PipelineAssumption ==
    /\ DocOf \in [PatchIds -> Docs]
    /\ ThreadReuse \in BOOLEAN
    /\ None \notin {"pending", "committed"}

VARIABLES
    intake,     \* run -> what it does before the patch is staged, or None
    row,        \* patch_id -> status of its (:Patch) staging row, None before it is staged
    json,       \* op_id -> status in the row's json
    marked,     \* documents with a (:Document) node: ingested and committed
    opened,     \* patches whose undecided ops a reviewer has been shown
    indexed,    \* ops whose node or edge is in the vector store
    decisions,  \* <<op_id, action>> pairs with a (:ReviewDecision) node
    given,      \* run -> the reviewer's decisions it was resumed with, or None
    tail        \* run -> how far commit_node is after commit_patch

stores == <<row, json, opened, marked, indexed, decisions>>
pipeline == <<vars, intake, stores, given, tail>>

Nodes == {"parse", "lock", "resolve", "stage"}
Intakes == [node : Nodes, doc : Docs, patch : PatchIds \cup {None}]

Actions == {"accept", "reject"}

PipelineTypeOK ==
    /\ GateTypeOK
    /\ intake \in [RunIds -> Intakes \cup {None}]
    /\ row \in [PatchIds -> {"pending", "requeued", "committed", None}]
    /\ json \in [OpIds -> Statuses]
    /\ opened \in SUBSET PatchIds
    /\ marked \in SUBSET Docs
    /\ indexed \in SUBSET OpIds
    /\ decisions \in SUBSET (OpIds \X Actions)
    /\ given \in [RunIds -> [accept : SUBSET OpIds, reject : SUBSET OpIds] \cup {None}]
    /\ tail \in [RunIds -> {"walk", "saved", "marked"}]

PipelineInit ==
    /\ Init
    /\ intake = [r \in RunIds |-> None]
    /\ row = [p \in PatchIds |-> None]
    /\ json = ckpt
    /\ opened = {}
    /\ marked = {}
    /\ indexed = {}
    /\ decisions = {}
    /\ given = [r \in RunIds |-> None]
    /\ tail = [r \in RunIds |-> "walk"]

Free(r) == pc[r] = "idle" /\ intake[r] = None

-----------------------------------------------------------------------------
(* From the document to the staged patch. *)

\* `kgi ingest`: a new input starts the graph at its first node, also on the
\* thread of an earlier run.  The thread's checkpoint is that of the new input from
\* then on: the place where the earlier run was parked is gone.
Ingest(r, d, thread) ==
    /\ Free(r)
    /\ thread # None => ThreadReuse /\ row[thread] # None /\ \A q \in RunIds : patch[q] # thread
    /\ intake' = [intake EXCEPT ![r] = [node |-> "parse", doc |-> d, patch |-> None]]
    /\ at' = IF thread = None THEN at ELSE [at EXCEPT ![thread] = "end"]
    /\ UNCHANGED <<engine, ckpt, stores, given, tail>>

At(r, n) == intake[r] # None /\ intake[r].node = n
Advance(r, n) == intake' = [intake EXCEPT ![r].node = n]

\* is_duplicate: "skip".
End(r) ==
    /\ intake' = [intake EXCEPT ![r] = None]
    /\ UNCHANGED <<vars, stores, given, tail>>

\* parse_node, first read: document_committed.
Duplicate(r) == At(r, "parse") /\ intake[r].doc \in marked /\ End(r)

\* Fault: the document node is not looked up.
NotCommittedUnchecked(r) ==
    /\ At(r, "parse")
    /\ Advance(r, "lock")
    /\ UNCHANGED <<vars, stores, given, tail>>

NotCommitted(r) ==
    /\ At(r, "parse")
    /\ intake[r].doc \notin marked
    /\ Advance(r, "lock")
    /\ UNCHANGED <<vars, stores, given, tail>>

\* parse_node, second read: pending_patch_for_doc.
PendingFor(d) == \E p \in PatchIds : DocOf[p] = d /\ row[p] = "pending"

InFlight(r) == At(r, "lock") /\ PendingFor(intake[r].doc) /\ End(r)

\* Fault: the pending patches are not looked up.
NotInFlightUnchecked(r) ==
    /\ At(r, "lock")
    /\ Advance(r, "resolve")
    /\ UNCHANGED <<vars, stores, given, tail>>

NotInFlight(r) ==
    /\ At(r, "lock")
    /\ ~PendingFor(intake[r].doc)
    /\ Advance(r, "resolve")
    /\ UNCHANGED <<vars, stores, given, tail>>

\* decompose .. score_route: a patch of the document, diffed against canonical as
\* it is now.  It is made again if the run that made it died before its stage.
Resolve(r, p) ==
    /\ At(r, "resolve")
    /\ DocOf[p] = intake[r].doc
    /\ row[p] = None
    /\ \A q \in RunIds : intake[q] # None => intake[q].patch # p
    /\ \/ Arrive(p)
       \/ at[p] # "new" /\ Diffable(p) /\ UNCHANGED vars
    /\ intake' = [intake EXCEPT ![r].node = "stage", ![r].patch = p]
    /\ UNCHANGED <<stores, given, tail>>

\* stage_node, and the branch of needs_review: the run parks at the gate (its
\* process ends) or goes on into the commit node.
Stage(r) ==
    /\ At(r, "stage")
    /\ LET p == intake[r].patch
           parks == at[p] = "review"
       IN  /\ row' = [row EXCEPT ![p] = "pending"]
           /\ json' = OfPatch(p, ckpt, json)
           /\ opened' = IF parks THEN opened \cup {p} ELSE opened
           /\ pc' = [pc EXCEPT ![r] = IF parks THEN "idle" ELSE "loop"]
           /\ patch' = [patch EXCEPT ![r] = IF parks THEN None ELSE p]
           /\ working' = [working EXCEPT ![r] = IF parks THEN @ ELSE ckpt]
    /\ intake' = [intake EXCEPT ![r] = None]
    /\ UNCHANGED <<graph, report, id_map, current, ckpt, at, marked, indexed, decisions, given, tail>>

-----------------------------------------------------------------------------
(* The gate. *)

\* `kgi review` and the board: both offer the ops of a staging row that await
\* review, and when the reviewer is done with them, however much later, resume
\* the thread stored with the patch with the decisions (edit and force_merge
\* accept); an op without one is deferred.
ReviewCommand(r, p) ==
    /\ Free(r)
    /\ p \in opened
    /\ Resume(r, p)
    /\ \E accepted, rejected \in SUBSET Pending(p, json) :
        /\ accepted \cap rejected = {}
        /\ given' = [given EXCEPT ![r] =
                        IF at[p] = "review" THEN [accept |-> accepted, reject |-> rejected]
                        ELSE None]
    /\ UNCHANGED <<intake, stores, tail>>

\* The decisions of run r as review_node saves them; what is no longer pending in
\* the run's state is passed over.
Heard(r) ==
    LET pending == Pending(patch[r], working[r])
    IN  ((given[r].accept \cap pending) \X {"accept"})
        \cup ((given[r].reject \cap pending) \X {"reject"})

\* save_decision, one decision after the other.
SaveDecision(r) ==
    /\ pc[r] = "gate"
    /\ \E d \in Heard(r) \ decisions : decisions' = decisions \cup {d}
    /\ UNCHANGED <<vars, intake, row, json, opened, marked, indexed, given, tail>>

\* Fault: the node returns before the decisions are saved.
ReviewReturnsUnsaved(r) ==
    /\ Review(r)
    /\ \A o \in Pending(patch[r], working[r]) :
        working'[r][o] = CASE o \in given[r].accept -> "approved"
                           [] o \in given[r].reject -> "rejected"
                           [] OTHER -> "pending"
    /\ given' = [given EXCEPT ![r] = None]
    /\ UNCHANGED <<intake, stores, tail>>

\* review_node returns, and its checkpoint is written: only now do the decisions
\* count.
ReviewReturns(r) ==
    /\ Review(r)
    /\ Heard(r) \subseteq decisions
    /\ \A o \in Pending(patch[r], working[r]) :
        working'[r][o] = CASE o \in given[r].accept -> "approved"
                           [] o \in given[r].reject -> "rejected"
                           [] OTHER -> "pending"
    /\ given' = [given EXCEPT ![r] = None]
    /\ UNCHANGED <<intake, stores, tail>>

-----------------------------------------------------------------------------
(* commit_node. *)

CommitPatch(r) == Commit(r) /\ UNCHANGED <<intake, stores, given, tail>>

Reported(r, outcome) == \E o \in OpIds : report[r][o] = outcome

\* Fault: a patch that waits for its reviewer gets a status of its own.
RowStatusDeferred(r) ==
    IF Undecided(patch[r], working[r]) THEN "deferred"
    ELSE IF Reported(r, "requeued") THEN "requeued" ELSE "committed"

\* Fault: the deferred ops are forgotten.
RowStatusDecided(r) == IF Reported(r, "requeued") THEN "requeued" ELSE "committed"

\* save_patch with the status this pass gives the patch.
RowStatus(r) ==
    IF Undecided(patch[r], working[r]) THEN "pending"
    ELSE IF Reported(r, "requeued") THEN "requeued" ELSE "committed"

\* Fault: the row's status is set, its json is not saved again.
SavePatchStatusOnly(r) ==
    /\ Walked(r)
    /\ tail[r] = "walk"
    /\ row' = [row EXCEPT ![patch[r]] = RowStatus(r)]
    /\ tail' = [tail EXCEPT ![r] = "saved"]
    /\ UNCHANGED <<vars, intake, json, opened, marked, indexed, decisions, given>>

SavePatch(r) ==
    /\ Walked(r)
    /\ tail[r] = "walk"
    /\ row' = [row EXCEPT ![patch[r]] = RowStatus(r)]
    /\ json' = OfPatch(patch[r], working[r], json)
    /\ tail' = [tail EXCEPT ![r] = "saved"]
    /\ UNCHANGED <<vars, intake, opened, marked, indexed, decisions, given>>

\* mark_document_committed, when this pass requeued nothing and nothing is left.
MarkDocument(r) ==
    /\ tail[r] = "saved"
    /\ marked' = IF RowStatus(r) = "committed" THEN marked \cup {DocOf[patch[r]]} ELSE marked
    /\ tail' = [tail EXCEPT ![r] = "marked"]
    /\ UNCHANGED <<vars, intake, row, json, opened, indexed, decisions, given>>

\* Fault: the edge from the commit node leads to the end, never to the gate.
IndexAndEnd(r) ==
    /\ tail[r] = "marked"
    /\ indexed' = IF Reported(r, "committed") THEN indexed \cup (ledger \cap OpsOf(patch[r]))
                  ELSE indexed
    /\ ckpt' = OfPatch(patch[r], working[r], ckpt)
    /\ at' = [at EXCEPT ![patch[r]] = "end"]
    /\ Forget(r)
    /\ tail' = [tail EXCEPT ![r] = "walk"]
    /\ UNCHANGED <<graph, intake, row, json, opened, marked, decisions, given>>

\* The vector upserts: everything the ledger says the patch wrote.  Then the node
\* returns and the thread's checkpoint is written.
IndexAndReturn(r) ==
    /\ tail[r] = "marked"
    /\ indexed' = IF Reported(r, "committed") THEN indexed \cup (ledger \cap OpsOf(patch[r]))
                  ELSE indexed
    /\ Return(r)
    /\ tail' = [tail EXCEPT ![r] = "walk"]
    /\ UNCHANGED <<intake, row, json, opened, marked, decisions, given>>

-----------------------------------------------------------------------------
\* The process dies, before or after the patch was staged.
Die(r) ==
    /\ ~Free(r)
    /\ intake' = [intake EXCEPT ![r] = None]
    /\ given' = [given EXCEPT ![r] = None]
    /\ tail' = [tail EXCEPT ![r] = "walk"]
    /\ IF pc[r] = "idle" THEN UNCHANGED vars ELSE Crash(r)
    /\ UNCHANGED stores

PipelineStep(r) ==
    \/ Duplicate(r) \/ NotCommitted(r) \/ InFlight(r) \/ NotInFlight(r)
    \/ \E p \in PatchIds : Resolve(r, p)
    \/ Stage(r)
    \/ CommitPatch(r)
    \/ SavePatch(r)
    \/ MarkDocument(r)
    \/ IndexAndReturn(r)

PipelineNext ==
    \E r \in RunIds :
        \/ \E d \in Docs, thread \in PatchIds \cup {None} : Ingest(r, d, thread)
        \/ \E p \in PatchIds : ReviewCommand(r, p)
        \/ SaveDecision(r) \/ ReviewReturns(r)
        \/ PipelineStep(r)
        \/ Die(r)

PipelineSpec == PipelineInit /\ [][PipelineNext]_pipeline

\* A run that is not killed goes on; a reviewer who is offered ops again and again
\* in the end decides them all; and a patch that `kgi review` has nothing to ask
\* about is looked after with the only command that is left, `kgi ingest` on its
\* thread (where ThreadReuse allows it).
DecideAll(p) ==
    \E r \in RunIds :
        /\ Undecided(p, json)
        /\ ReviewCommand(r, p)
        /\ given'[r] # None => Pending(p, json) = given'[r].accept \cup given'[r].reject

FairPipelineSpec ==
    /\ PipelineSpec
    /\ \A r \in RunIds : WF_pipeline(PipelineStep(r) \/ SaveDecision(r) \/ ReviewReturns(r))
    /\ \A p \in PatchIds :
        /\ SF_pipeline(DecideAll(p))
        /\ SF_pipeline(\E r \in RunIds : row[p] = "pending" /\ Ingest(r, DocOf[p], p))

-----------------------------------------------------------------------------
(* What the ingest path promises. *)

\* Behind its intake the pipeline is the gate loop: no node before the gate and
\* no write of commit_node after commit_patch disturbs what was reviewed and
\* applied, so what is proved of GateLoop holds of the pipeline.
ImplementsGateLoop == Spec

\* The intake lock: one document has at most one patch that is staged and not
\* closed (two would race at commit).
OnePending ==
    \A p, q \in PatchIds :
        row[p] = "pending" /\ row[q] = "pending" /\ DocOf[p] = DocOf[q] => p = q

\* An ingested document is never staged again.
IngestedOnce ==
    [][\A p \in PatchIds : row[p] = None /\ row'[p] # None => DocOf[p] \notin marked]_pipeline

\* A document counts as ingested only when a patch of it is closed: every op has
\* its final verdict, and what was approved is in canonical or was held back for
\* a reason.
MarkedClosed ==
    \A d \in marked : \E p \in PatchIds :
        /\ DocOf[p] = d
        /\ row[p] = "committed"
        /\ \A o \in OpsOf(p) : json[o] \notin {"pending", "approved"}

\* What the reviewer is shown is what the gate asks: when a patch is parked, the
\* undecided ops of its staging row are those of the thread's checkpoint.
BoardMatchesGate ==
    \A p \in PatchIds :
        row[p] # None /\ at[p] = "review" /\ (\A r \in RunIds : patch[r] # p) =>
            /\ row[p] = "pending"
            /\ Pending(p, json) = Pending(p, ckpt)

\* The audit trail is complete: an op is in canonical because routing let it
\* through unseen, or because a recorded decision accepted it.
AuditTrail ==
    \A o \in ledger :
        \/ <<o, "accept">> \in decisions
        \/ "auto_approve" \in Routes[o] /\ \A a \in Actions : <<o, a>> \notin decisions

\* A document is ingested only if none of its ops is left requeued: a requeued op
\* goes back through resolution.
NoneLeftRequeued ==
    \A d \in marked : \A p \in PatchIds :
        DocOf[p] = d /\ row[p] = "committed" => \A o \in OpsOf(p) : json[o] # "requeued"

\* From some time on processes do not die and the database works.  (A step is a
\* death if it is not the skip of a duplicate, which leaves the same state.)
DeathsStop ==
    <>[][\A r \in RunIds : /\ Die(r) => Duplicate(r) \/ InFlight(r)
                           /\ \A o \in OpIds : ~Retry(r, o)]_pipeline

\* A parked patch is carried to its end: as long as its row has an op to decide,
\* wherever earlier runs on its thread were killed and however often ops were
\* deferred, `kgi review` leads to a pass that closes it.
ReviewedPatchCloses ==
    DeathsStop =>
        \A p \in PatchIds :
            (row[p] = "pending" /\ Undecided(p, json)) ~> (row[p] # "pending")

\* A run that was killed in the commit node, when its row has no op to decide, is
\* carried to its end by somebody who gives `kgi ingest` the id of its thread again.
KilledRunResumes ==
    DeathsStop =>
        \A p \in PatchIds :
            (row[p] = "pending" /\ at[p] = "commit" /\ ~Undecided(p, json))
                ~> (row[p] # "pending")
=============================================================================
