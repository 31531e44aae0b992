------------------------ MODULE IngestPipelineProofs ------------------------
(***************************************************************************)
(* Theorems about the whole ingest path, for any number of documents,      *)
(* patches and ops: that it implements the gate loop (so that GateLoop's   *)
(* theorems are theorems about it), that the audit trail is complete, and  *)
(* that a single process ingests each document at most once.               *)
(***************************************************************************)
EXTENDS IngestPipeline, GateLoopProofs

\* The nodes before the gate.
FrontStep(r) ==
    \/ \E d \in Docs, thread \in PatchIds \cup {None} : Ingest(r, d, thread)
    \/ Duplicate(r) \/ NotCommitted(r) \/ InFlight(r) \/ NotInFlight(r)
    \/ \E p \in PatchIds : Resolve(r, p)

\* A node before the gate moves the run's intake and the place of a thread.
LEMMA FrontFrame ==
    ASSUME NEW r \in RunIds, FrontStep(r)
    PROVE  UNCHANGED <<engine, ckpt, stores, given, tail>>
  BY DEF FrontStep, Ingest, Duplicate, InFlight, End, NotCommitted, NotInFlight, Resolve,
     Arrive, vars

\* A row that is saved has a status.
LEMMA RowStatusFacts ==
    \A r : /\ RowStatus(r) \in {"pending", "requeued", "committed"}
           /\ RowStatus(r) # None
  BY EngineAssumption, PipelineAssumption DEF RowStatus

-----------------------------------------------------------------------------
(* The pipeline implements the gate loop. *)

\* A run before the gate works for nobody else; the patch it is going to stage has
\* been made and is its own, and what is not staged yet has not been run, parked or
\* closed.
Staging ==
    /\ intake \in [RunIds -> Intakes \cup {None}]
    /\ row \in [PatchIds -> {"pending", "requeued", "committed", None}]
    /\ \A r \in RunIds : intake[r] # None =>
        /\ pc[r] = "idle"
        /\ intake[r].node = "stage" => intake[r].patch # None
        /\ intake[r].patch # None =>
            /\ row[intake[r].patch] = None
            /\ at[intake[r].patch] # "new"
            /\ \A q \in RunIds \ {r} : intake[q] # None => intake[q].patch # intake[r].patch
    /\ \A p \in PatchIds : row[p] = None =>
        /\ p \notin opened
        /\ at[p] # "end"
        /\ \A q \in RunIds : patch[q] # p

LEMMA StagingInit == PipelineInit => Staging
  <1> SUFFICES ASSUME PipelineInit PROVE Staging
    OBVIOUS
  <1>1. \A p \in PatchIds : at[p] # "end"
    BY DEF PipelineInit, Init
  <1>2. \A p \in PatchIds, q \in RunIds : patch[q] # p
    BY EngineAssumption DEF PipelineInit, Init, EngineInit
  <1> QED
    BY <1>1, <1>2 DEF PipelineInit, Staging

\* Where nothing is staged, what is left to show of a step.
LEMMA StagingFrame ==
    ASSUME GateTypeOK, Staging, UNCHANGED <<intake, row, opened>>,
           \A q \in RunIds : intake[q] # None => pc'[q] = "idle",
           \A p \in PatchIds : row[p] = None => at'[p] = at[p],
           \A q \in RunIds : \/ patch'[q] = patch[q]
                             \/ patch'[q] = None
                             \/ row[patch'[q]] # None
    PROVE  Staging'
  <1>1. \A p \in PatchIds : row[p] = None => \A q \in RunIds : patch'[q] # p
    BY EngineAssumption DEF Staging
  <1>2. \A q \in RunIds : intake[q] # None /\ intake[q].patch # None
            => intake[q].patch \in PatchIds
    BY DEF Staging, Intakes
  <1> QED
    BY <1>1, <1>2 DEF Staging

\* A step before the gate only moves the run's intake, or makes the patch.
LEMMA FrontRefines ==
    ASSUME ~ThreadReuse, GateTypeOK, Staging, NEW r \in RunIds, FrontStep(r)
    PROVE  Staging' /\ (UNCHANGED vars \/ \E p \in PatchIds : row[p] = None /\ Arrive(p))
  <1> DEFINE i == intake[r]
  <1>1. ASSUME NEW d \in Docs, NEW thread \in PatchIds \cup {None}, Ingest(r, d, thread)
        PROVE  Staging' /\ UNCHANGED vars
    <2> DEFINE new == [node |-> "parse", doc |-> d, patch |-> None]
    <2>1. UNCHANGED <<engine, ckpt, row, opened>> /\ intake' = [intake EXCEPT ![r] = new]
      BY <1>1 DEF Ingest, stores
    <2>2. thread = None /\ pc[r] = "idle"
      BY <1>1 DEF Ingest, Free
    <2>3. UNCHANGED at
      BY <1>1, <2>2 DEF Ingest
    <2>4. new \in Intakes /\ new.patch = None /\ new.node = "parse"
      BY DEF Intakes, Nodes
    <2> HIDE DEF new
    <2>5. UNCHANGED <<pc, patch>>
      BY <2>1 DEF engine, call
    <2> QED
      BY <2>1, <2>2, <2>3, <2>4, <2>5 DEF Staging, vars
  <1>2. CASE Duplicate(r) \/ InFlight(r)
    <2>1. UNCHANGED <<vars, row, opened>> /\ intake' = [intake EXCEPT ![r] = None]
      BY <1>2 DEF Duplicate, InFlight, End, stores
    <2>2. UNCHANGED <<pc, patch, at>>
      BY <2>1 DEF vars, engine, call
    <2> QED
      BY <2>1, <2>2 DEF Staging
  <1>3. ASSUME NEW n \in {"lock", "resolve"}, i # None, Advance(r, n),
               UNCHANGED <<vars, stores>>
        PROVE  Staging' /\ UNCHANGED vars
    <2> DEFINE new == [intake[r] EXCEPT !.node = n]
    <2>1. intake' = [intake EXCEPT ![r] = new]
      BY <1>3 DEF Advance
    <2>2. i \in Intakes
      BY <1>3 DEF Staging
    <2>3. new \in Intakes /\ new.node = n /\ new.patch = i.patch
      BY <2>2 DEF Intakes, Nodes
    <2> HIDE DEF new
    <2>4. UNCHANGED <<pc, patch, at, row, opened>>
      BY <1>3 DEF vars, engine, call, stores
    <2> QED
      BY <1>3, <2>1, <2>3, <2>4 DEF Staging
  <1>4. CASE NotCommitted(r)
    BY <1>3, <1>4 DEF NotCommitted, At
  <1>5. CASE NotInFlight(r)
    BY <1>3, <1>5 DEF NotInFlight, At
  <1>6. ASSUME NEW p \in PatchIds, Resolve(r, p)
        PROVE  Staging' /\ (UNCHANGED vars \/ (row[p] = None /\ Arrive(p)))
    <2> DEFINE new == [[intake[r] EXCEPT !.node = "stage"] EXCEPT !.patch = p]
    <2>1. /\ UNCHANGED <<row, opened>> /\ i # None /\ row[p] = None
          /\ \A q \in RunIds : intake[q] # None => intake[q].patch # p
          /\ Arrive(p) \/ (at[p] # "new" /\ UNCHANGED vars)
      BY <1>6 DEF Resolve, At, stores
    <2>2. i \in Intakes
      BY <2>1 DEF Staging
    <2>3. intake' = [intake EXCEPT ![r] = new]
      BY <1>6, <2>2 DEF Resolve, Staging, Intakes
    <2>4. new \in Intakes /\ new.node = "stage" /\ new.patch = p
      BY <2>2 DEF Intakes, Nodes
    <2> HIDE DEF new
    <2>5. /\ UNCHANGED <<pc, patch>>
          /\ at'[p] \notin {"new", "end"}
          /\ \A q \in PatchIds : q # p => at'[q] = at[q]
      BY <2>1 DEF Arrive, Begin, vars, engine, call, GateTypeOK, Staging
    <2>6. p # None
      BY EngineAssumption
    <2>7. \A q \in RunIds \ {r} : intake[q] # None /\ intake[q].patch # None
            => intake[q].patch \in PatchIds
      BY DEF Staging, Intakes
    <2> QED
      BY <2>1, <2>3, <2>4, <2>5, <2>6, <2>7 DEF Staging
  <1> QED
    BY <1>1, <1>2, <1>4, <1>5, <1>6 DEF FrontStep

\* Staging a patch that needs no reviewer enters the commit node as a resumed
\* thread does; parking one leaves the gate loop as it is.
LEMMA StageRefines ==
    ASSUME GateTypeOK, CallInv, Staging, NEW r \in RunIds, Stage(r)
    PROVE  Staging' /\ (UNCHANGED vars \/ \E p \in PatchIds : Resume(r, p))
  <1> DEFINE p == intake[r].patch
  <1>1. /\ intake[r] # None /\ intake[r].node = "stage"
        /\ p \in PatchIds /\ row[p] = None /\ at[p] # "new"
        /\ \A q \in RunIds \ {r} : intake[q] # None => intake[q].patch # p
    <2>1. intake[r] # None /\ intake[r].node = "stage"
      BY DEF Stage, At
    <2>2. intake[r] \in Intakes /\ p # None
      BY <2>1 DEF Staging
    <2>3. p \in PatchIds
      BY <2>2 DEF Intakes
    <2> QED
      BY <2>1, <2>2, <2>3 DEF Staging
  <1>2. /\ pc[r] = "idle" /\ patch[r] = None
        /\ at[p] # "end" /\ \A q \in RunIds : patch[q] # p
    BY <1>1 DEF Staging, CallInv, RunInv
  <1>3. /\ row' = [row EXCEPT ![p] = "pending"]
        /\ intake' = [intake EXCEPT ![r] = None]
        /\ UNCHANGED <<graph, report, id_map, current, ckpt, at>>
    BY DEF Stage
  <1>4. opened' = opened \/ opened' = opened \cup {p}
    BY DEF Stage
  <1>5. CASE at[p] = "review"
    <2>1. UNCHANGED vars
      BY <1>2, <1>3, <1>5 DEF Stage, GateTypeOK, EngineTypeOK, vars, engine, call
    <2>2. UNCHANGED <<pc, patch, at>>
      BY <2>1 DEF vars, engine, call
    <2> HIDE DEF p
    <2>3. Staging'
      BY <1>1, <1>3, <1>4, <2>2, PipelineAssumption DEF Staging
    <2> QED
      BY <2>1, <2>3
  <1>6. CASE at[p] # "review"
    <2>1. /\ pc' = [pc EXCEPT ![r] = "loop"] /\ patch' = [patch EXCEPT ![r] = p]
          /\ working' = [working EXCEPT ![r] = ckpt]
      BY <1>6 DEF Stage
    <2>2. Resume(r, p)
      BY <1>1, <1>2, <1>3, <1>6, <2>1 DEF Resume, GateTypeOK
    <2> HIDE DEF p
    <2>3. Staging'
      BY <1>1, <1>2, <1>3, <1>4, <2>1, PipelineAssumption
         DEF Staging, GateTypeOK, EngineTypeOK
    <2> QED
      BY <1>1, <2>2, <2>3
  <1> QED
    BY <1>5, <1>6

\* The gate, the commit node and a death are steps of the gate loop, the writes of
\* commit_node after commit_patch none.
LEMMA BackRefines ==
    ASSUME GateTypeOK, CallInv, Staging, NEW r \in RunIds,
           \/ \E p \in PatchIds : ReviewCommand(r, p)
           \/ SaveDecision(r) \/ ReviewReturns(r) \/ CommitPatch(r) \/ SavePatch(r)
           \/ MarkDocument(r) \/ IndexAndReturn(r) \/ Die(r)
    PROVE  Staging' /\ [Next]_vars
  <1> USE DEF GateTypeOK
  <1>1. ASSUME NEW p \in PatchIds, ReviewCommand(r, p) PROVE Staging' /\ [Next]_vars
    <2>1. /\ Resume(r, p) /\ p \in opened /\ UNCHANGED <<intake, row, opened>>
          /\ intake[r] = None
      BY <1>1 DEF ReviewCommand, stores, Free
    <2>2. row[p] # None
      BY <2>1 DEF Staging
    <2>3. /\ patch' = [patch EXCEPT ![r] = p] /\ at' = at
          /\ \A q \in RunIds \ {r} : pc'[q] = pc[q]
      BY <2>1 DEF Resume, EngineTypeOK
    <2>4. \A q \in RunIds : intake[q] # None => pc'[q] = "idle"
      BY <2>1, <2>3 DEF Staging
    <2>5. \A q \in RunIds : patch'[q] = patch[q] \/ row[patch'[q]] # None
      BY <2>2, <2>3 DEF EngineTypeOK
    <2> QED
      BY <2>1, <2>3, <2>4, <2>5, StagingFrame DEF Next
  <1>2. ASSUME UNCHANGED <<vars, intake, opened>>,
               \/ UNCHANGED row
               \/ \E p \in PatchIds : row[p] # None /\ row' = [row EXCEPT ![p] = RowStatus(r)]
        PROVE  Staging' /\ [Next]_vars
    <2>1. UNCHANGED <<pc, patch, at>>
      BY <1>2 DEF vars, engine, call
    <2>2. CASE UNCHANGED row
      BY <1>2, <2>1, <2>2 DEF Staging
    <2>3. ASSUME NEW p \in PatchIds, row[p] # None, row' = [row EXCEPT ![p] = RowStatus(r)]
          PROVE  Staging'
      <3>1. /\ RowStatus(r) \in {"pending", "requeued", "committed"}
            /\ RowStatus(r) # None
        BY RowStatusFacts
      <3>2. /\ row' \in [PatchIds -> {"pending", "requeued", "committed", None}]
            /\ \A q \in PatchIds : row'[q] = None <=> row[q] = None
        BY <2>3, <3>1 DEF Staging
      <3>3. \A q \in RunIds : intake[q] # None /\ intake[q].patch # None
                => intake[q].patch \in PatchIds
        BY DEF Staging, Intakes
      <3> QED
        BY <1>2, <2>1, <3>2, <3>3 DEF Staging
    <2> QED
      BY <1>2, <2>2, <2>3
  <1>3. CASE SaveDecision(r) \/ MarkDocument(r)
    BY <1>2, <1>3 DEF SaveDecision, MarkDocument
  <1>4. CASE SavePatch(r)
    <2>1. patch[r] \in PatchIds
      BY <1>4 DEF SavePatch, Walked, CallInv, RunInv
    <2>2. row[patch[r]] # None
      BY <2>1 DEF Staging
    <2> QED
      BY <1>2, <1>4, <2>1, <2>2 DEF SavePatch
  <1>5. CASE ReviewReturns(r)
    <2>1. Review(r) /\ UNCHANGED <<intake, row, opened>>
      BY <1>5 DEF ReviewReturns, stores
    <2>2. /\ pc[r] = "gate" /\ patch' = patch /\ \A q \in RunIds \ {r} : pc'[q] = pc[q]
          /\ \A p \in PatchIds : p # patch[r] => at'[p] = at[p]
      BY <2>1 DEF Review, Goto, EngineTypeOK
    <2>3. intake[r] = None
      BY <2>2 DEF Staging
    <2>4. \A p \in PatchIds : row[p] = None => at'[p] = at[p]
      BY <2>2 DEF Staging
    <2>5. \A q \in RunIds : intake[q] # None => pc'[q] = "idle"
      BY <2>2, <2>3 DEF Staging
    <2> QED
      BY <2>1, <2>2, <2>4, <2>5, StagingFrame DEF Next
  <1>6. CASE CommitPatch(r)
    <2>1. Commit(r) /\ UNCHANGED <<intake, row, opened, at>>
      BY <1>6 DEF CommitPatch, Commit, stores
    <2>2. /\ pc[r] # "idle"
          /\ \A q \in RunIds : patch'[q] = patch[q] \/ patch'[q] = None
          /\ \A q \in RunIds \ {r} : pc'[q] = pc[q]
      BY <2>1, EngineFrame DEF Commit
    <2>3. \A q \in RunIds : intake[q] # None => pc'[q] = "idle"
      BY <2>2 DEF Staging
    <2> QED
      BY <2>1, <2>2, <2>3, StagingFrame DEF Next
  <1>7. CASE IndexAndReturn(r)
    <2>1. Return(r) /\ UNCHANGED <<intake, row, opened>>
      BY <1>7 DEF IndexAndReturn, stores
    <2>2. /\ pc[r] = "loop" /\ \A q \in RunIds \ {r} : pc'[q] = pc[q]
          /\ \A q \in RunIds : patch'[q] = patch[q] \/ patch'[q] = None
          /\ \A p \in PatchIds : p # patch[r] => at'[p] = at[p]
      BY <2>1 DEF Return, Walked, Forget, EngineTypeOK
    <2>3. intake[r] = None
      BY <2>2 DEF Staging
    <2>4. \A p \in PatchIds : row[p] = None => at'[p] = at[p]
      BY <2>2 DEF Staging
    <2>5. \A q \in RunIds : intake[q] # None => pc'[q] = "idle"
      BY <2>2, <2>3 DEF Staging
    <2> QED
      BY <2>1, <2>2, <2>4, <2>5, StagingFrame DEF Next
  <1>8. CASE Die(r)
    <2>1. intake' = [intake EXCEPT ![r] = None] /\ UNCHANGED <<row, opened>>
      BY <1>8 DEF Die, stores
    <2>2. CASE pc[r] = "idle"
      <3>1. UNCHANGED vars
        BY <1>8, <2>2 DEF Die
      <3>2. UNCHANGED <<pc, patch, at>>
        BY <3>1 DEF vars, engine, call
      <3> QED
        BY <2>1, <3>1, <3>2 DEF Staging
    <2>3. CASE pc[r] # "idle"
      <3>1. Crash(r)
        BY <1>8, <2>3 DEF Die
      <3>2. /\ at' = at /\ \A q \in RunIds \ {r} : pc'[q] = pc[q]
            /\ \A q \in RunIds : patch'[q] = patch[q] \/ patch'[q] = None
        BY <3>1 DEF Crash, Forget, EngineTypeOK
      <3>3. intake[r] = None
        BY <2>3 DEF Staging
      <3>4. intake' = intake
        BY <2>1, <3>3 DEF Staging
      <3>5. \A q \in RunIds : intake[q] # None => pc'[q] = "idle"
        BY <3>2, <3>3 DEF Staging
      <3> QED
        BY <2>1, <3>1, <3>2, <3>4, <3>5, StagingFrame DEF Next
    <2> QED
      BY <2>2, <2>3
  <1> QED
    BY <1>1, <1>3, <1>4, <1>5, <1>6, <1>7, <1>8

\* Every step of the pipeline is a step of the gate loop or leaves it alone.
LEMMA StepRefines ==
    ASSUME ~ThreadReuse, InductiveInv, Staging, [PipelineNext]_pipeline
    PROVE  Staging' /\ [Next]_vars
  <1> USE DEF InductiveInv
  <1>1. CASE UNCHANGED pipeline
    BY <1>1 DEF pipeline, stores, vars, engine, call, Staging
  <1>2. ASSUME NEW r \in RunIds, FrontStep(r) PROVE Staging' /\ [Next]_vars
    BY <1>2, FrontRefines DEF Next
  <1>3. ASSUME NEW r \in RunIds, Stage(r) PROVE Staging' /\ [Next]_vars
    BY <1>3, StageRefines DEF Next
  <1>4. ASSUME NEW r \in RunIds,
               \/ \E p \in PatchIds : ReviewCommand(r, p)
               \/ SaveDecision(r) \/ ReviewReturns(r) \/ CommitPatch(r) \/ SavePatch(r)
               \/ MarkDocument(r) \/ IndexAndReturn(r) \/ Die(r)
        PROVE  Staging' /\ [Next]_vars
    BY <1>4, BackRefines
  <1> QED
    BY <1>1, <1>2, <1>3, <1>4 DEF PipelineNext, PipelineStep, FrontStep

\* The pipeline implements the gate loop, however many processes run it and
\* whether or not they may run one thread together, as long as `kgi ingest` is not
\* given the thread of an earlier run.
THEOREM PipelineIsGateLoop ==
    ASSUME ~ThreadReuse
    PROVE  PipelineSpec => ImplementsGateLoop
  <1>1. PipelineInit => Init /\ InductiveInv /\ Staging
    BY StagingInit, InductiveInit DEF PipelineInit
  <1>2. InductiveInv /\ Staging /\ [PipelineNext]_pipeline
           => InductiveInv' /\ Staging' /\ [Next]_vars
    BY StepRefines, InductiveStep
  <1> QED
    BY <1>1, <1>2, PTL DEF PipelineSpec, ImplementsGateLoop, Spec

\* So what is proved of the gate loop holds of the whole pipeline.
THEOREM PipelineCommitsSoundly ==
    ASSUME ~ThreadReuse
    PROVE  PipelineSpec => [](DependencyClosed /\ LedgerFaithful /\ RefsResolve)
  BY PipelineIsGateLoop, DependenciesFirst, LedgerMatchesGraph, NoMissingReference, PTL
     DEF ImplementsGateLoop

-----------------------------------------------------------------------------
(* The audit trail is complete. *)

\* A recorded decision accepted the op.
Accepted(o) == <<o, "accept">> \in decisions

\* Routing let the op through, and nobody has been or will be asked about it.
Unseen(o) ==
    /\ "auto_approve" \in Routes[o]
    /\ \A a \in Actions : <<o, a>> \notin decisions
    /\ ckpt[o] # "pending"
    /\ \A r \in RunIds : o \in OpsOf(patch[r]) => working[r][o] # "pending"

Backed(o) == Accepted(o) \/ Unseen(o)

\* An open transaction is on an op of the run's patch that may be applied.
OpenCommittable ==
    \A r \in RunIds : pc[r] \in {"rebase", "write"} =>
        current[r] \in OpsOf(patch[r]) /\ Committable(r, current[r])

\* What may be applied is backed, wherever a status is kept, and so is all that
\* has been applied.
AuditInv ==
    /\ OpenCommittable
    /\ \A o \in OpIds : ckpt[o] \in {"approved", "committed"} => Backed(o)
    /\ \A o \in ledger : Backed(o)
    /\ \A r \in RunIds : \A o \in OpsOf(patch[r]) : Committable(r, o) => Backed(o)

\* There is no op of no patch.
LEMMA NoOpsOfNone == OpsOf(None) = {}
  BY OpTypes, EngineAssumption DEF OpsOf

\* A run makes no op of its patch pending and lets none pass that could not pass
\* before.
Tightens(q) ==
    \A o \in OpsOf(patch'[q]) :
        /\ o \in OpsOf(patch[q])
        /\ working[q][o] # "pending" => working'[q][o] # "pending"
        /\ working'[q][o] \in {"approved", "committed"} => Committable(q, o)

\* The run leaves every pending op of its patch pending.
Leaves(r) ==
    patch'[r] = patch[r] =>
        \A o \in OpsOf(patch[r]) : working[r][o] = "pending" => working'[r][o] = "pending"

\* A step of the engine tightens without deciding anything, and applies only what
\* may be applied.
LEMMA EngineAudit ==
    ASSUME EngineTypeOK, OpenCommittable, NEW r \in RunIds, EngineStep(r)
    PROVE  /\ (\A q \in RunIds : Tightens(q)) /\ Leaves(r)
           /\ \A o \in ledger' \ ledger : o \in OpsOf(patch[r]) /\ Committable(r, o)
           /\ OpenCommittable'
  <1> DEFINE Claim ==
                /\ (\A q \in RunIds : Tightens(q)) /\ Leaves(r)
                /\ \A o \in ledger' \ ledger : o \in OpsOf(patch[r]) /\ Committable(r, o)
                /\ OpenCommittable'
  <1> USE DEF EngineTypeOK, OpenCommittable, Tightens, Leaves, Committable, Goto,
         SetStatus, graph
  <1>1. ASSUME NEW o \in OpIds, NEW s \in {"committed", "requeued", "blocked"},
               SetStatus(r, o, s), Committable(r, o),
               UNCHANGED patch, pc' = [pc EXCEPT ![r] = "loop"],
               \A q \in RunIds \ {r} : current'[q] = current[q],
               \A d \in ledger' \ ledger : d \in OpsOf(patch[r]) /\ Committable(r, d)
        PROVE  Claim
    BY <1>1 DEF OpsOf
  <1>2. ASSUME NEW o \in OpIds, Apply(r, o) PROVE Claim
    <2>1. /\ pc[r] = "write" /\ o = current[r] /\ ledger' = ledger \cup {o}
          /\ SetStatus(r, o, "committed") /\ patch' = patch
          /\ Goto(r, "loop") /\ current' = [current EXCEPT ![r] = None]
      BY <1>2 DEF Apply, Applies, ApplyCreateNode, ApplyUpdateNodeProps, ApplyMergeInto,
         ApplyAssertEdge, ApplyInvalidateEdge, ApplyReinforceEdge
    <2> QED
      BY <2>1, <1>1
  <1>3. ASSUME NEW o \in OpIds, Block(r, o) PROVE Claim
    <2>1. pc' = [pc EXCEPT ![r] = "loop"]
      BY <1>3 DEF Block, Reached
    <2> QED
      BY <1>3, <1>1, <2>1 DEF Block
  <1>4. ASSUME NEW o \in OpIds, LedgerHit(r, o) PROVE Claim
    <2>1. pc' = [pc EXCEPT ![r] = "loop"]
      BY <1>4 DEF LedgerHit, Reached
    <2> QED
      BY <1>4, <1>1, <2>1 DEF LedgerHit
  <1>5. CASE Requeue(r)
    BY <1>5, <1>1 DEF Requeue, OpsOf
  <1>6. ASSUME NEW o \in OpIds, LedgerMiss(r, o) PROVE Claim
    BY <1>6 DEF LedgerMiss, Reached, Remaining, OpsOf
  <1>7. ASSUME NEW o \in OpIds, Skip(r, o) \/ Retry(r, o) PROVE Claim
    BY <1>7 DEF Skip, Retry, OpsOf
  <1>8. CASE RebaseHolds(r)
    BY <1>8 DEF RebaseHolds, OpsOf
  <1>9. CASE LedgerCollision(r)
    BY <1>9, NoOpsOfNone DEF LedgerCollision, Forget, OpsOf
  <1> QED
    BY <1>2, <1>3, <1>4, <1>5, <1>6, <1>7, <1>8, <1>9 DEF EngineStep

\* Where the decisions stay and every run tightens or starts from the checkpoint,
\* what is backed stays backed.
LEMMA BackedKept ==
    ASSUME NEW o \in OpIds, Backed(o), UNCHANGED decisions,
           Unseen(o) => ckpt'[o] # "pending",
           \A q \in RunIds : Tightens(q) \/ working'[q] = ckpt
    PROVE  Backed(o)'
  <1>1. CASE Accepted(o)
    BY <1>1 DEF Accepted, Backed
  <1>2. CASE Unseen(o)
    <2>1. \A q \in RunIds : o \in OpsOf(patch'[q]) => working'[q][o] # "pending"
      BY <1>2 DEF Unseen, Tightens
    <2> QED
      BY <1>2, <2>1 DEF Unseen, Backed, OpsOf
  <1> QED
    BY <1>1, <1>2 DEF Backed

\* The step cases in which nothing is decided.
LEMMA AuditFrame ==
    ASSUME AuditInv, OpenCommittable', UNCHANGED decisions,
           \A o \in OpIds : Unseen(o) => ckpt'[o] # "pending",
           \A o \in OpIds : ckpt'[o] \in {"approved", "committed"} => Backed(o),
           ledger' \subseteq OpIds, \A o \in ledger' : Backed(o),
           \A q \in RunIds : Tightens(q) \/ working'[q] = ckpt
    PROVE  AuditInv'
  <1>1. \A o \in OpIds : Backed(o) => Backed(o)'
    BY BackedKept
  <1>2. \A o \in OpIds : ckpt'[o] \in {"approved", "committed"} => Backed(o)'
    BY <1>1
  <1>3. \A o \in ledger' : Backed(o)'
    BY <1>1
  <1>4. ASSUME NEW q \in RunIds, NEW o \in OpsOf(patch'[q]), Committable(q, o)'
        PROVE  Backed(o)'
    <2>1. Backed(o)
      BY <1>4 DEF AuditInv, Committable, Tightens, OpsOf
    <2> QED
      BY <1>1, <2>1 DEF OpsOf
  <1> QED
    BY <1>2, <1>3, <1>4 DEF AuditInv, OpsOf

\* What review_node saves and what it decides.
LEMMA GateAudit ==
    ASSUME GateTypeOK, AuditInv, NEW r \in RunIds,
           SaveDecision(r) \/ ReviewReturns(r)
    PROVE  AuditInv'
  <1> USE DEF GateTypeOK, EngineTypeOK
  <1>1. CASE SaveDecision(r)
    <2>1. /\ UNCHANGED <<pc, patch, working, current, ckpt, ledger>> /\ decisions \subseteq decisions'
          /\ \A d \in decisions' \ decisions : d \in Heard(r)
      BY <1>1 DEF SaveDecision, vars, engine, graph, call
    <2>2. ASSUME NEW o \in OpIds, NEW a \in Actions, <<o, a>> \in decisions' \ decisions
          PROVE  ~Unseen(o)
      <3>1. <<o, a>> \in Heard(r)
        BY <2>1, <2>2
      <3>2. o \in Pending(patch[r], working[r])
        BY <3>1 DEF Heard
      <3> QED
        BY <3>2 DEF Unseen, Pending
    <2>3. \A o \in OpIds : Backed(o) => Backed(o)'
      BY <2>1, <2>2 DEF Backed, Accepted, Unseen, OpsOf
    <2> QED
      BY <2>1, <2>3 DEF AuditInv, OpenCommittable, Committable, OpsOf
  <1>2. CASE ReviewReturns(r)
    <2> DEFINE P == Pending(patch[r], working[r])
    <2>1. PICK accepted, rejected \in SUBSET P :
             /\ working' = [working EXCEPT ![r] = Decided(working[r], accepted, rejected)]
             /\ ckpt' = OfPatch(patch[r], Decided(working[r], accepted, rejected), ckpt)
      BY <1>2 DEF ReviewReturns, Review
    <2>2. /\ UNCHANGED <<patch, current, ledger, decisions>> /\ Heard(r) \subseteq decisions
          /\ pc[r] = "gate" /\ pc' = [pc EXCEPT ![r] = "loop"]
          /\ \A o \in P : working'[r][o] = "approved" => o \in given[r].accept
      BY <1>2 DEF ReviewReturns, Review, Goto, graph, stores
    <2>3. \A o \in OpIds :
             /\ o \notin P => working'[r][o] = working[r][o]
             /\ o \in P => working'[r][o] \in {"pending", "approved", "rejected"}
      BY <2>1 DEF Decided, Pending, OpsOf
    <2>4. \A o \in OpIds : ckpt'[o] = IF o \in OpsOf(patch[r]) THEN working'[r][o] ELSE ckpt[o]
      BY <2>1 DEF OfPatch
    <2>5. \A o \in P : working'[r][o] = "approved" => Accepted(o)
      BY <2>2 DEF Heard, Accepted
    <2>6. \A q \in RunIds : q # r => working'[q] = working[q]
      BY <2>1
    <2>p. \A o : o \in P <=> o \in OpsOf(patch[r]) /\ working[r][o] = "pending"
      BY DEF Pending
    <2> HIDE DEF P
    <2>7. ASSUME NEW o \in OpIds, Unseen(o) PROVE Unseen(o)'
      <3>1. o \in OpsOf(patch[r]) => working'[r][o] = working[r][o] /\ working[r][o] # "pending"
        BY <2>3, <2>p, <2>7 DEF Unseen
      <3>2. ckpt'[o] # "pending"
        BY <2>4, <2>7, <3>1 DEF Unseen
      <3>3. \A q \in RunIds : o \in OpsOf(patch[q]) => working'[q][o] # "pending"
        BY <2>6, <2>7, <3>1 DEF Unseen
      <3> QED
        BY <2>2, <2>7, <3>2, <3>3 DEF Unseen, OpsOf
    <2>8. \A o \in OpIds : Backed(o) => Backed(o)'
      BY <2>2, <2>7 DEF Backed, Accepted
    <2>9. ASSUME NEW o \in OpsOf(patch[r]), working'[r][o] \in {"approved", "committed"}
          PROVE  Backed(o)'
      <3>1. o \in OpIds
        BY DEF OpsOf
      <3>2. CASE o \in P
        BY <2>3, <2>5, <2>8, <2>9, <3>1, <3>2 DEF Backed
      <3>3. CASE o \notin P
        BY <2>3, <2>8, <2>9, <3>1, <3>3 DEF AuditInv, Committable
      <3> QED
        BY <3>2, <3>3
    <2>10. \A o \in OpIds : ckpt'[o] \in {"approved", "committed"} => Backed(o)'
      BY <2>4, <2>8, <2>9 DEF AuditInv
    <2>11. \A q \in RunIds : \A o \in OpsOf(patch[q]) : Committable(q, o)' => Backed(o)'
      BY <2>6, <2>8, <2>9 DEF AuditInv, Committable, OpsOf
    <2>12. OpenCommittable'
      BY <2>2, <2>6 DEF AuditInv, OpenCommittable, Committable, OpsOf
    <2> QED
      BY <2>2, <2>8, <2>10, <2>11, <2>12 DEF AuditInv, OpsOf
  <1> QED
    BY <1>1, <1>2

LEMMA AuditInit == PipelineInit => AuditInv
  <1> SUFFICES ASSUME PipelineInit PROVE AuditInv
    OBVIOUS
  <1>1. \A o \in OpIds : ckpt[o] \in {"approved", "committed"} => Backed(o)
    <2> SUFFICES ASSUME NEW o \in OpIds, ckpt[o] \in {"approved", "committed"}
                 PROVE  Unseen(o)
      BY DEF Backed
    <2>1. PICK route \in Routes[o] : ckpt[o] = StatusOf(route)
      BY DEF PipelineInit, Init
    <2>2. route = "auto_approve"
      BY <2>1 DEF StatusOf
    <2>3. \A q \in RunIds : OpsOf(patch[q]) = {}
      BY NoOpsOfNone DEF PipelineInit, Init, EngineInit
    <2> QED
      BY <2>1, <2>2, <2>3 DEF Unseen, PipelineInit
  <1> QED
    BY <1>1, NoOpsOfNone
       DEF AuditInv, OpenCommittable, PipelineInit, Init, EngineInit, Committable

\* Every step of the pipeline keeps the trail.
LEMMA AuditStep ==
    ASSUME GateTypeOK, GateTypeOK', AuditInv, [PipelineNext]_pipeline
    PROVE  AuditInv'
  <1> USE DEF GateTypeOK, EngineTypeOK
  <1>1. ASSUME UNCHANGED <<engine, ckpt, decisions>> PROVE AuditInv'
    BY <1>1 DEF engine, graph, call, AuditInv, OpenCommittable, Committable, Backed,
       Accepted, Unseen, OpsOf
  <1>2. ASSUME NEW r \in RunIds, FrontStep(r) \/ SavePatch(r) \/ MarkDocument(r)
        PROVE  AuditInv'
    BY <1>1, <1>2, FrontFrame DEF SavePatch, MarkDocument, vars, stores
  <1>3. ASSUME NEW r \in RunIds, SaveDecision(r) \/ ReviewReturns(r) PROVE AuditInv'
    BY <1>3, GateAudit
  <1>4. ASSUME NEW r \in RunIds, UNCHANGED <<ledger, ckpt, decisions>>,
               \A q \in RunIds : Tightens(q) \/ working'[q] = ckpt, OpenCommittable'
        PROVE  AuditInv'
    BY <1>4, AuditFrame DEF AuditInv, Unseen
  <1>5. ASSUME NEW r \in RunIds, NEW p \in PatchIds, ReviewCommand(r, p) PROVE AuditInv'
    <2>1. Resume(r, p) /\ UNCHANGED decisions
      BY <1>5 DEF ReviewCommand, stores
    <2>2. /\ \A q \in RunIds : q # r => working'[q] = working[q] /\ patch'[q] = patch[q]
          /\ working'[r] = ckpt
      BY <2>1 DEF Resume
    <2>3. \A q \in RunIds : Tightens(q) \/ working'[q] = ckpt
      BY <2>2 DEF Tightens, Committable
    <2>4. OpenCommittable'
      BY <2>1, <2>2 DEF Resume, AuditInv, OpenCommittable, Committable, OpsOf
    <2> QED
      BY <1>4, <2>1, <2>3, <2>4 DEF Resume, graph
  <1>6. ASSUME NEW r \in RunIds, Stage(r) PROVE AuditInv'
    <2> DEFINE parks == at[intake[r].patch] = "review"
    <2>1. /\ UNCHANGED <<ledger, current, ckpt, decisions>>
          /\ \/ parks /\ working' = [working EXCEPT ![r] = working[r]]
                      /\ patch' = [patch EXCEPT ![r] = None]
             \/ ~parks /\ working' = [working EXCEPT ![r] = ckpt]
          /\ \A q \in RunIds : q # r => patch'[q] = patch[q] /\ pc'[q] = pc[q]
          /\ pc'[r] \in {"idle", "loop"}
      BY <1>6 DEF Stage, graph
    <2>2. \A q \in RunIds : Tightens(q) \/ working'[q] = ckpt
      BY <2>1, NoOpsOfNone DEF Tightens, Committable
    <2>3. OpenCommittable'
      BY <2>1 DEF AuditInv, OpenCommittable, Committable, OpsOf
    <2> QED
      BY <1>4, <2>1, <2>2, <2>3
  <1>7. ASSUME NEW r \in RunIds, CommitPatch(r) PROVE AuditInv'
    <2>1. EngineStep(r) /\ UNCHANGED <<ckpt, decisions>>
      BY <1>7 DEF CommitPatch, Commit, stores
    <2>2. /\ \A q \in RunIds : Tightens(q)
          /\ \A o \in ledger' \ ledger : o \in OpsOf(patch[r]) /\ Committable(r, o)
          /\ OpenCommittable'
      BY <2>1, EngineAudit DEF AuditInv
    <2>3. \A o \in ledger' : Backed(o)
      BY <2>2 DEF AuditInv
    <2> QED
      BY <2>1, <2>2, <2>3, AuditFrame DEF AuditInv, Unseen, OpsOf
  <1>8. ASSUME NEW r \in RunIds, Forget(r), UNCHANGED <<ledger, decisions>>
        PROVE  OpenCommittable' /\ \A q \in RunIds : Tightens(q)
    BY <1>8, NoOpsOfNone DEF Forget, AuditInv, OpenCommittable, Tightens, Committable, OpsOf
  <1>9. ASSUME NEW r \in RunIds, IndexAndReturn(r) PROVE AuditInv'
    <2>1. Forget(r) /\ UNCHANGED <<ledger, decisions>>
      BY <1>9 DEF IndexAndReturn, Return, graph
    <2>2. \A o \in OpIds : ckpt'[o] = IF o \in OpsOf(patch[r]) THEN working[r][o] ELSE ckpt[o]
      BY <1>9 DEF IndexAndReturn, Return, OfPatch
    <2>3. \A o \in OpIds : ckpt'[o] \in {"approved", "committed"} => Backed(o)
      BY <2>2 DEF AuditInv, Committable
    <2>4. \A o \in OpIds : Unseen(o) => ckpt'[o] # "pending"
      BY <2>2 DEF Unseen
    <2> QED
      BY <1>8, <2>1, <2>3, <2>4, AuditFrame DEF AuditInv
  <1>10. ASSUME NEW r \in RunIds, Die(r) PROVE AuditInv'
    <2>1. CASE pc[r] = "idle"
      BY <1>1, <1>10, <2>1 DEF Die, vars, stores
    <2>2. CASE pc[r] # "idle"
      BY <1>4, <1>8, <1>10, <2>2 DEF Die, Crash, stores, graph
    <2> QED
      BY <2>1, <2>2
  <1>11. CASE UNCHANGED pipeline
    BY <1>1, <1>11 DEF pipeline, vars, stores
  <1> QED
    BY <1>2, <1>3, <1>5, <1>6, <1>7, <1>9, <1>10, <1>11
       DEF PipelineNext, PipelineStep, FrontStep

-----------------------------------------------------------------------------
(* Type correctness. *)

\* A run is before the gate or behind it; it knows its patch from the stage node
\* on; it saves and marks only after the whole walk.
RunShape(r) ==
    /\ intake[r] # None =>
        /\ pc[r] = "idle"
        /\ intake[r].node = "stage" => intake[r].patch \in PatchIds
    /\ pc[r] # "idle" => patch[r] \in PatchIds
    /\ tail[r] # "walk" => Walked(r)

PipelineInv == PipelineTypeOK /\ \A r \in RunIds : RunShape(r)

LEMMA PipelineInvInit == PipelineInit => PipelineInv
  <1> SUFFICES ASSUME PipelineInit PROVE PipelineInv
    OBVIOUS
  <1>1. GateTypeOK
    BY InitType DEF PipelineInit
  <1>2. PipelineTypeOK
    BY <1>1 DEF PipelineInit, PipelineTypeOK, GateTypeOK
  <1>3. \A r \in RunIds : RunShape(r)
    BY DEF PipelineInit, Init, EngineInit, RunShape
  <1> QED
    BY <1>2, <1>3 DEF PipelineInv

\* What a run knows of itself does not depend on the others.
LEMMA RunShapeFrame ==
    ASSUME NEW q \in RunIds, RunShape(q), intake'[q] = intake[q], tail'[q] = tail[q],
           pc'[q] = pc[q], patch'[q] = patch[q], report'[q] = report[q]
    PROVE  RunShape(q)'
  BY DEF RunShape, Walked, Remaining, OpsOf

\* Before the gate.
LEMMA FrontInv ==
    ASSUME PipelineInv, NEW r \in RunIds, FrontStep(r)
    PROVE  PipelineInv'
  <1> USE DEF PipelineInv, PipelineTypeOK, GateTypeOK
  <1>1. ASSUME NEW i \in Intakes \cup {None}, intake' = [intake EXCEPT ![r] = i],
               i # None => pc[r] = "idle" /\ (i.node = "stage" => i.patch \in PatchIds),
               at' \in [PatchIds -> {"new", "review", "commit", "end"}],
               UNCHANGED <<engine, ckpt, stores, given, tail>>
        PROVE  PipelineInv'
    <2>1. UNCHANGED <<pc, patch, report, tail>>
      BY <1>1 DEF engine, call
    <2>2. RunShape(r)'
      BY <1>1, <2>1 DEF RunShape, Walked, Remaining, OpsOf
    <2>3. \A q \in RunIds \ {r} : RunShape(q)'
      BY <1>1, <2>1, RunShapeFrame
    <2>4. PipelineTypeOK'
      BY <1>1 DEF engine, graph, call, stores, EngineTypeOK
    <2> QED
      BY <2>2, <2>3, <2>4
  <1>2. ASSUME NEW d \in Docs, NEW thread \in PatchIds \cup {None}, Ingest(r, d, thread)
        PROVE  PipelineInv'
    <2> DEFINE new == [node |-> "parse", doc |-> d, patch |-> None]
    <2>1. new \in Intakes /\ new.node = "parse"
      BY DEF Intakes, Nodes
    <2>2. intake' = [intake EXCEPT ![r] = new]
      BY <1>2 DEF Ingest
    <2>3. at' \in [PatchIds -> {"new", "review", "commit", "end"}]
      BY <1>2 DEF Ingest
    <2> HIDE DEF new
    <2> QED
      BY <1>1, <1>2, <2>1, <2>2, <2>3, FrontFrame DEF Ingest, Free, FrontStep
  <1>4. CASE Duplicate(r) \/ InFlight(r)
    BY <1>1, <1>4 DEF Duplicate, InFlight, End, vars
  <1>5. ASSUME NEW n \in {"lock", "resolve"}, intake[r] # None, Advance(r, n),
               UNCHANGED <<vars, stores, given, tail>>
        PROVE  PipelineInv'
    <2> DEFINE new == [intake[r] EXCEPT !.node = n]
    <2>1. new \in Intakes /\ new.node = n
      BY <1>5 DEF Intakes, Nodes
    <2>2. intake' = [intake EXCEPT ![r] = new] /\ pc[r] = "idle"
      BY <1>5 DEF Advance, RunShape
    <2> HIDE DEF new
    <2> QED
      BY <1>1, <1>5, <2>1, <2>2 DEF vars
  <1>6. CASE NotCommitted(r)
    BY <1>5, <1>6 DEF NotCommitted, At
  <1>7. CASE NotInFlight(r)
    BY <1>5, <1>7 DEF NotInFlight, At
  <1>8. ASSUME NEW p \in PatchIds, Resolve(r, p) PROVE PipelineInv'
    <2> DEFINE new == [[intake[r] EXCEPT !.node = "stage"] EXCEPT !.patch = p]
    <2>1. intake[r] \in Intakes /\ pc[r] = "idle"
      BY <1>8 DEF Resolve, At, RunShape
    <2>2. new \in Intakes /\ new.patch = p
      BY <2>1 DEF Intakes, Nodes
    <2>3. intake' = [intake EXCEPT ![r] = new]
      BY <1>8, <2>1 DEF Resolve, Intakes
    <2>4. at' \in [PatchIds -> {"new", "review", "commit", "end"}]
      BY <1>8 DEF Resolve, Arrive, Begin, vars
    <2> HIDE DEF new
    <2>5. UNCHANGED <<engine, ckpt, stores, given, tail>>
      BY <1>8, FrontFrame DEF FrontStep
    <2> QED
      BY <1>1, <2>1, <2>2, <2>3, <2>4, <2>5
  <1> QED
    BY <1>2, <1>4, <1>6, <1>7, <1>8 DEF FrontStep

\* The stage node.
LEMMA StageInv ==
    ASSUME PipelineInv, NEW r \in RunIds, Stage(r)
    PROVE  PipelineInv'
  <1> USE DEF PipelineInv, PipelineTypeOK, GateTypeOK, EngineTypeOK
  <1> DEFINE p == intake[r].patch
  <1>1. p \in PatchIds /\ pc[r] = "idle" /\ tail[r] = "walk"
    BY DEF Stage, At, RunShape, Walked
  <1>2. /\ UNCHANGED <<graph, report, id_map, current, ckpt, at, marked, indexed, decisions,
                       given, tail>>
        /\ intake' = [intake EXCEPT ![r] = None]
        /\ row' = [row EXCEPT ![p] = "pending"]
        /\ json' = OfPatch(p, ckpt, json)
        /\ opened' \in {opened, opened \cup {p}}
    BY DEF Stage
  <1>3. \/ /\ pc' = [pc EXCEPT ![r] = "idle"] /\ patch' = [patch EXCEPT ![r] = None]
           /\ working' = [working EXCEPT ![r] = working[r]]
        \/ /\ pc' = [pc EXCEPT ![r] = "loop"] /\ patch' = [patch EXCEPT ![r] = p]
           /\ working' = [working EXCEPT ![r] = ckpt]
    BY DEF Stage
  <1> HIDE DEF p
  <1>4. RunShape(r)'
    BY <1>1, <1>2, <1>3 DEF RunShape
  <1>5. ASSUME NEW q \in RunIds \ {r} PROVE RunShape(q)'
    BY <1>2, <1>3, RunShapeFrame
  <1>6. EngineTypeOK'
    <2>1. UNCHANGED <<node, edge, aliases, ledger, report, id_map, current>>
      BY <1>2 DEF graph
    <2>2. pc' \in [RunIds -> {"idle", "gate", "loop", "rebase", "write"}]
      BY <1>3
    <2>3. patch' \in [RunIds -> PatchIds \cup {None}]
      BY <1>1, <1>3
    <2>4. working' \in [RunIds -> [OpIds -> Statuses]]
      <3>1. PICK w \in [OpIds -> Statuses] : working' = [working EXCEPT ![r] = w]
        BY <1>3
      <3>2. working \in [RunIds -> [OpIds -> Statuses]]
        OBVIOUS
      <3> QED
        BY ONLY <3>1, <3>2
    <2> QED
      BY <2>1, <2>2, <2>3, <2>4
  <1>7. json' \in [OpIds -> Statuses]
    BY <1>2 DEF OfPatch
  <1>8. PipelineTypeOK'
    BY <1>1, <1>2, <1>6, <1>7
  <1> QED
    BY <1>4, <1>5, <1>8

\* A walk that is over stays over.
LEMMA WalkedStays ==
    ASSUME EngineTypeOK, NEW r \in RunIds, EngineStep(r)
    PROVE  ~Walked(r)
  <1> USE DEF Walked
  <1>1. \A o \in OpIds : Apply(r, o) => pc[r] = "write"
    BY DEF Apply, Applies, ApplyCreateNode, ApplyUpdateNodeProps, ApplyMergeInto,
       ApplyAssertEdge, ApplyInvalidateEdge, ApplyReinforceEdge
  <1>2. \A o \in OpIds : Skip(r, o) \/ Block(r, o) \/ LedgerHit(r, o) \/ LedgerMiss(r, o)
            => o \in Remaining(r)
    BY DEF Skip, Block, LedgerHit, LedgerMiss, Reached
  <1> QED
    BY <1>1, <1>2 DEF EngineStep, Retry, Requeue, RebaseHolds, LedgerCollision

\* Nobody but the run itself touches what it knows.
LEMMA EngineOthers ==
    ASSUME EngineTypeOK, NEW r \in RunIds, EngineStep(r)
    PROVE  /\ \A q \in RunIds \ {r} : pc'[q] = pc[q] /\ patch'[q] = patch[q]
                                        /\ report'[q] = report[q]
           /\ pc'[r] # "idle" => patch'[r] = patch[r]
  <1> USE DEF EngineTypeOK, Goto, Record
  <1>1. ASSUME NEW o \in OpIds, Apply(r, o)
        PROVE  /\ pc' = [pc EXCEPT ![r] = "loop"] /\ patch' = patch
               /\ report' = [report EXCEPT ![r][o] = "committed"]
    BY <1>1 DEF Apply, Applies, ApplyCreateNode, ApplyUpdateNodeProps, ApplyMergeInto,
       ApplyAssertEdge, ApplyInvalidateEdge, ApplyReinforceEdge
  <1>2. ASSUME NEW o \in OpIds,
               Skip(r, o) \/ Block(r, o) \/ LedgerHit(r, o) \/ LedgerMiss(r, o) \/ Retry(r, o)
        PROVE  /\ \A q \in RunIds \ {r} : pc'[q] = pc[q] /\ report'[q] = report[q]
               /\ patch' = patch
    BY <1>2 DEF Skip, Block, LedgerHit, LedgerMiss, Retry
  <1>3. CASE Requeue(r) \/ RebaseHolds(r)
    BY <1>3 DEF Requeue, RebaseHolds
  <1>4. CASE LedgerCollision(r)
    BY <1>4 DEF LedgerCollision, Forget
  <1> QED
    BY <1>1, <1>2, <1>3, <1>4 DEF EngineStep

\* Behind the gate.
LEMMA BackInv ==
    ASSUME PipelineInv, NEW r \in RunIds,
           \/ \E p \in PatchIds : ReviewCommand(r, p)
           \/ SaveDecision(r) \/ ReviewReturns(r) \/ CommitPatch(r) \/ SavePatch(r)
           \/ MarkDocument(r) \/ IndexAndReturn(r) \/ Die(r)
    PROVE  PipelineInv'
  <1> USE DEF PipelineInv, PipelineTypeOK
  <1>1. ASSUME UNCHANGED <<vars, intake, given>>,
               row' \in [PatchIds -> {"pending", "requeued", "committed", None}],
               json' \in [OpIds -> Statuses], opened' \in SUBSET PatchIds,
               marked' \in SUBSET Docs, indexed' \in SUBSET OpIds,
               decisions' \in SUBSET (OpIds \X Actions),
               NEW t \in {"walk", "saved", "marked"}, tail' = [tail EXCEPT ![r] = t],
               t # "walk" => Walked(r)
        PROVE  PipelineInv'
    <2>1. UNCHANGED <<pc, patch, report>>
      BY <1>1 DEF vars, engine, call
    <2>2. GateTypeOK'
      BY <1>1, NextType
    <2>3. RunShape(r)'
      BY <1>1, <2>1 DEF RunShape, Walked, Remaining, OpsOf
    <2>4. \A q \in RunIds \ {r} : RunShape(q)'
      BY <1>1, <2>1, RunShapeFrame
    <2> QED
      BY <1>1, <2>2, <2>3, <2>4
  <1>2. CASE SaveDecision(r)
    <2>1. Heard(r) \subseteq OpIds \X Actions
      BY DEF Heard, Pending, OpsOf, Actions
    <2>2. tail' = [tail EXCEPT ![r] = tail[r]] /\ (tail[r] # "walk" => Walked(r))
      BY <1>2 DEF SaveDecision, RunShape
    <2> QED
      BY <1>1, <1>2, <2>1, <2>2 DEF SaveDecision
  <1>3. CASE SavePatch(r)
    <2>1. patch[r] \in PatchIds /\ Walked(r)
      BY <1>3 DEF SavePatch, Walked, RunShape
    <2>2. row' \in [PatchIds -> {"pending", "requeued", "committed", None}]
      BY <1>3, RowStatusFacts DEF SavePatch
    <2>3. json' \in [OpIds -> Statuses]
      BY <1>3 DEF SavePatch, OfPatch, GateTypeOK, EngineTypeOK
    <2> QED
      BY <1>1, <1>3, <2>1, <2>2, <2>3 DEF SavePatch
  <1>4. CASE MarkDocument(r)
    <2>1. patch[r] \in PatchIds /\ Walked(r)
      BY <1>4 DEF MarkDocument, Walked, RunShape
    <2>2. marked' \in SUBSET Docs
      BY <1>4, <2>1, PipelineAssumption DEF MarkDocument
    <2> QED
      BY <1>1, <1>4, <2>1, <2>2 DEF MarkDocument
  <1>5. ASSUME Next, UNCHANGED <<row, json, opened, marked, decisions>>,
               given' \in [RunIds -> [accept : SUBSET OpIds, reject : SUBSET OpIds] \cup {None}],
               indexed' \in SUBSET OpIds,
               UNCHANGED intake \/ intake' = [intake EXCEPT ![r] = None],
               UNCHANGED tail \/ tail' = [tail EXCEPT ![r] = "walk"],
               \A q \in RunIds \ {r} : pc'[q] = pc[q] /\ patch'[q] = patch[q]
                                        /\ report'[q] = report[q],
               RunShape(r)'
        PROVE  PipelineInv'
    <2>1. GateTypeOK'
      BY <1>5, NextType
    <2>2. \A q \in RunIds \ {r} : RunShape(q)'
      BY <1>5, RunShapeFrame
    <2> QED
      BY <1>5, <2>1, <2>2
  <1>6. ASSUME NEW p \in PatchIds, ReviewCommand(r, p) PROVE PipelineInv'
    <2>1. Resume(r, p) /\ intake[r] = None /\ UNCHANGED <<intake, stores, tail>>
      BY <1>6 DEF ReviewCommand, Free
    <2>2. given' \in [RunIds -> [accept : SUBSET OpIds, reject : SUBSET OpIds] \cup {None}]
      BY <1>6 DEF ReviewCommand, Pending, OpsOf
    <2>3. /\ pc'[r] \in {"gate", "loop"} /\ patch'[r] = p
          /\ \A q \in RunIds \ {r} : pc'[q] = pc[q] /\ patch'[q] = patch[q]
                                      /\ report'[q] = report[q]
      BY <2>1 DEF Resume, GateTypeOK, EngineTypeOK
    <2>4. tail[r] = "walk"
      BY <2>1 DEF Resume, RunShape, Walked
    <2>5. RunShape(r)'
      BY <2>1, <2>3, <2>4 DEF RunShape
    <2> QED
      BY <1>5, <2>1, <2>2, <2>3, <2>5 DEF Next, stores
  <1>7. CASE ReviewReturns(r)
    <2>1. /\ Review(r) /\ UNCHANGED <<intake, stores, tail>> /\ given' = [given EXCEPT ![r] = None]
      BY <1>7 DEF ReviewReturns
    <2>2. /\ pc[r] = "gate" /\ pc' = [pc EXCEPT ![r] = "loop"] /\ UNCHANGED <<patch, report>>
      BY <2>1 DEF Review, Goto
    <2>3. RunShape(r)'
      BY <2>1, <2>2 DEF RunShape, Walked, GateTypeOK, EngineTypeOK
    <2> QED
      BY <1>5, <2>1, <2>2, <2>3 DEF Next, stores, GateTypeOK, EngineTypeOK
  <1>8. CASE CommitPatch(r)
    <2>1. Commit(r) /\ EngineStep(r) /\ UNCHANGED <<intake, stores, given, tail>>
      BY <1>8 DEF CommitPatch, Commit
    <2>2. /\ pc[r] # "idle" /\ tail[r] = "walk"
          /\ \A q \in RunIds \ {r} : pc'[q] = pc[q] /\ patch'[q] = patch[q]
                                      /\ report'[q] = report[q]
          /\ pc'[r] # "idle" => patch'[r] = patch[r]
      BY <2>1, EngineFrame, EngineOthers, WalkedStays DEF GateTypeOK, RunShape
    <2>3. RunShape(r)'
      BY <2>1, <2>2 DEF RunShape
    <2> QED
      BY <1>5, <2>1, <2>2, <2>3 DEF Next, stores
  <1>9. ASSUME Forget(r), Next, UNCHANGED <<row, json, opened, marked, decisions>>,
               given' \in [RunIds -> [accept : SUBSET OpIds, reject : SUBSET OpIds] \cup {None}],
               indexed' \in SUBSET OpIds,
               UNCHANGED intake \/ intake' = [intake EXCEPT ![r] = None], pc[r] # "idle",
               tail' = [tail EXCEPT ![r] = "walk"]
        PROVE  PipelineInv'
    <2>1. /\ \A q \in RunIds \ {r} : pc'[q] = pc[q] /\ patch'[q] = patch[q]
                                      /\ report'[q] = report[q]
          /\ pc'[r] = "idle"
      BY <1>9 DEF Forget, GateTypeOK, EngineTypeOK
    <2>2. intake'[r] = None /\ tail'[r] = "walk"
      BY <1>9 DEF RunShape
    <2>3. RunShape(r)'
      BY <2>1, <2>2 DEF RunShape
    <2> QED
      BY <1>5, <1>9, <2>1, <2>3
  <1>10. CASE IndexAndReturn(r)
    <2>1. indexed' \in SUBSET OpIds
      BY <1>10 DEF IndexAndReturn, OpsOf
    <2> QED
      BY <1>9, <1>10, <2>1 DEF IndexAndReturn, Return, Walked, Next
  <1>11. CASE Die(r)
    <2>1. CASE pc[r] # "idle"
      BY <1>9, <1>11, <2>1 DEF Die, Crash, Next, stores
    <2>2. CASE pc[r] = "idle"
      <3>1. /\ UNCHANGED <<vars, stores>> /\ intake' = [intake EXCEPT ![r] = None]
            /\ given' = [given EXCEPT ![r] = None] /\ tail' = [tail EXCEPT ![r] = "walk"]
        BY <1>11, <2>2 DEF Die
      <3>2. UNCHANGED <<pc, patch, report>>
        BY <3>1 DEF vars, engine, call
      <3>3. RunShape(r)'
        BY <2>2, <3>1, <3>2 DEF RunShape
      <3>4. \A q \in RunIds \ {r} : RunShape(q)'
        BY <3>1, <3>2, RunShapeFrame
      <3>5. GateTypeOK'
        BY <3>1, NextType
      <3> QED
        BY <3>1, <3>3, <3>4, <3>5 DEF stores
    <2> QED
      BY <2>1, <2>2
  <1> QED
    BY <1>2, <1>3, <1>4, <1>6, <1>7, <1>8, <1>10, <1>11

LEMMA PipelineInvStep == PipelineInv /\ [PipelineNext]_pipeline => PipelineInv'
  <1> SUFFICES ASSUME PipelineInv, [PipelineNext]_pipeline PROVE PipelineInv'
    OBVIOUS
  <1>1. CASE UNCHANGED pipeline
    <2>1. GateTypeOK'
      BY <1>1, NextType DEF pipeline, PipelineInv, PipelineTypeOK
    <2>2. \A q \in RunIds : RunShape(q)'
      BY <1>1, RunShapeFrame DEF pipeline, vars, engine, call, PipelineInv
    <2> QED
      BY <1>1, <2>1, <2>2 DEF pipeline, stores, PipelineInv, PipelineTypeOK
  <1>2. ASSUME NEW r \in RunIds, FrontStep(r) PROVE PipelineInv'
    BY <1>2, FrontInv
  <1>3. ASSUME NEW r \in RunIds, Stage(r) PROVE PipelineInv'
    BY <1>3, StageInv
  <1>4. ASSUME NEW r \in RunIds,
               \/ \E p \in PatchIds : ReviewCommand(r, p)
               \/ SaveDecision(r) \/ ReviewReturns(r) \/ CommitPatch(r) \/ SavePatch(r)
               \/ MarkDocument(r) \/ IndexAndReturn(r) \/ Die(r)
        PROVE  PipelineInv'
    BY <1>4, BackInv
  <1> QED
    BY <1>1, <1>2, <1>3, <1>4 DEF PipelineNext, PipelineStep, FrontStep

\* The stores and the runs are well-typed, whatever thread `kgi ingest` is given.
THEOREM PipelineTypeCorrect == PipelineSpec => []PipelineTypeOK
  BY PipelineInvInit, PipelineInvStep, PTL DEF PipelineSpec, PipelineInv

\* Nothing is in canonical that neither routing let through nor a recorded decision
\* accepted, for any number of processes, also two on one thread, wherever they
\* die, and whatever thread `kgi ingest` is given.
THEOREM AuditTrailComplete == PipelineSpec => []AuditTrail
  <1>1. PipelineInv /\ PipelineInv' /\ AuditInv /\ [PipelineNext]_pipeline => AuditInv'
    BY AuditStep DEF PipelineInv, PipelineTypeOK
  <1>2. AuditInv => AuditTrail
    BY DEF AuditInv, Backed, Accepted, Unseen, AuditTrail
  <1> QED
    BY <1>1, <1>2, PipelineInvInit, PipelineInvStep, AuditInit, PTL DEF PipelineSpec

-----------------------------------------------------------------------------
(* One process at a time. *)

\* Past its first read, the document of the run is not ingested; past the lock, no
\* patch of it is open; a patch that is closed has nothing left to decide, and a
\* run decides nothing but at the gate.
SerialRun(r) ==
    /\ intake[r] # None =>
        /\ intake[r].node # "parse" => intake[r].doc \notin marked
        /\ intake[r].node \in {"resolve", "stage"} => ~PendingFor(intake[r].doc)
        /\ intake[r].node = "stage" => DocOf[intake[r].patch] = intake[r].doc
    /\ pc[r] # "idle" =>
        /\ row[patch[r]] # None
        /\ Pending(patch[r], working[r]) = Pending(patch[r], ckpt)

SerialRow(p) ==
    /\ p \in opened => row[p] # None
    /\ row[p] \in {"requeued", "committed"} => ~Undecided(p, ckpt)

SerialInv ==
    /\ OnePending
    /\ \A r \in RunIds : SerialRun(r)
    /\ \A p \in PatchIds : SerialRow(p)

LEMMA SerialInit == PipelineInit => SerialInv
  <1> SUFFICES ASSUME PipelineInit PROVE SerialInv
    OBVIOUS
  <1>1. /\ \A p \in PatchIds : row[p] = None
        /\ opened = {} /\ \A r \in RunIds : pc[r] = "idle" /\ intake[r] = None
    BY DEF PipelineInit, Init, EngineInit
  <1>2. \A p \in PatchIds : row[p] \notin {"pending", "requeued", "committed"}
    BY <1>1, EngineAssumption, PipelineAssumption
  <1> QED
    BY <1>1, <1>2 DEF SerialInv, SerialRun, SerialRow, OnePending

\* Before the gate.
LEMMA SerialFront ==
    ASSUME \A q, r \in RunIds : q = r, PipelineInv, SerialInv,
           NEW r \in RunIds, FrontStep(r)
    PROVE  SerialInv' /\ UNCHANGED row
  <1> USE DEF PipelineInv, PipelineTypeOK, RunShape
  <1>1. UNCHANGED <<row, opened, marked, ckpt, pc, patch, working>>
    BY FrontFrame DEF engine, call, stores
  <1>2. OnePending' /\ \A p \in PatchIds : SerialRow(p)'
    BY <1>1 DEF SerialInv, OnePending, SerialRow, Undecided, Pending, OpsOf
  <1>3. ASSUME NEW i \in Intakes \cup {None}, intake' = [intake EXCEPT ![r] = i],
               i # None =>
                 /\ i.node # "parse" => i.doc \notin marked
                 /\ i.node \in {"resolve", "stage"} => ~PendingFor(i.doc)
                 /\ i.node = "stage" => DocOf[i.patch] = i.doc
        PROVE  SerialRun(r)'
    <2>1. intake'[r] = i
      BY <1>3
    <2>2. \A d : PendingFor(d)' <=> PendingFor(d)
      BY <1>1 DEF PendingFor
    <2> QED
      BY <1>1, <1>3, <2>1, <2>2 DEF SerialInv, SerialRun, Pending, OpsOf
  <1>4. ASSUME NEW d \in Docs, NEW thread \in PatchIds \cup {None}, Ingest(r, d, thread)
        PROVE  SerialRun(r)'
    <2> DEFINE new == [node |-> "parse", doc |-> d, patch |-> None]
    <2>1. new \in Intakes /\ new.node = "parse"
      BY DEF Intakes, Nodes
    <2>2. intake' = [intake EXCEPT ![r] = new]
      BY <1>4 DEF Ingest
    <2> HIDE DEF new
    <2> QED
      BY <1>3, <2>1, <2>2
  <1>5. ASSUME Duplicate(r) \/ InFlight(r) PROVE SerialRun(r)'
    BY <1>3, <1>5 DEF Duplicate, InFlight, End
  <1>6. ASSUME NEW n \in {"lock", "resolve"}, intake[r] # None, Advance(r, n),
               intake[r].doc \notin marked, n = "resolve" => ~PendingFor(intake[r].doc)
        PROVE  SerialRun(r)'
    <2> DEFINE new == [intake[r] EXCEPT !.node = n]
    <2>1. new \in Intakes /\ new.node = n /\ new.doc = intake[r].doc
      BY <1>6 DEF Intakes, Nodes
    <2>2. intake' = [intake EXCEPT ![r] = new]
      BY <1>6 DEF Advance
    <2> HIDE DEF new
    <2> QED
      BY <1>3, <1>6, <2>1, <2>2
  <1>7. ASSUME NotCommitted(r) PROVE SerialRun(r)'
    BY <1>6, <1>7 DEF NotCommitted, At
  <1>8. ASSUME NotInFlight(r) PROVE SerialRun(r)'
    <2>1. intake[r] # None /\ intake[r].node = "lock"
      BY <1>8 DEF NotInFlight, At
    <2> QED
      BY <1>6, <1>8, <2>1 DEF NotInFlight, SerialInv, SerialRun
  <1>9. ASSUME NEW p \in PatchIds, Resolve(r, p) PROVE SerialRun(r)'
    <2> DEFINE new == [[intake[r] EXCEPT !.node = "stage"] EXCEPT !.patch = p]
    <2>1. intake[r] # None /\ intake[r].node = "resolve" /\ intake[r] \in Intakes
      BY <1>9 DEF Resolve, At
    <2>2. new \in Intakes /\ new.patch = p /\ new.node = "stage" /\ new.doc = intake[r].doc
      BY <2>1 DEF Intakes, Nodes
    <2>3. intake' = [intake EXCEPT ![r] = new]
      BY <1>9, <2>1 DEF Resolve, Intakes
    <2>4. DocOf[p] = intake[r].doc
      BY <1>9 DEF Resolve
    <2> HIDE DEF new
    <2> QED
      BY <1>3, <2>1, <2>2, <2>3, <2>4 DEF SerialInv, SerialRun
  <1>10. SerialRun(r)'
    BY <1>4, <1>5, <1>7, <1>8, <1>9 DEF FrontStep
  <1>11. ASSUME NEW q \in RunIds PROVE SerialRun(q)'
    <2>1. q = r
      OBVIOUS
    <2> QED
      BY <1>10, <2>1
  <1> QED
    BY <1>1, <1>2, <1>11 DEF SerialInv

\* A document is staged only if it was not ingested before.
StagesNew == \A p \in PatchIds : row[p] = None /\ row'[p] # None => DocOf[p] \notin marked

\* The stage node: no patch of the document is open and the document is not
\* ingested, for nobody else was at work since the two were read.
LEMMA SerialStage ==
    ASSUME \A q, r \in RunIds : q = r, PipelineInv, SerialInv, NEW r \in RunIds, Stage(r)
    PROVE  SerialInv' /\ StagesNew
  <1> USE DEF PipelineInv, PipelineTypeOK
  <1> DEFINE p == intake[r].patch
  <1>1. /\ p \in PatchIds /\ pc[r] = "idle"
        /\ DocOf[p] \notin marked /\ ~PendingFor(DocOf[p])
    <2>1. intake[r] # None /\ intake[r].node = "stage"
      BY DEF Stage, At
    <2>2. p \in PatchIds /\ pc[r] = "idle"
      BY <2>1 DEF RunShape
    <2> QED
      BY <2>1, <2>2 DEF SerialInv, SerialRun
  <1>2. /\ UNCHANGED <<ckpt, marked>>
        /\ intake' = [intake EXCEPT ![r] = None]
        /\ row' = [row EXCEPT ![p] = "pending"]
        /\ opened' \in {opened, opened \cup {p}}
    BY DEF Stage
  <1>3. \/ pc' = [pc EXCEPT ![r] = "idle"]
        \/ /\ pc' = [pc EXCEPT ![r] = "loop"] /\ patch' = [patch EXCEPT ![r] = p]
           /\ working' = [working EXCEPT ![r] = ckpt]
    BY DEF Stage
  <1> HIDE DEF p
  <1>4. OnePending'
    BY <1>1, <1>2 DEF SerialInv, OnePending, PendingFor
  <1>5. \A q \in PatchIds : SerialRow(q)'
    BY <1>1, <1>2, PipelineAssumption DEF SerialInv, SerialRow, Undecided, Pending, OpsOf
  <1>6. ASSUME NEW q \in RunIds PROVE SerialRun(q)'
    <2>1. q = r
      OBVIOUS
    <2>2. intake'[r] = None
      BY <1>2
    <2>3. pc'[r] # "idle" =>
            /\ row'[patch'[r]] # None
            /\ Pending(patch'[r], working'[r]) = Pending(patch'[r], ckpt')
      BY <1>1, <1>2, <1>3, PipelineAssumption DEF GateTypeOK, EngineTypeOK, Pending
    <2> QED
      BY <2>1, <2>2, <2>3 DEF SerialRun, Pending, OpsOf
  <1>7. StagesNew
    BY <1>1, <1>2 DEF StagesNew
  <1> QED
    BY <1>4, <1>5, <1>6, <1>7 DEF SerialInv

\* Behind the gate.
LEMMA SerialBack ==
    ASSUME \A q, r \in RunIds : q = r, PipelineInv, AuditInv, SerialInv, NEW r \in RunIds,
           \/ \E p \in PatchIds : ReviewCommand(r, p)
           \/ SaveDecision(r) \/ ReviewReturns(r) \/ CommitPatch(r) \/ SavePatch(r)
           \/ MarkDocument(r) \/ IndexAndReturn(r) \/ Die(r)
    PROVE  SerialInv' /\ StagesNew
  <1> USE DEF PipelineInv, PipelineTypeOK, GateTypeOK, EngineTypeOK
  <1> DEFINE Claim == SerialInv' /\ StagesNew
  <1>1. ASSUME SerialRun(r)', OnePending', \A p \in PatchIds : SerialRow(p)', StagesNew
        PROVE  Claim
    <2>1. ASSUME NEW q \in RunIds PROVE SerialRun(q)'
      <3>1. q = r
        OBVIOUS
      <3> QED
        BY <1>1, <3>1
    <2> QED
      BY <1>1, <2>1 DEF SerialInv
  \* Steps that leave the rows alone and decide, if anything, ops of the checkpoint.
  <1>2. ASSUME UNCHANGED <<row, opened>>, SerialRun(r)',
               \A p \in PatchIds : Pending(p, ckpt') \subseteq Pending(p, ckpt)
        PROVE  Claim
    <2>1. OnePending' /\ StagesNew
      BY <1>2 DEF SerialInv, OnePending, StagesNew
    <2>2. \A p \in PatchIds : SerialRow(p)'
      BY <1>2 DEF SerialInv, SerialRow, Undecided, Pending, OpsOf
    <2> QED
      BY <1>1, <1>2, <2>1, <2>2
  <1>3. ASSUME NEW p \in PatchIds, ReviewCommand(r, p) PROVE Claim
    <2>1. /\ Resume(r, p) /\ UNCHANGED <<intake, stores>> /\ p \in opened /\ intake[r] = None
      BY <1>3 DEF ReviewCommand, Free
    <2>2. /\ ckpt' = ckpt /\ patch'[r] = p /\ working'[r] = ckpt /\ row' = row
      BY <2>1 DEF Resume, stores
    <2>3. row[p] # None
      BY <2>1 DEF SerialInv, SerialRow
    <2>4. SerialRun(r)'
      BY <2>1, <2>2, <2>3 DEF SerialRun, Pending, OpsOf
    <2> QED
      BY <1>2, <2>1, <2>2, <2>4 DEF stores
  <1>4. ASSUME SaveDecision(r) PROVE Claim
    <2>1. UNCHANGED <<pc, patch, working, ckpt, intake, row, opened, marked>>
      BY <1>4 DEF SaveDecision, vars, engine, call
    <2>2. SerialRun(r)'
      BY <2>1 DEF SerialInv, SerialRun, PendingFor, Pending, OpsOf
    <2> QED
      BY <1>2, <2>1, <2>2
  <1>5. ASSUME ReviewReturns(r) PROVE Claim
    <2>1. PICK accepted, rejected \in SUBSET Pending(patch[r], working[r]) :
             /\ working' = [working EXCEPT ![r] = Decided(working[r], accepted, rejected)]
             /\ ckpt' = OfPatch(patch[r], Decided(working[r], accepted, rejected), ckpt)
      BY <1>5 DEF ReviewReturns, Review
    <2>2. /\ UNCHANGED <<patch, intake, row, opened>> /\ pc[r] = "gate" /\ intake[r] = None
      BY <1>5 DEF ReviewReturns, Review, stores, RunShape
    <2>3. \A o \in OpIds : ckpt'[o] = IF o \in OpsOf(patch[r]) THEN working'[r][o] ELSE ckpt[o]
      BY <2>1 DEF OfPatch
    <2>4. \A o \in OpIds : working'[r][o] = "pending" => working[r][o] = "pending"
      BY <2>1 DEF Decided, Pending, OpsOf
    <2>5. Pending(patch[r], working[r]) = Pending(patch[r], ckpt)
      BY <2>2 DEF SerialInv, SerialRun
    <2>6. \A p \in PatchIds : Pending(p, ckpt') \subseteq Pending(p, ckpt)
      BY <2>3, <2>4, <2>5 DEF Pending, OpsOf
    <2>7. Pending(patch[r], working'[r]) = Pending(patch[r], ckpt')
      BY <2>3 DEF Pending, OpsOf
    <2>8. SerialRun(r)'
      BY <2>2, <2>7 DEF SerialInv, SerialRun, Pending, OpsOf
    <2> QED
      BY <1>2, <2>2, <2>6, <2>8
  <1>6. ASSUME CommitPatch(r) PROVE Claim
    <2>1. EngineStep(r) /\ UNCHANGED <<ckpt, intake, row, opened>>
      BY <1>6 DEF CommitPatch, Commit, stores
    <2>2. /\ pc[r] # "idle" /\ Tightens(r) /\ Leaves(r)
          /\ pc'[r] # "idle" => patch'[r] = patch[r]
      BY <2>1, EngineFrame, EngineOthers, EngineAudit DEF AuditInv
    <2>3. intake'[r] = None
      BY <2>1, <2>2 DEF RunShape
    <2>4. pc'[r] # "idle" => Pending(patch'[r], working'[r]) = Pending(patch[r], working[r])
      BY <2>2 DEF Tightens, Leaves, Pending
    <2>5. SerialRun(r)'
      BY <2>1, <2>2, <2>3, <2>4 DEF SerialInv, SerialRun, Pending, OpsOf
    <2> QED
      BY <1>2, <2>1, <2>5
  <1>7. ASSUME MarkDocument(r) PROVE Claim
    <2>1. UNCHANGED <<pc, patch, working, ckpt, intake, row, opened>>
      BY <1>7 DEF MarkDocument, vars, engine, call
    <2>2. intake[r] = None
      BY <1>7 DEF MarkDocument, RunShape, Walked
    <2>3. SerialRun(r)'
      BY <2>1, <2>2 DEF SerialInv, SerialRun, Pending, OpsOf
    <2> QED
      BY <1>2, <2>1, <2>3
  <1>8. ASSUME SavePatch(r) PROVE Claim
    <2>1. /\ UNCHANGED <<pc, patch, working, ckpt, intake, opened>>
          /\ pc[r] = "loop" /\ row' = [row EXCEPT ![patch[r]] = RowStatus(r)]
      BY <1>8 DEF SavePatch, Walked, vars, engine, call
    <2>2. /\ patch[r] \in PatchIds /\ intake[r] = None /\ row[patch[r]] # None
          /\ Pending(patch[r], working[r]) = Pending(patch[r], ckpt)
      BY <2>1 DEF RunShape, SerialInv, SerialRun
    <2>3. /\ RowStatus(r) \in {"pending", "requeued", "committed"} /\ RowStatus(r) # None
          /\ RowStatus(r) = "pending" <=> Undecided(patch[r], ckpt)
      BY <2>2, RowStatusFacts DEF RowStatus, Undecided
    <2>4. RowStatus(r) = "pending" => row[patch[r]] = "pending"
      BY <2>2, <2>3 DEF SerialInv, SerialRow
    <2>5. OnePending'
      BY <2>1, <2>2, <2>4 DEF SerialInv, OnePending
    <2>6. \A p \in PatchIds : SerialRow(p)'
      BY <2>1, <2>2, <2>3 DEF SerialInv, SerialRow, Undecided, Pending, OpsOf
    <2>7. SerialRun(r)'
      BY <2>1, <2>2, <2>3 DEF SerialInv, SerialRun, Pending, OpsOf
    <2>8. StagesNew
      BY <2>1, <2>2 DEF StagesNew
    <2> QED
      BY <1>1, <2>5, <2>6, <2>7, <2>8
  <1>9. ASSUME IndexAndReturn(r) PROVE Claim
    <2>1. UNCHANGED <<intake, row, opened>> /\ pc'[r] = "idle" /\ pc[r] = "loop"
      BY <1>9 DEF IndexAndReturn, Return, Walked, Forget
    <2>2. \A o \in OpIds : ckpt'[o] = IF o \in OpsOf(patch[r]) THEN working[r][o] ELSE ckpt[o]
      BY <1>9 DEF IndexAndReturn, Return, OfPatch
    <2>3. Pending(patch[r], working[r]) = Pending(patch[r], ckpt) /\ intake[r] = None
      BY <2>1 DEF SerialInv, SerialRun, RunShape
    <2>4. \A p \in PatchIds : Pending(p, ckpt') \subseteq Pending(p, ckpt)
      BY <2>2, <2>3 DEF Pending, OpsOf
    <2>5. SerialRun(r)'
      BY <2>1, <2>3 DEF SerialRun
    <2> QED
      BY <1>2, <2>1, <2>4, <2>5
  <1>10. ASSUME Die(r) PROVE Claim
    <2>1. UNCHANGED <<row, opened>> /\ intake'[r] = None
      BY <1>10 DEF Die, stores
    <2>2. pc'[r] = "idle" /\ ckpt' = ckpt
      BY <1>10 DEF Die, Crash, Forget, vars, engine, call
    <2>3. SerialRun(r)'
      BY <2>1, <2>2 DEF SerialRun
    <2> QED
      BY <1>2, <2>1, <2>2, <2>3
  <1> QED
    BY <1>3, <1>4, <1>5, <1>6, <1>7, <1>8, <1>9, <1>10

LEMMA SerialStep ==
    ASSUME \A q, r \in RunIds : q = r, PipelineInv, AuditInv, SerialInv,
           [PipelineNext]_pipeline
    PROVE  SerialInv' /\ StagesNew
  <1>1. CASE UNCHANGED pipeline
    <2>1. UNCHANGED <<pc, patch, working, ckpt, intake, row, opened, marked>>
      BY <1>1 DEF pipeline, vars, engine, call, stores
    <2>2. \A r \in RunIds : SerialRun(r)'
      BY <2>1 DEF SerialInv, SerialRun, PendingFor, Pending, OpsOf
    <2>3. \A p \in PatchIds : SerialRow(p)'
      BY <2>1 DEF SerialInv, SerialRow, Undecided, Pending, OpsOf
    <2> QED
      BY <2>1, <2>2, <2>3 DEF SerialInv, OnePending, StagesNew
  <1>2. ASSUME NEW r \in RunIds, FrontStep(r) PROVE SerialInv' /\ StagesNew
    BY <1>2, SerialFront DEF StagesNew
  <1>3. ASSUME NEW r \in RunIds, Stage(r) PROVE SerialInv' /\ StagesNew
    BY <1>3, SerialStage
  <1>4. ASSUME NEW r \in RunIds,
               \/ \E p \in PatchIds : ReviewCommand(r, p)
               \/ SaveDecision(r) \/ ReviewReturns(r) \/ CommitPatch(r) \/ SavePatch(r)
               \/ MarkDocument(r) \/ IndexAndReturn(r) \/ Die(r)
        PROVE  SerialInv' /\ StagesNew
    BY <1>4, SerialBack
  <1> QED
    BY <1>1, <1>2, <1>3, <1>4 DEF PipelineNext, PipelineStep, FrontStep

\* While one process works at a time, a document never has two patches under way
\* and is not staged again once it is ingested, however often processes die and
\* `kgi ingest` is repeated.  (With two the intake lock fails: see the run of
\* OnePending with two processes.)
THEOREM SerialIntake ==
    ASSUME \A q, r \in RunIds : q = r
    PROVE  PipelineSpec => []OnePending /\ IngestedOnce
  <1>1. PipelineInv /\ AuditInv /\ SerialInv /\ [PipelineNext]_pipeline
           => SerialInv' /\ [StagesNew]_pipeline
    BY SerialStep
  <1>2. PipelineInv /\ PipelineInv' /\ AuditInv /\ [PipelineNext]_pipeline => AuditInv'
    BY AuditStep DEF PipelineInv, PipelineTypeOK
  <1>3. SerialInv => OnePending
    BY DEF SerialInv
  <1> QED
    BY <1>1, <1>2, <1>3, PipelineInvInit, PipelineInvStep, AuditInit, SerialInit, PTL
       DEF PipelineSpec, IngestedOnce, StagesNew

\* No step stages a patch of a document that is marked as ingested, however often
\* processes die and `kgi ingest` is repeated.
THEOREM SerialIngestedOnce ==
    ASSUME \A q, r \in RunIds : q = r
    PROVE  PipelineSpec => IngestedOnce
  BY SerialIntake, PTL
=============================================================================
