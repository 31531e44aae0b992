------------------------- MODULE PatchClosureProofs -------------------------
(***************************************************************************)
(* The end of the path: the staging row, its json, the thread's checkpoint *)
(* and the document mark agree, wherever a process dies, as long as one    *)
(* process works at a time and no thread id is used twice.                 *)
(***************************************************************************)
EXTENDS IngestPipelineProofs, LifecycleProofs

\* No later pass can settle anything of a closed patch: it shows no op that is
\* undecided or waits for its write, and an approved op whose verdict a death kept
\* from the checkpoint has been applied or lacks a dependency for good.
ClosedRow(p) ==
    row[p] = "committed" =>
        \A o \in OpsOf(p) :
            /\ json[o] \notin {"pending", "approved"}
            /\ ckpt[o] = "approved" /\ o \notin ledger => ~(op[o].depends_on \subseteq ledger)

\* A patch at the gate shows what the gate asks.
ParkedRow(p) ==
    row[p] # None /\ at[p] = "review" =>
        row[p] = "pending" /\ Pending(p, json) = Pending(p, ckpt)

\* Past the gate a thread stands at the commit node; past SavePatch the row has
\* what the pass found.
PassSaved(r) ==
    /\ pc[r] \in {"loop", "rebase", "write"} => at[patch[r]] = "commit"
    /\ tail[r] # "walk" =>
          /\ row[patch[r]] = RowStatus(r)
          /\ \A o \in OpsOf(patch[r]) : json[o] = working[r][o]

MarkedRow == \A d \in marked : \E p \in PatchIds : DocOf[p] = d /\ row[p] = "committed"

ClosureInv ==
    /\ \A p \in PatchIds : ClosedRow(p) /\ ParkedRow(p)
    /\ \A r \in RunIds : PassSaved(r)
    /\ MarkedRow

\* What is known of the pipeline without it.
Known == InductiveInv /\ Staging /\ VerdictInv /\ PipelineInv /\ AuditInv /\ SerialInv

Alone == \A q, r \in RunIds : q = r

\* A run on a closed patch opens no transaction and requeues nothing.
LEMMA ClosedStays ==
    ASSUME InductiveInv, VerdictInv, NEW r \in RunIds, ClosedRow(patch[r]),
           row[patch[r]] = "committed"
    PROVE  pc[r] \notin {"rebase", "write"} /\ ~Reported(r, "requeued")
  <1>1. pc[r] \notin {"rebase", "write"}
    <2> SUFFICES ASSUME pc[r] \in {"rebase", "write"} PROVE FALSE
      OBVIOUS
    <2>1. /\ current[r] \in OpsOf(patch[r]) /\ current[r] \notin ledger
          /\ ckpt[current[r]] = "approved"
      BY DEF VerdictInv, WalkKnown
    <2>2. op[current[r]].depends_on \subseteq ledger
      BY <2>1, PatchOps DEF InductiveInv, CallInv, RunInv
    <2> QED
      BY <2>1, <2>2 DEF ClosedRow
  <1>2. ASSUME NEW o \in OpIds, report[r][o] = "requeued" PROVE FALSE
    <2>1. o \in OpsOf(patch[r])
      BY <1>2, OutcomeFacts DEF VerdictInv, WalkKnown
    <2>2. ckpt[o] = "approved" /\ o \notin ledger /\ op[o].depends_on \subseteq ledger
      BY <1>2, <2>1 DEF VerdictInv, WalkKnown, OpKnown, Failed
    <2> QED
      BY <2>1, <2>2 DEF ClosedRow
  <1> QED
    BY <1>1, <1>2 DEF Reported

\* At the end of a pass no op of the patch is left approved.
LEMMA PassSettles ==
    ASSUME InductiveInv, VerdictInv, NEW r \in RunIds, Walked(r), NEW o \in OpsOf(patch[r])
    PROVE  /\ working[r][o] # "approved"
           /\ ckpt[o] = "approved" /\ o \notin ledger /\ ~Reported(r, "requeued")
                 => ~(op[o].depends_on \subseteq ledger)
  <1>1. o \in OpIds /\ OpKnown(r, o)
    BY PatchOps DEF VerdictInv, WalkKnown
  <1>2. report[r][o] \in {"committed", "requeued", "blocked", "skipped"}
    BY <1>1, OutcomeFacts
       DEF Walked, Remaining, InductiveInv, GateTypeOK, EngineTypeOK, Failed
  <1>3. report[r][o] = "committed" => o \in ledger
    BY <1>1 DEF InductiveInv, CallInv, RunInv
  <1>4. report[r][o] = "blocked" => ~(op[o].depends_on \subseteq ledger)
    BY <1>1, FailedAbsent DEF OpKnown
  <1>5. report[r][o] = "requeued" => Reported(r, "requeued")
    BY <1>1 DEF Reported
  <1> QED
    BY <1>1, <1>2, <1>3, <1>4, <1>5, OutcomeFacts DEF OpKnown

\* Before the gate.
LEMMA FrontClosure ==
    ASSUME ~ThreadReuse, Known, ClosureInv, NEW r \in RunIds, FrontStep(r)
    PROVE  ClosureInv'
  <1>1. UNCHANGED at \/ \E p \in PatchIds : row[p] = None /\ Arrive(p)
    BY FrontRefines DEF Known, InductiveInv, vars
  <1>2. \A p \in PatchIds : row[p] # None => at'[p] = at[p]
    BY <1>1 DEF Arrive, Begin, Known, InductiveInv, GateTypeOK
  <1>3. UNCHANGED <<engine, ckpt, row, json, marked, tail>>
    BY FrontFrame DEF stores
  <1>4. \A p \in PatchIds : ClosedRow(p)' /\ ParkedRow(p)'
    BY <1>2, <1>3, EngineAssumption, PipelineAssumption
       DEF ClosureInv, engine, graph, ClosedRow, ParkedRow, Pending, OpsOf
  <1>5. \A q \in RunIds : PassSaved(q)'
    <2> SUFFICES ASSUME NEW q \in RunIds PROVE PassSaved(q)'
      OBVIOUS
    <2>1. /\ UNCHANGED <<pc, patch, working, report>>
          /\ tail[q] # "walk" => pc[q] = "loop"
      BY <1>3 DEF engine, call, Known, PipelineInv, RunShape, Walked
    <2>2. pc[q] # "idle" => patch[q] \in PatchIds /\ row[patch[q]] # None
      BY DEF Known, PipelineInv, RunShape, SerialInv, SerialRun
    <2>3. pc[q] # "idle" => at'[patch[q]] = at[patch[q]]
      BY <1>2, <2>2
    <2>4. PassSaved(q)
      BY DEF ClosureInv
    <2> QED
      BY <1>3, <2>1, <2>3, <2>4
         DEF PassSaved, OpsOf, RowStatus, Undecided, Pending, Reported
  <1>6. MarkedRow'
    BY <1>3 DEF ClosureInv, MarkedRow
  <1> QED
    BY <1>4, <1>5, <1>6 DEF ClosureInv

\* The stage node writes the row of a patch that had none.
LEMMA StageClosure ==
    ASSUME Known, ClosureInv, NEW r \in RunIds, Stage(r), Alone
    PROVE  ClosureInv'
  <1> USE DEF Known, PipelineInv, PipelineTypeOK, GateTypeOK, EngineTypeOK, Alone
  <1>1. PICK p \in PatchIds :
           /\ p = intake[r].patch /\ row[p] = None /\ at[p] \in {"review", "commit"}
           /\ pc[r] = "idle" /\ tail[r] = "walk"
    <2>1. intake[r] # None /\ intake[r].node = "stage"
      BY DEF Stage, At
    <2>2. intake[r].patch \in PatchIds /\ pc[r] = "idle" /\ intake[r].patch # None
      BY <2>1 DEF RunShape, Staging
    <2>3. row[intake[r].patch] = None /\ at[intake[r].patch] \notin {"new", "end"}
      BY <2>1, <2>2 DEF Staging
    <2> QED
      BY <2>2, <2>3 DEF RunShape, Walked
  <1>2. /\ row' = [row EXCEPT ![p] = "pending"] /\ json' = OfPatch(p, ckpt, json)
        /\ UNCHANGED <<ckpt, ledger, at, marked, tail>>
        /\ pc'[r] \in {"loop", "rebase", "write"} => at[p] # "review" /\ patch'[r] = p
    BY <1>1 DEF Stage, graph
  <1>3. \A q \in PatchIds : ClosedRow(q)' /\ ParkedRow(q)'
    <2> SUFFICES ASSUME NEW q \in PatchIds PROVE ClosedRow(q)' /\ ParkedRow(q)'
      OBVIOUS
    <2>1. CASE q = p
      BY <1>1, <1>2, <2>1, PatchOps DEF ClosedRow, ParkedRow, OfPatch, Pending, OpsOf
    <2>2. CASE q # p
      <3>1. row'[q] = row[q] /\ \A o \in OpsOf(q) : json'[o] = json[o]
        BY <1>2, <2>2, PatchOps DEF OfPatch
      <3> QED
        BY <1>2, <3>1 DEF ClosureInv, ClosedRow, ParkedRow, Pending, OpsOf
    <2> QED
      BY <2>1, <2>2
  <1>4. \A q \in RunIds : PassSaved(q)'
    BY <1>1, <1>2 DEF PassSaved
  <1>5. MarkedRow'
    BY <1>1, <1>2, PipelineAssumption DEF ClosureInv, MarkedRow
  <1> QED
    BY <1>3, <1>4, <1>5 DEF ClosureInv

\* Where rows, jsons and marks stay and the checkpoint of a closed patch leaves no
\* more approved than it had.
LEMMA ClosureFrame ==
    ASSUME Known, ClosureInv, NEW r \in RunIds, Alone,
           UNCHANGED <<row, json, marked>>, PassSaved(r)',
           \A p \in PatchIds : row[p] = "committed" =>
              \A o \in OpsOf(p) : /\ ckpt'[o] = "approved" => ckpt[o] = "approved"
                                  /\ o \in ledger' <=> o \in ledger,
           \A p \in PatchIds : row[p] # None /\ at'[p] = "review" =>
              row[p] = "pending" /\ Pending(p, json) = Pending(p, ckpt')
    PROVE  ClosureInv'
  <1>1. ASSUME NEW p \in PatchIds PROVE ClosedRow(p)' /\ ParkedRow(p)'
    <2>1. ClosedRow(p)'
      BY PatchOps DEF ClosureInv, ClosedRow, OpsOf
    <2>2. ParkedRow(p)'
      BY DEF ParkedRow, Pending, OpsOf
    <2> QED
      BY <2>1, <2>2
  <1>2. \A q \in RunIds : PassSaved(q)'
    BY DEF Alone
  <1> QED
    BY <1>1, <1>2 DEF ClosureInv, MarkedRow

\* The reviewer's command and the review node.
LEMMA GateClosure ==
    ASSUME Known, ClosureInv, NEW r \in RunIds, Alone,
           \/ \E p \in PatchIds : ReviewCommand(r, p)
           \/ SaveDecision(r) \/ ReviewReturns(r)
    PROVE  ClosureInv'
  <1> USE DEF Known, PipelineInv, PipelineTypeOK, GateTypeOK, EngineTypeOK
  <1>1. ASSUME UNCHANGED <<row, json, marked, ckpt, ledger, at>>, PassSaved(r)'
        PROVE  ClosureInv'
    BY <1>1, ClosureFrame DEF ClosureInv, ParkedRow
  <1>2. ASSUME NEW p \in PatchIds, ReviewCommand(r, p) PROVE ClosureInv'
    <2>1. /\ UNCHANGED <<row, json, marked, ckpt, ledger, at, tail>> /\ patch'[r] = p
          /\ pc[r] = "idle" /\ at[p] \in {"review", "commit"}
          /\ pc'[r] = IF at[p] = "review" THEN "gate" ELSE "loop"
      BY <1>2 DEF ReviewCommand, Resume, stores, graph
    <2>2. tail[r] = "walk"
      BY <2>1 DEF RunShape, Walked
    <2>3. PassSaved(r)'
      BY <2>1, <2>2 DEF PassSaved
    <2> QED
      BY <1>1, <2>1, <2>3
  <1>3. CASE SaveDecision(r)
    <2>1. UNCHANGED <<row, json, marked, vars, tail>>
      BY <1>3 DEF SaveDecision
    <2>2. PassSaved(r)'
      BY <2>1 DEF vars, engine, call, ClosureInv, PassSaved, RowStatus, Undecided, Pending,
         OpsOf, Reported
    <2> QED
      BY <1>1, <2>1, <2>2 DEF vars, engine, graph
  <1>4. CASE ReviewReturns(r)
    <2>1. PICK accepted, rejected \in SUBSET Pending(patch[r], working[r]) :
             ckpt' = OfPatch(patch[r], Decided(working[r], accepted, rejected), ckpt)
      BY <1>4 DEF ReviewReturns, Review
    <2>2. /\ UNCHANGED <<row, json, marked, ledger, patch, tail>> /\ pc[r] = "gate"
          /\ at' = [at EXCEPT ![patch[r]] = "commit"]
      BY <1>4 DEF ReviewReturns, Review, stores, graph
    <2>3. patch[r] \in PatchIds /\ tail[r] = "walk"
      BY <2>2 DEF RunShape, Walked
    <2>4. PassSaved(r)'
      BY <2>2, <2>3 DEF PassSaved
    <2>5. \A o \in OpsOf(patch[r]) : o \in OpIds /\ working[r][o] = ckpt[o]
      BY <2>2, PatchOps DEF VerdictInv, WalkKnown, OpKnown, NoReport
    <2>6. \A o \in OpIds : ckpt[o] # "pending" => ckpt'[o] = ckpt[o]
      BY <2>1, <2>5 DEF OfPatch, Decided, Pending
    <2>7. \A o \in OpIds \ OpsOf(patch[r]) : ckpt'[o] = ckpt[o]
      BY <2>1 DEF OfPatch
    <2>8. ASSUME NEW p \in PatchIds, row[p] = "committed", NEW o \in OpsOf(p)
          PROVE  ckpt'[o] = ckpt[o]
      BY <2>6, <2>8, PatchOps DEF SerialInv, SerialRow, Undecided, Pending
    <2>9. ASSUME NEW p \in PatchIds, row[p] # None, at'[p] = "review"
          PROVE  row[p] = "pending" /\ Pending(p, json) = Pending(p, ckpt')
      <3>1. p # patch[r] /\ at[p] = "review"
        BY <2>2, <2>3, <2>9
      <3>2. \A o \in OpsOf(p) : ckpt'[o] = ckpt[o]
        BY <2>7, <3>1, PatchOps
      <3> QED
        BY <2>9, <3>1, <3>2 DEF ClosureInv, ParkedRow, Pending
    <2> QED
      BY <2>2, <2>4, <2>8, <2>9, ClosureFrame
  <1> QED
    BY <1>2, <1>3, <1>4

\* commit_patch.
LEMMA WalkClosure ==
    ASSUME Known, ClosureInv, NEW r \in RunIds, Alone, CommitPatch(r)
    PROVE  ClosureInv'
  <1> USE DEF Known, PipelineInv, PipelineTypeOK, GateTypeOK, EngineTypeOK
  <1>1. /\ EngineStep(r) /\ UNCHANGED <<ckpt, at, row, json, marked, tail>>
    BY DEF CommitPatch, Commit, stores
  <1>2. tail[r] = "walk"
    BY <1>1, WalkedStays DEF RunShape
  <1>3. /\ pc[r] \in {"loop", "rebase", "write"}
        /\ pc'[r] # "idle" => patch'[r] = patch[r]
    <2>1. \A o \in OpIds : Apply(r, o) => pc[r] = "write"
      BY DEF Apply, Applies, ApplyCreateNode, ApplyUpdateNodeProps, ApplyMergeInto,
         ApplyAssertEdge, ApplyInvalidateEdge, ApplyReinforceEdge
    <2> QED
      BY <1>1, <2>1, EngineOthers DEF EngineStep, Skip, Block, LedgerHit, LedgerMiss, Reached,
         Requeue, RebaseHolds, LedgerCollision, Retry
  <1>4. PassSaved(r)'
    BY <1>1, <1>2, <1>3 DEF ClosureInv, PassSaved
  <1>5. ASSUME NEW p \in PatchIds, row[p] = "committed", NEW o \in OpsOf(p)
        PROVE  o \in ledger' <=> o \in ledger
    <2>1. ASSUME NEW d \in OpIds, Apply(r, d) PROVE ledger' = ledger \cup {d} /\ d \notin OpsOf(p)
      <3>1. ledger' = ledger \cup {d} /\ pc[r] = "write" /\ d = current[r]
        BY <2>1 DEF Apply, Applies, ApplyCreateNode, ApplyUpdateNodeProps, ApplyMergeInto,
           ApplyAssertEdge, ApplyInvalidateEdge, ApplyReinforceEdge
      <3>2. d \in OpsOf(patch[r]) /\ patch[r] \in PatchIds
        BY <3>1 DEF VerdictInv, WalkKnown, RunShape
      <3>3. row[patch[r]] # "committed"
        BY <3>1, <3>2, ClosedStays DEF ClosureInv
      <3> QED
        BY <1>5, <3>1, <3>2, <3>3, PatchOps
    <2>2. (\E d \in OpIds : Apply(r, d)) \/ UNCHANGED ledger
      BY <1>1 DEF EngineStep, Skip, Block, LedgerHit, LedgerMiss, Retry, Requeue, RebaseHolds,
         LedgerCollision, graph
    <2> QED
      BY <2>1, <2>2
  <1> QED
    BY <1>1, <1>4, <1>5, ClosureFrame DEF ClosureInv, ParkedRow

\* save_patch: the row is closed only when the pass settled everything, and a
\* closed row stays closed when the pass is repeated after a death.
LEMMA SaveClosure ==
    ASSUME Known, ClosureInv, NEW r \in RunIds, Alone, SavePatch(r)
    PROVE  ClosureInv'
  <1> USE DEF Known, PipelineInv, PipelineTypeOK, GateTypeOK, EngineTypeOK, Alone
  <1>1. PICK p \in PatchIds : p = patch[r] /\ pc[r] = "loop" /\ Walked(r) /\ at[p] = "commit"
    BY DEF SavePatch, Walked, RunShape, ClosureInv, PassSaved
  <1>2. /\ UNCHANGED <<vars, marked>> /\ row' = [row EXCEPT ![p] = RowStatus(r)]
        /\ json' = OfPatch(p, working[r], json)
    BY <1>1 DEF SavePatch
  <1>3. \A o \in OpsOf(p) : json'[o] = working[r][o]
    BY <1>2, PatchOps DEF OfPatch
  <1>4. RowStatus(r) = "committed" => ~Undecided(p, working[r]) /\ ~Reported(r, "requeued")
    BY <1>1, EngineAssumption DEF RowStatus
  <1>5. row[p] = "committed" => RowStatus(r) = "committed"
    <2> SUFFICES ASSUME row[p] = "committed" PROVE RowStatus(r) = "committed"
      OBVIOUS
    <2>1. ~Undecided(p, working[r])
      BY <1>1 DEF SerialInv, SerialRun, SerialRow, Undecided
    <2>2. ~Reported(r, "requeued")
      BY <1>1, ClosedStays DEF ClosureInv
    <2> QED
      BY <1>1, <2>1, <2>2 DEF RowStatus
  <1>6. ASSUME NEW q \in PatchIds PROVE ClosedRow(q)' /\ ParkedRow(q)'
    <2>1. CASE q = p
      <3>1. ParkedRow(q)'
        BY <1>1, <1>2, <2>1 DEF vars, ParkedRow
      <3>2. ASSUME RowStatus(r) = "committed", NEW o \in OpsOf(p)
            PROVE  /\ json'[o] \notin {"pending", "approved"}
                   /\ ckpt[o] = "approved" /\ o \notin ledger => ~(op[o].depends_on \subseteq ledger)
        BY <1>1, <1>3, <1>4, <3>2, PassSettles DEF Undecided, Pending
      <3>3. row'[q] = RowStatus(r)
        BY <1>2, <2>1
      <3> QED
        BY <1>2, <2>1, <3>1, <3>2, <3>3 DEF vars, engine, graph, ClosedRow, OpsOf
    <2>2. CASE q # p
      <3>1. row'[q] = row[q] /\ \A o \in OpsOf(q) : json'[o] = json[o]
        BY <1>2, <2>2, PatchOps DEF OfPatch
      <3> QED
        BY <1>2, <3>1
           DEF vars, engine, graph, ClosureInv, ClosedRow, ParkedRow, Pending, OpsOf
    <2> QED
      BY <2>1, <2>2
  <1>7. PassSaved(r)'
    <2>1. UNCHANGED <<pc, patch, at, working, report>>
      BY <1>2 DEF vars, engine, call
    <2>2. RowStatus(r)' = RowStatus(r)
      BY <2>1 DEF RowStatus, Undecided, Pending, OpsOf, Reported
    <2> QED
      BY <1>1, <1>2, <1>3, <2>1, <2>2 DEF PassSaved, OpsOf
  <1>8. MarkedRow'
    BY <1>2, <1>5 DEF ClosureInv, MarkedRow
  <1> QED
    BY <1>6, <1>7, <1>8 DEF ClosureInv

\* The end of commit_node, and a death.
LEMMA TailClosure ==
    ASSUME Known, ClosureInv, NEW r \in RunIds, Alone,
           MarkDocument(r) \/ IndexAndReturn(r) \/ Die(r)
    PROVE  ClosureInv'
  <1> USE DEF Known, PipelineInv, PipelineTypeOK, GateTypeOK, EngineTypeOK
  <1>1. CASE MarkDocument(r)
    <2>1. /\ UNCHANGED <<vars, row, json>> /\ tail[r] = "saved"
          /\ marked' = IF RowStatus(r) = "committed" THEN marked \cup {DocOf[patch[r]]} ELSE marked
      BY <1>1 DEF MarkDocument
    <2>2. row[patch[r]] = RowStatus(r) /\ patch[r] \in PatchIds
      BY <2>1 DEF ClosureInv, PassSaved, RunShape, Walked
    <2>3. MarkedRow'
      BY <2>1, <2>2 DEF ClosureInv, MarkedRow
    <2>4. \A q \in RunIds : PassSaved(q)'
      <3>1. PassSaved(r)'
        BY <2>1, <2>2 DEF vars, engine, call, ClosureInv, PassSaved, RowStatus, Undecided,
           Pending, OpsOf, Reported
      <3> QED
        BY <3>1 DEF Alone
    <2>5. \A p \in PatchIds : ClosedRow(p)' /\ ParkedRow(p)'
      BY <2>1 DEF vars, engine, graph, ClosureInv, ClosedRow, ParkedRow, Pending, OpsOf
    <2> QED
      BY <2>3, <2>4, <2>5 DEF ClosureInv
  <1>2. CASE IndexAndReturn(r)
    <2>1. PICK p \in PatchIds : p = patch[r] /\ tail[r] = "marked" /\ Walked(r)
      BY <1>2 DEF IndexAndReturn, RunShape, Walked
    <2>2. /\ UNCHANGED <<row, json, marked, ledger>> /\ Forget(r)
          /\ tail' = [tail EXCEPT ![r] = "walk"]
          /\ ckpt' = OfPatch(p, working[r], ckpt)
          /\ at' = [at EXCEPT ![p] = IF Undecided(p, working[r]) THEN "review" ELSE "end"]
      BY <1>2, <2>1 DEF IndexAndReturn, Return, graph
    <2>3. PassSaved(r)'
      BY <2>2 DEF Forget, PassSaved
    <2>4. \A o \in OpIds : ckpt'[o] = IF o \in OpsOf(p) THEN working[r][o] ELSE ckpt[o]
      BY <2>2 DEF OfPatch
    <2>5. ASSUME NEW q \in PatchIds, NEW o \in OpsOf(q), ckpt'[o] = "approved"
          PROVE  ckpt[o] = "approved"
      BY <2>1, <2>4, <2>5, PassSettles, PatchOps
    <2>6. ASSUME NEW q \in PatchIds, row[q] # None, at'[q] = "review"
          PROVE  row[q] = "pending" /\ Pending(q, json) = Pending(q, ckpt')
      <3>1. CASE q = p
        <4>1. Undecided(p, working[r])
          BY <2>2, <2>6, <3>1
        <4>2. row[p] = "pending" /\ \A o \in OpsOf(p) : json[o] = working[r][o]
          BY <2>1, <4>1 DEF ClosureInv, PassSaved, RowStatus
        <4> QED
          BY <2>4, <3>1, <4>2, PatchOps DEF Pending
      <3>2. CASE q # p
        <4>1. at[q] = "review" /\ \A o \in OpsOf(q) : ckpt'[o] = ckpt[o]
          BY <2>2, <2>4, <2>6, <3>2, PatchOps
        <4> QED
          BY <2>6, <4>1 DEF ClosureInv, ParkedRow, Pending
      <3> QED
        BY <3>1, <3>2
    <2> QED
      BY <2>2, <2>3, <2>5, <2>6, ClosureFrame
  <1>3. CASE Die(r)
    <2>1. UNCHANGED <<row, json, marked, ckpt, at, ledger>>
      BY <1>3 DEF Die, Crash, vars, engine, stores, graph
    <2>2. pc'[r] = "idle" /\ tail'[r] = "walk"
      BY <1>3 DEF Die, Crash, Forget, vars, engine, call
    <2>3. PassSaved(r)'
      BY <2>2 DEF PassSaved
    <2> QED
      BY <2>1, <2>3, ClosureFrame DEF ClosureInv, ParkedRow
  <1> QED
    BY <1>1, <1>2, <1>3

LEMMA ClosureInit == PipelineInit => ClosureInv
  <1> SUFFICES ASSUME PipelineInit PROVE ClosureInv
    OBVIOUS
  <1>1. \A p \in PatchIds : row[p] = None
    BY DEF PipelineInit
  <1>2. marked = {} /\ \A r \in RunIds : pc[r] = "idle" /\ tail[r] = "walk"
    BY DEF PipelineInit, Init, EngineInit
  <1> QED
    BY <1>1, <1>2, PipelineAssumption DEF ClosureInv, ClosedRow, ParkedRow, PassSaved, MarkedRow

LEMMA ClosureStep ==
    ASSUME ~ThreadReuse, Alone, Known, ClosureInv, [PipelineNext]_pipeline
    PROVE  ClosureInv'
  <1>1. CASE UNCHANGED pipeline
    BY <1>1 DEF pipeline, vars, engine, graph, call, stores, ClosureInv, ClosedRow, ParkedRow,
       PassSaved, MarkedRow, Pending, OpsOf, RowStatus, Undecided, Reported
  <1>2. ASSUME NEW r \in RunIds, FrontStep(r) PROVE ClosureInv'
    BY <1>2, FrontClosure
  <1>3. ASSUME NEW r \in RunIds,
               \/ \E p \in PatchIds : ReviewCommand(r, p)
               \/ SaveDecision(r) \/ ReviewReturns(r)
        PROVE  ClosureInv'
    BY <1>3, GateClosure
  <1>4. ASSUME NEW r \in RunIds, MarkDocument(r) \/ IndexAndReturn(r) \/ Die(r)
        PROVE  ClosureInv'
    BY <1>4, TailClosure
  <1> QED
    BY <1>1, <1>2, <1>3, <1>4, StageClosure, WalkClosure, SaveClosure
       DEF PipelineNext, PipelineStep, FrontStep

\* Behind its intake the pipeline is the op lifecycle too: the whole path decides,
\* applies and settles an op as docs/lifecycle.md says, and no checkpoint ever
\* tells a lie about canonical.
THEOREM PipelineIsLifecycle ==
    ASSUME ~ThreadReuse, OneRunner
    PROVE  PipelineSpec => ImplementsLifecycle /\ []StatusTruthful
  BY PipelineIsGateLoop, GateImplementsLifecycle, StatusesTruthful, PTL DEF ImplementsGateLoop

\* A document is marked as ingested only when a patch of it is closed with every op
\* settled, also if the process died between the row and the mark; and what the
\* reviewer is shown is what the gate will ask.
THEOREM SerialClosure ==
    ASSUME ~ThreadReuse, \A q, r \in RunIds : q = r
    PROVE  PipelineSpec => [](MarkedClosed /\ BoardMatchesGate)
  <1>1. Alone /\ OneRunner
    BY DEF Alone, OneRunner
  <1>2. PipelineInit => Known /\ ClosureInv
    BY InductiveInit, StagingInit, VerdictInit, PipelineInvInit, AuditInit, SerialInit, ClosureInit
       DEF PipelineInit, Known
  <1>3. Known /\ ClosureInv /\ [PipelineNext]_pipeline => Known' /\ ClosureInv'
    <2> SUFFICES ASSUME Known, ClosureInv, [PipelineNext]_pipeline PROVE Known' /\ ClosureInv'
      OBVIOUS
    <2>1. [Next]_vars /\ Staging'
      BY StepRefines DEF Known
    <2>2. InductiveInv' /\ VerdictInv'
      BY <1>1, <2>1, InductiveStep, VerdictStep DEF Known
    <2>3. PipelineInv'
      BY PipelineInvStep DEF Known
    <2>4. AuditInv' /\ SerialInv'
      BY <1>1, <2>3, AuditStep, SerialStep DEF Known, PipelineInv, PipelineTypeOK, Alone
    <2>5. ClosureInv'
      BY <1>1, ClosureStep
    <2> QED
      BY <2>1, <2>2, <2>3, <2>4, <2>5 DEF Known
  <1>4. ClosureInv => MarkedClosed /\ BoardMatchesGate
    BY DEF ClosureInv, MarkedRow, ClosedRow, ParkedRow, MarkedClosed, BoardMatchesGate
  <1> QED
    BY <1>2, <1>3, <1>4, PTL DEF PipelineSpec

\* The row a reviewer is shown and the interrupt the gate waits in say the same,
\* whichever of the two was saved last before a process died.
THEOREM SerialBoard ==
    ASSUME ~ThreadReuse, \A q, r \in RunIds : q = r
    PROVE  PipelineSpec => []BoardMatchesGate
  BY SerialClosure, PTL
=============================================================================
