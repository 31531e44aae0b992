--------------------------- MODULE GateLoopProofs ---------------------------
(***************************************************************************)
(* Theorems about the commit engine under the review gate, for any number  *)
(* of processes, patches and ops, with crashes at every step and without   *)
(* any exclusion between processes on one thread (Exclusive is arbitrary). *)
(***************************************************************************)
EXTENDS GateLoop, TLAPS

\* The four lists of a report only hold settled ops.
LEMMA OutcomeFacts ==
    /\ "committed" # None /\ "skipped" # None /\ "blocked" # None /\ "requeued" # None
    /\ None \notin Failed
    /\ Outcomes = Failed \cup {"committed", None}
  BY EngineAssumption DEF Failed, Outcomes

\* Two ops never mint the same id.
LEMMA MintFacts ==
    /\ \A o, d \in OpIds : Mint(o) = Mint(d) => o = d
    /\ \A o \in OpIds : Mint(o) \in NodeIds /\ Mint(o) \in EdgeIds
    /\ \A o \in OpIds : Mint(o) \notin Node0 /\ Mint(o) \notin Edge0
  BY EngineAssumption DEF Mint, NodeIds, EdgeIds

\* The canonical id an op introduces is a node id.
LEMMA IntroducedType == \A o \in OpIds : IntroducesId(o) => Introduced(o) \in NodeIds
  BY EngineAssumption, MintFacts DEF IntroducesId, Introduced

LEMMA OpTypes ==
    \A o \in OpIds :
        /\ op[o].patch_id \in PatchIds
        /\ op[o].depends_on \subseteq OpIds
        /\ op[o].name \in Names \cup {None}
        /\ op[o].value \in Values \cup {None}
        /\ op[o].predicate \in Predicates \cup {None}
  BY EngineAssumption DEF Operations

-----------------------------------------------------------------------------
(* Type correctness. *)

\* A process that ends a call, or dies, leaves a well-typed state.
LEMMA ForgetType ==
    ASSUME EngineTypeOK, NEW r \in RunIds, Forget(r)
    PROVE  /\ pc' \in [RunIds -> {"idle", "gate", "loop", "rebase", "write"}]
           /\ patch' \in [RunIds -> PatchIds \cup {None}]
           /\ working' \in [RunIds -> [OpIds -> Statuses]]
           /\ report' \in [RunIds -> [OpIds -> Outcomes]]
           /\ id_map' \in [RunIds -> [TempIds -> NodeIds \cup {None}]]
           /\ current' \in [RunIds -> OpIds \cup {None}]
  <1>1. [o \in OpIds |-> "pending"] \in [OpIds -> Statuses]
    BY DEF Statuses
  <1>2. NoReport \in [OpIds -> Outcomes]
    BY DEF NoReport, Outcomes
  <1>3. NoIds \in [TempIds -> NodeIds \cup {None}]
    BY DEF NoIds
  <1> QED
    BY <1>1, <1>2, <1>3 DEF EngineTypeOK, Forget

\* What every write of an op does to the run's own memory.
LEMMA AppliesType ==
    ASSUME EngineTypeOK, NEW r \in RunIds, NEW o \in OpIds, NEW kind, Applies(r, o, kind)
    PROVE  /\ ledger' \in SUBSET OpIds
           /\ pc' \in [RunIds -> {"idle", "gate", "loop", "rebase", "write"}]
           /\ patch' \in [RunIds -> PatchIds \cup {None}]
           /\ working' \in [RunIds -> [OpIds -> Statuses]]
           /\ report' \in [RunIds -> [OpIds -> Outcomes]]
           /\ id_map' \in [RunIds -> [TempIds -> NodeIds \cup {None}]]
           /\ current' \in [RunIds -> OpIds \cup {None}]
  <1>1. id_map' \in [RunIds -> [TempIds -> NodeIds \cup {None}]]
    BY IntroducedType DEF EngineTypeOK, Applies, Register
  <1>2. working' \in [RunIds -> [OpIds -> Statuses]]
    BY DEF EngineTypeOK, Applies, SetStatus, Statuses
  <1>3. report' \in [RunIds -> [OpIds -> Outcomes]]
    BY DEF EngineTypeOK, Applies, Record, Outcomes
  <1> QED
    BY <1>1, <1>2, <1>3 DEF EngineTypeOK, Applies, Goto

\* A write of an op keeps the graph well-typed.
LEMMA ApplyType ==
    ASSUME EngineTypeOK, NEW r \in RunIds, NEW o \in OpIds, Apply(r, o)
    PROVE  EngineTypeOK'
  <1> USE OpTypes, MintFacts
  <1>1. CASE ApplyCreateNode(r, o)
    <2>1. [name |-> op[o].name, description |-> op[o].value] \in NodeRecords
      BY DEF NodeRecords
    <2> QED
      BY <1>1, <2>1, AppliesType DEF ApplyCreateNode, EngineTypeOK
  <1>2. CASE ApplyUpdateNodeProps(r, o)
    <2>1. node' \in [NodeIds -> NodeRecords \cup {None}]
      <3>1. node \in [NodeIds -> NodeRecords \cup {None}]
        BY DEF EngineTypeOK
      <3>2. CASE Live(op[o].target)
        <4>1. PICK n \in NodeIds : n = op[o].target /\ node[n] \in NodeRecords
          BY <3>1, <3>2 DEF Live
        <4>2. [node[n] EXCEPT !.description = op[o].value] \in NodeRecords
          BY <4>1 DEF NodeRecords
        <4>3. node' = [node EXCEPT ![n] = [node[n] EXCEPT !.description = op[o].value]]
          BY <1>2, <3>1, <3>2, <4>1 DEF ApplyUpdateNodeProps
        <4>4. QED
          BY <3>1, <4>2, <4>3
      <3>3. QED
        BY <1>2, <3>1, <3>2 DEF ApplyUpdateNodeProps
    <2> QED
      BY <1>2, <2>1, AppliesType DEF ApplyUpdateNodeProps, EngineTypeOK
  <1>3. CASE ApplyMergeInto(r, o)
    <2>1. aliases' \in SUBSET (NodeIds \X NodeIds)
      BY <1>3 DEF ApplyMergeInto, EngineTypeOK, Live
    <2> QED
      BY <1>3, <2>1, AppliesType DEF ApplyMergeInto, EngineTypeOK
  <1>4. CASE ApplyAssertEdge(r, o)
    <2> DEFINE s == ResolveRef(r, op[o].subject)
               b == ResolveRef(r, op[o].object)
               count == IF edge[Mint(o)] = None THEN 1 ELSE edge[Mint(o)].support
               new == [subject |-> s, predicate |-> op[o].predicate, object |-> b,
                       valid_to |-> None, support |-> count]
    <2>1. count \in Nat
      BY DEF EngineTypeOK, EdgeRecords
    <2>2. Live(s) /\ Live(b) => new \in EdgeRecords
      <3> SUFFICES ASSUME Live(s), Live(b) PROVE new \in EdgeRecords
        OBVIOUS
      <3>1. s \in NodeIds /\ b \in NodeIds
        BY DEF Live
      <3> HIDE DEF s, b, count
      <3> QED
        BY <3>1, <2>1 DEF EdgeRecords
    <2>3. edge' = IF Live(s) /\ Live(b) THEN [edge EXCEPT ![Mint(o)] = new] ELSE edge
      BY <1>4 DEF ApplyAssertEdge
    <2> HIDE DEF new, s, b
    <2>4. edge' \in [EdgeIds -> EdgeRecords \cup {None}]
      BY <2>2, <2>3 DEF EngineTypeOK
    <2> QED
      BY <1>4, <2>4, AppliesType DEF ApplyAssertEdge, EngineTypeOK
  <1>5. CASE ApplyInvalidateEdge(r, o)
    <2> DEFINE t == op[o].target
               new == [edge[t] EXCEPT !.valid_to = op[o].value]
    <2>1. EdgeTarget(o) => edge[t] \in EdgeRecords
      BY DEF EdgeTarget, EngineTypeOK
    <2>2. EdgeTarget(o) => new \in EdgeRecords
      <3> SUFFICES ASSUME EdgeTarget(o) PROVE new \in EdgeRecords
        OBVIOUS
      <3> HIDE DEF t
      <3> QED
        BY <2>1 DEF EdgeRecords
    <2>3. edge' = IF EdgeTarget(o) THEN [edge EXCEPT ![t] = new] ELSE edge
      BY <1>5 DEF ApplyInvalidateEdge
    <2> HIDE DEF new, t
    <2>4. edge' \in [EdgeIds -> EdgeRecords \cup {None}]
      BY <2>2, <2>3 DEF EngineTypeOK
    <2> QED
      BY <1>5, <2>4, AppliesType DEF ApplyInvalidateEdge, EngineTypeOK
  <1>6. CASE ApplyReinforceEdge(r, o)
    <2> DEFINE t == op[o].target
               new == [edge[t] EXCEPT !.support = edge[t].support + 1]
    <2>1. EdgeTarget(o) => edge[t] \in EdgeRecords
      BY DEF EdgeTarget, EngineTypeOK
    <2>2. EdgeTarget(o) => new \in EdgeRecords
      <3> SUFFICES ASSUME EdgeTarget(o) PROVE new \in EdgeRecords
        OBVIOUS
      <3> HIDE DEF t
      <3> QED
        BY <2>1 DEF EdgeRecords
    <2>3. edge' = IF EdgeTarget(o) THEN [edge EXCEPT ![t] = new] ELSE edge
      BY <1>6 DEF ApplyReinforceEdge
    <2> HIDE DEF new, t
    <2>4. edge' \in [EdgeIds -> EdgeRecords \cup {None}]
      BY <2>2, <2>3 DEF EngineTypeOK
    <2> QED
      BY <1>6, <2>4, AppliesType DEF ApplyReinforceEdge, EngineTypeOK
  <1> QED
    BY <1>1, <1>2, <1>3, <1>4, <1>5, <1>6 DEF Apply

\* Every step of commit_patch keeps the engine well-typed.
LEMMA StepType ==
    ASSUME EngineTypeOK, NEW r \in RunIds, EngineStep(r)
    PROVE  EngineTypeOK'
  <1> USE DEF EngineTypeOK, graph, Record, SetStatus, Goto, Reached
  <1>1. ASSUME NEW o \in OpIds, Skip(r, o) PROVE EngineTypeOK'
    BY <1>1 DEF Skip, Outcomes
  <1>2. ASSUME NEW o \in OpIds, Block(r, o) PROVE EngineTypeOK'
    BY <1>2 DEF Block, Outcomes, Statuses
  <1>3. ASSUME NEW o \in OpIds, LedgerHit(r, o) PROVE EngineTypeOK'
    <2>1. id_map' \in [RunIds -> [TempIds -> NodeIds \cup {None}]]
      BY <1>3, IntroducedType DEF LedgerHit, Register
    <2> QED
      BY <1>3, <2>1 DEF LedgerHit, Outcomes, Statuses
  <1>4. ASSUME NEW o \in OpIds, LedgerMiss(r, o) PROVE EngineTypeOK'
    BY <1>4 DEF LedgerMiss
  <1>5. ASSUME NEW o \in OpIds, Apply(r, o) PROVE EngineTypeOK'
    BY <1>5, ApplyType
  <1>6. CASE Requeue(r)
    BY <1>6 DEF Requeue, Outcomes, Statuses
  <1>7. CASE RebaseHolds(r)
    BY <1>7 DEF RebaseHolds
  <1>8. CASE LedgerCollision(r)
    BY <1>8, ForgetType DEF LedgerCollision
  <1>9. ASSUME NEW o \in OpIds, Retry(r, o) PROVE EngineTypeOK'
    <2>1. id_map' \in [RunIds -> [TempIds -> NodeIds \cup {None}]]
      <3>1. CASE UNCHANGED id_map
        BY <3>1
      <3>2. CASE pc[r] = "write" /\ Register(r, o)
        BY <3>2, IntroducedType DEF Register
      <3> QED
        BY <1>9, <3>1, <3>2 DEF Retry
    <2> QED
      BY <1>9, <2>1 DEF Retry
  <1> QED
    BY <1>1, <1>2, <1>3, <1>4, <1>5, <1>6, <1>7, <1>8, <1>9 DEF EngineStep

\* The checkpoints of freshly staged patches are well-typed.
LEMMA InitType == Init => GateTypeOK
  <1> SUFFICES ASSUME Init PROVE GateTypeOK
    OBVIOUS
  <1>1. node \in [NodeIds -> NodeRecords \cup {None}]
    BY EngineAssumption DEF Init, EngineInit
  <1>2. edge \in [EdgeIds -> EdgeRecords \cup {None}]
    BY EngineAssumption DEF Init, EngineInit
  <1>3. ckpt \in [OpIds -> Statuses] /\ at \in [PatchIds -> {"new", "review", "commit", "end"}]
    BY DEF Init, Statuses
  <1> QED
    BY <1>1, <1>2, <1>3 DEF Init, EngineInit, GateTypeOK, EngineTypeOK, Statuses,
       Outcomes, NoReport, NoIds

\* Every step of a run, and every crash, keeps the state well-typed.
LEMMA NextType == GateTypeOK /\ [Next]_vars => GateTypeOK'
  <1> SUFFICES ASSUME GateTypeOK, [Next]_vars PROVE GateTypeOK'
    OBVIOUS
  <1> USE DEF GateTypeOK
  <1>1. ASSUME NEW r \in RunIds, NEW p \in PatchIds, Resume(r, p) PROVE GateTypeOK'
    BY <1>1 DEF Resume, EngineTypeOK, graph
  <1>2. ASSUME NEW r \in RunIds, Review(r) PROVE GateTypeOK'
    <2>1. PICK accepted, rejected \in SUBSET Pending(patch[r], working[r]) :
             /\ working' = [working EXCEPT ![r] = Decided(working[r], accepted, rejected)]
             /\ ckpt' = OfPatch(patch[r], Decided(working[r], accepted, rejected), ckpt)
      BY <1>2 DEF Review
    <2>2. Decided(working[r], accepted, rejected) \in [OpIds -> Statuses]
      BY DEF Decided, EngineTypeOK, Statuses
    <2>3. ckpt' \in [OpIds -> Statuses]
      BY <2>1, <2>2 DEF OfPatch
    <2> QED
      BY <1>2, <2>1, <2>2, <2>3 DEF Review, Goto, EngineTypeOK, graph
  <1>3. ASSUME NEW r \in RunIds, Commit(r) PROVE GateTypeOK'
    BY <1>3, StepType DEF Commit
  <1>4. ASSUME NEW r \in RunIds, Return(r) PROVE GateTypeOK'
    <2>1. /\ ckpt' \in [OpIds -> Statuses]
          /\ at' \in [PatchIds -> {"new", "review", "commit", "end"}]
      BY <1>4 DEF Return, OfPatch, EngineTypeOK
    <2> QED
      BY <1>4, <2>1, ForgetType DEF Return, EngineTypeOK, graph
  <1>5. ASSUME NEW r \in RunIds, Crash(r) PROVE GateTypeOK'
    BY <1>5, ForgetType DEF Crash, EngineTypeOK, graph
  <1>6. CASE UNCHANGED vars
    BY <1>6 DEF vars, engine, graph, call, EngineTypeOK
  <1>7. ASSUME NEW p \in PatchIds, Arrive(p) PROVE GateTypeOK'
    <2>1. at' \in [PatchIds -> {"new", "review", "commit", "end"}]
      BY <1>7 DEF Arrive, Begin
    <2> QED
      BY <1>7, <2>1 DEF Arrive, engine, graph, call, EngineTypeOK
  <1> QED
    BY <1>1, <1>2, <1>3, <1>4, <1>5, <1>6, <1>7 DEF Next, Done

\* The state is well-typed: in particular the saved statuses are those of the
\* op lifecycle and the report has no fifth outcome.
THEOREM TypeCorrect == Spec => []GateTypeOK
  BY InitType, NextType, PTL DEF Spec

-----------------------------------------------------------------------------
(* What a run knows in the middle of its walk. *)

\* A run that does not move keeps what it knows while the ledger grows.
LEMMA RunInvFrame ==
    ASSUME NEW q \in RunIds, RunInv(q), ledger \subseteq ledger',
           pc'[q] = pc[q], patch'[q] = patch[q], report'[q] = report[q],
           id_map'[q] = id_map[q], current'[q] = current[q]
    PROVE  RunInv(q)'
  BY DEF RunInv, OpsOf

\* A run that registers no id and commits no op keeps what it knows, if it
\* knows its open transaction.
LEMMA RunInvStep ==
    ASSUME NEW r \in RunIds, RunInv(r), pc[r] # "idle", pc'[r] # "idle",
           ledger' = ledger, id_map'[r] = id_map[r], patch'[r] = patch[r],
           \A o \in OpIds : report'[r][o] = "committed" => report[r][o] = "committed",
           pc'[r] \in {"rebase", "write"} =>
              /\ current'[r] \in OpsOf(patch[r])
              /\ \A d \in op[current'[r]].depends_on : report'[r][d] = "committed"
    PROVE  RunInv(r)'
  BY DEF RunInv, OpsOf

\* Ending a call leaves nothing to know.
LEMMA ForgetRunInv ==
    ASSUME EngineTypeOK, CallInv, NEW r \in RunIds, Forget(r), UNCHANGED ledger
    PROVE  CallInv'
  <1> SUFFICES ASSUME NEW q \in RunIds PROVE RunInv(q)'
    BY DEF CallInv
  <1>1. CASE q = r
    <2>1. /\ pc'[r] = "idle" /\ patch'[r] = None
          /\ report'[r] = NoReport /\ id_map'[r] = NoIds
      BY DEF Forget, EngineTypeOK
    <2> QED
      BY <1>1, <2>1, OutcomeFacts DEF RunInv, NoReport, NoIds
  <1>2. CASE q # r
    BY <1>2, RunInvFrame DEF Forget, EngineTypeOK, CallInv
  <1> QED
    BY <1>1, <1>2

\* Settling an op as anything but committed.
LEMMA SettleRunInv ==
    ASSUME EngineTypeOK, CallInv, NEW r \in RunIds, NEW o \in OpIds, report[r][o] = None,
           NEW outcome \in Failed, Record(r, o, outcome),
           pc'[r] = "loop", pc[r] # "idle", \A q \in RunIds \ {r} : pc'[q] = pc[q],
           \A q \in RunIds \ {r} : current'[q] = current[q],
           UNCHANGED <<ledger, patch, id_map>>
    PROVE  CallInv'
  <1> SUFFICES ASSUME NEW q \in RunIds PROVE RunInv(q)'
    BY DEF CallInv
  <1>1. CASE q = r
    <2>1. \A d \in OpIds : report'[r][d] = "committed" => report[r][d] = "committed"
      BY DEF Record, EngineTypeOK, Failed
    <2> QED
      BY <1>1, <2>1 DEF RunInv, CallInv, OpsOf
  <1>2. CASE q # r
    BY <1>2, RunInvFrame DEF CallInv, Record, EngineTypeOK
  <1> QED
    BY <1>1, <1>2

\* Settling an op as committed, with its id registered, once the ledger has it.
LEMMA CommitRunInv ==
    ASSUME EngineTypeOK, CallInv, NEW r \in RunIds, NEW o \in OpIds,
           o \in OpsOf(patch[r]), o \in ledger', ledger \subseteq ledger',
           Record(r, o, "committed"), Register(r, o),
           pc'[r] = "loop", pc[r] # "idle", \A q \in RunIds \ {r} : pc'[q] = pc[q],
           \A q \in RunIds \ {r} : current'[q] = current[q], UNCHANGED patch
    PROVE  CallInv'
  <1> SUFFICES ASSUME NEW q \in RunIds PROVE RunInv(q)'
    BY DEF CallInv
  <1>1. CASE q = r
    <2> DEFINE ids == id_map[r]
               ids2 == id_map'[r]
    <2>1. \A d \in OpIds : report'[r][d] = "committed" => report[r][d] = "committed" \/ d = o
      BY DEF Record, EngineTypeOK
    <2>2. \A t \in TempIds :
             ids2[t] = IF IntroducesId(o) /\ t = op[o].temp_id THEN Introduced(o) ELSE ids[t]
      BY DEF Register, EngineTypeOK
    <2>3. IntroducesId(o) => Introduced(o) # None
      BY IntroducedType, EngineAssumption
    <2>4. RunInv(r)
      BY DEF CallInv
    <2> HIDE DEF ids, ids2
    <2>5. \A d \in OpIds : report'[r][d] = "committed" =>
             /\ d \in ledger'
             /\ IntroducesId(d) /\ op[d].temp_id \in TempIds => ids2[op[d].temp_id] # None
      BY <2>1, <2>2, <2>3, <2>4 DEF RunInv, ids
    <2>6. \A t \in TempIds : ids2[t] # None =>
             \E d \in OpsOf(patch[r]) :
                /\ IntroducesId(d)
                /\ op[d].temp_id = t /\ ids2[t] = Introduced(d)
      BY <2>2, <2>4 DEF RunInv, ids
    <2> QED
      BY <1>1, <2>4, <2>5, <2>6 DEF RunInv, ids2, OpsOf
  <1>2. CASE q # r
    <2>1. report'[q] = report[q] /\ id_map'[q] = id_map[q]
      BY <1>2 DEF Record, Register, EngineTypeOK
    <2> QED
      BY <1>2, <2>1, RunInvFrame DEF CallInv
  <1> QED
    BY <1>1, <1>2

\* A transaction that is rolled back and tried again may leave the id of its own
\* op behind, and nothing else.
LEMMA RetryRunInv ==
    ASSUME EngineTypeOK, CallInv, NEW r \in RunIds, NEW c \in OpIds, Retry(r, c)
    PROVE  CallInv'
  <1> SUFFICES ASSUME NEW q \in RunIds PROVE RunInv(q)'
    BY DEF CallInv
  <1> DEFINE ids == id_map[r]
             ids2 == id_map'[r]
  <1>1. CASE q = r
    <2>1. RunInv(r)
      BY DEF CallInv
    <2>2. c \in OpsOf(patch[r])
      BY <2>1 DEF Retry, RunInv, OpsOf
    <2>3. IntroducesId(c) => Introduced(c) # None
      BY IntroducedType, EngineAssumption
    <2>4. \A t \in TempIds :
             \/ ids2[t] = ids[t]
             \/ IntroducesId(c) /\ t = op[c].temp_id /\ ids2[t] = Introduced(c)
      BY DEF Retry, Register, EngineTypeOK
    <2>5. pc'[r] = "loop"
      BY DEF Retry, Goto, EngineTypeOK
    <2> HIDE DEF ids, ids2
    <2>6. \A o \in OpIds : report[r][o] = "committed" =>
             /\ o \in ledger
             /\ IntroducesId(o) /\ op[o].temp_id \in TempIds => ids2[op[o].temp_id] # None
      BY <2>1, <2>3, <2>4 DEF RunInv, ids
    <2>7. \A t \in TempIds : ids2[t] # None =>
             \E d \in OpsOf(patch[r]) :
                IntroducesId(d) /\ op[d].temp_id = t /\ ids2[t] = Introduced(d)
      BY <2>1, <2>2, <2>4 DEF RunInv, ids
    <2> QED
      BY <1>1, <2>1, <2>5, <2>6, <2>7 DEF Retry, graph, RunInv, OpsOf, ids2
  <1>2. CASE q # r
    <2>1. id_map'[q] = id_map[q] /\ pc'[q] = pc[q] /\ current'[q] = current[q]
      BY <1>2 DEF Retry, Register, Goto, EngineTypeOK
    <2> QED
      BY <2>1, RunInvFrame DEF Retry, graph, CallInv
  <1> QED
    BY <1>1, <1>2

\* Every step of commit_patch, of any run, keeps what all the runs know.
LEMMA StepCallInv ==
    ASSUME EngineTypeOK, CallInv, NEW r \in RunIds, EngineStep(r)
    PROVE  CallInv'
  <1> USE DEF Reached, Remaining, Goto, graph
  <1>1. ASSUME NEW o \in OpIds, Skip(r, o) PROVE CallInv'
    BY <1>1, SettleRunInv DEF Skip, Failed
  <1>2. ASSUME NEW o \in OpIds, Block(r, o) PROVE CallInv'
    BY <1>2, SettleRunInv DEF Block, Failed
  <1>3. ASSUME NEW o \in OpIds, LedgerHit(r, o) PROVE CallInv'
    BY <1>3, CommitRunInv DEF LedgerHit
  <1>4. ASSUME NEW o \in OpIds, LedgerMiss(r, o) PROVE CallInv'
    <2> SUFFICES ASSUME NEW q \in RunIds PROVE RunInv(q)'
      BY DEF CallInv
    <2>1. CASE q = r
      <3>1. o \in OpsOf(patch[r]) /\ current'[r] = o
        BY <1>4 DEF LedgerMiss, EngineTypeOK
      <3>2. \A d \in op[o].depends_on : report[r][d] = "committed"
        <4> SUFFICES ASSUME NEW d \in op[o].depends_on PROVE report[r][d] = "committed"
          OBVIOUS
        <4>1. d \in OpsOf(patch[r])
          BY <3>1, OpTypes, EngineAssumption DEF OpsOf
        <4>2. report[r][d] # None /\ report[r][d] \notin Failed
          BY <1>4, <4>1 DEF LedgerMiss, Blocked
        <4>3. report[r][d] \in Outcomes
          BY <4>1 DEF EngineTypeOK, OpsOf
        <4> QED
          BY <4>2, <4>3, OutcomeFacts
      <3> QED
        BY <1>4, <2>1, <3>1, <3>2, RunInvStep DEF LedgerMiss, CallInv, EngineTypeOK
    <2>2. CASE q # r
      BY <1>4, <2>2, RunInvFrame DEF LedgerMiss, CallInv, EngineTypeOK
    <2> QED
      BY <2>1, <2>2
  <1>5. ASSUME NEW o \in OpIds, Apply(r, o) PROVE CallInv'
    <2>1. PICK kind : Applies(r, o, kind)
      BY <1>5 DEF Apply, ApplyCreateNode, ApplyUpdateNodeProps, ApplyMergeInto,
         ApplyAssertEdge, ApplyInvalidateEdge, ApplyReinforceEdge
    <2>2. o \in OpsOf(patch[r])
      BY <2>1 DEF Applies, CallInv, RunInv
    <2> QED
      BY <2>1, <2>2, CommitRunInv DEF Applies, EngineTypeOK
  <1>6. CASE Requeue(r)
    <2>1. current[r] \in OpIds
      BY <1>6 DEF Requeue, CallInv, RunInv, OpsOf
    <2> SUFFICES ASSUME NEW q \in RunIds PROVE RunInv(q)'
      BY DEF CallInv
    <2>2. CASE q = r
      <3>1. \A d \in OpIds : report'[r][d] = "committed" => report[r][d] = "committed"
        BY <1>6 DEF Requeue, Record, EngineTypeOK
      <3>2. pc'[r] = "loop"
        BY <1>6 DEF Requeue, EngineTypeOK
      <3> QED
        BY <1>6, <2>2, <3>1, <3>2, RunInvStep DEF Requeue, CallInv, EngineTypeOK
    <2>3. CASE q # r
      BY <1>6, <2>3, RunInvFrame DEF Requeue, Record, CallInv, EngineTypeOK
    <2> QED
      BY <2>2, <2>3
  <1>7. CASE RebaseHolds(r)
    <2> SUFFICES ASSUME NEW q \in RunIds PROVE RunInv(q)'
      BY DEF CallInv
    <2>1. CASE q = r
      <3>1. /\ current'[r] = current[r]
            /\ current[r] \in OpsOf(patch[r])
            /\ \A d \in op[current[r]].depends_on : report[r][d] = "committed"
        BY <1>7 DEF RebaseHolds, CallInv, RunInv
      <3> QED
        BY <1>7, <2>1, <3>1, RunInvStep DEF RebaseHolds, CallInv
    <2>2. CASE q # r
      BY <1>7, <2>2, RunInvFrame DEF RebaseHolds, CallInv, EngineTypeOK
    <2> QED
      BY <2>1, <2>2
  <1>8. CASE LedgerCollision(r)
    BY <1>8, ForgetRunInv DEF LedgerCollision
  <1>9. ASSUME NEW o \in OpIds, Retry(r, o) PROVE CallInv'
    BY <1>9, RetryRunInv
  <1> QED
    BY <1>1, <1>2, <1>3, <1>4, <1>5, <1>6, <1>7, <1>8, <1>9 DEF EngineStep

-----------------------------------------------------------------------------
(* The ledger and the graph. *)

\* Entities and edges stay once they are there.
GraphGrows ==
    /\ \A n \in NodeIds : node[n] # None => node'[n] # None
    /\ \A e \in EdgeIds : edge[e] # None => edge'[e] # None

\* What an op was found to refer to stays.
LEMMA RefersStays ==
    ASSUME GraphGrows, NEW o, Refers(o)
    PROVE  Refers(o)'
  BY DEF GraphGrows, Refers, Live, EdgeTarget

LEMMA DiffStays ==
    ASSUME DiffKept, GraphGrows,
           \A p \in PatchIds : at'[p] # "new" => at[p] # "new",
           \A r \in RunIds : pc'[r] # "idle" => at'[patch'[r]] # "new"
    PROVE  DiffKept'
  BY RefersStays DEF DiffKept, OpsOf

\* The ops of a run's patch were diffed against a graph that is still there.
LEMMA RunRefers ==
    ASSUME CallInv, DiffKept, NEW r \in RunIds, pc[r] # "idle", NEW o \in OpsOf(patch[r])
    PROVE  Refers(o)
  BY DEF CallInv, RunInv, DiffKept

\* A reference of an edge about to be written resolves to a live entity, the
\* one the reference stands for.
LEMMA ReferenceResolves ==
    ASSUME InductiveInv, NEW r \in RunIds, NEW o \in OpIds,
           pc[r] = "write", o = current[r],
           op[o].kind = "AssertEdge", NEW ref \in {op[o].subject, op[o].object}
    PROVE  /\ Live(ResolveRef(r, ref))
           /\ StandsFor(o, ref, ResolveRef(r, ref))
  <1> USE DEF InductiveInv
  <1>0. o \in OpsOf(patch[r]) /\ FromDiff(o, ref)
    BY DiffAssumption DEF CallInv, RunInv
  <1>1. CASE ref \in NodeIds
    <2>1. Live(ref)
      BY <1>0, <1>1, RunRefers DEF Refers
    <2> QED
      BY <1>1, <2>1, EngineAssumption DEF ResolveRef, StandsFor
  <1>2. CASE ref \notin NodeIds
    <2>1. PICK d \in op[o].depends_on :
             IntroducesId(d) /\ op[d].temp_id = ref /\ ref \in TempIds
      BY <1>0, <1>2 DEF FromDiff
    <2>2. RunInv(r)
      BY DEF CallInv
    <2>3. o \in OpsOf(patch[r]) /\ report[r][d] = "committed"
      BY <2>2 DEF RunInv
    <2>4. id_map[r][ref] # None
      BY <2>1, <2>2, <2>3, OpTypes DEF RunInv
    <2>5. PICK e \in OpsOf(patch[r]) :
             /\ IntroducesId(e) /\ op[e].temp_id = ref
             /\ id_map[r][ref] = Introduced(e)
      BY <2>1, <2>2, <2>4 DEF RunInv
    <2>6. e = d /\ d \in ledger
      <3>1. d \in OpIds /\ op[d].patch_id = op[o].patch_id /\ o \in OpIds
        BY OpTypes, EngineAssumption
      <3>2. op[e].patch_id = op[d].patch_id /\ e \in OpIds
        BY <2>3, <2>5, <3>1 DEF OpsOf
      <3>3. e = d
        BY <2>1, <2>5, <3>1, <3>2, DiffAssumption DEF OpsOf
      <3> QED
        BY <2>2, <2>3, <3>1, <3>3 DEF RunInv
    <2>7. Live(Introduced(e))
      <3>1. CASE op[e].kind = "CreateNode"
        BY <3>1, <2>5, <2>6, MintFacts DEF Introduced, LedgerFaithful, Live, OpsOf
      <3>2. CASE op[e].kind = "MergeInto"
        BY <3>2, <2>5, RunRefers DEF Introduced, Refers
      <3> QED
        BY <3>1, <3>2, <2>5 DEF IntroducesId
    <2> QED
      BY <2>1, <2>3, <2>5, <2>7 DEF ResolveRef, StandsFor, OpsOf
  <1> QED
    BY <1>1, <1>2

\* Closing or reinforcing an edge leaves every edge where it is.
LEMMA EdgeShape ==
    ASSUME EngineTypeOK, NEW r \in RunIds, NEW o \in OpIds,
           ApplyInvalidateEdge(r, o) \/ ApplyReinforceEdge(r, o), NEW e \in EdgeIds
    PROVE  /\ edge'[e] # None <=> edge[e] # None
           /\ edge[e] # None => /\ edge'[e].subject = edge[e].subject
                                /\ edge'[e].object = edge[e].object
  <1> DEFINE t == op[o].target
             closed == [edge[t] EXCEPT !.valid_to = op[o].value]
             more == [edge[t] EXCEPT !.support = edge[t].support + 1]
  <1>1. CASE edge[t] # None /\ t \in EdgeIds
    <2>1. edge[t] \in EdgeRecords
      BY <1>1 DEF EngineTypeOK
    <2> HIDE DEF t
    <2>2. /\ closed \in EdgeRecords /\ more \in EdgeRecords
          /\ closed.subject = edge[t].subject /\ closed.object = edge[t].object
          /\ more.subject = edge[t].subject /\ more.object = edge[t].object
      BY <2>1, OpTypes DEF EdgeRecords
    <2>3. edge' = [edge EXCEPT ![t] = closed] \/ edge' = [edge EXCEPT ![t] = more]
      BY <1>1 DEF ApplyInvalidateEdge, ApplyReinforceEdge, EdgeTarget, t
    <2> HIDE DEF closed, more
    <2> QED
      BY <1>1, <2>2, <2>3, EngineAssumption DEF EngineTypeOK
  <1>2. CASE ~(edge[t] # None /\ t \in EdgeIds)
    <2>1. edge' = edge
      BY <1>2 DEF ApplyInvalidateEdge, ApplyReinforceEdge, EdgeTarget
    <2> QED
      BY <2>1
  <1> QED
    BY <1>1, <1>2

\* What LedgerFaithful says of one op.
FactOf(o) ==
    /\ op[o].kind = "CreateNode" => (o \in ledger <=> node[Mint(o)] # None)
    /\ op[o].kind = "MergeInto" => (o \in ledger <=> <<Mint(o), op[o].target>> \in aliases)
    /\ op[o].kind = "AssertEdge" => (o \in ledger <=> edge[Mint(o)] # None)
    /\ op[o].kind = "AssertEdge" /\ o \in ledger =>
          /\ StandsFor(o, op[o].subject, edge[Mint(o)].subject)
          /\ StandsFor(o, op[o].object, edge[Mint(o)].object)

LEMMA FactOfDef == LedgerFaithful <=> \A o \in OpIds : FactOf(o)
  BY DEF LedgerFaithful, FactOf

\* A write keeps the facts of all the other ops and makes its own true.
LEMMA ApplyFaithful ==
    ASSUME InductiveInv, NEW r \in RunIds, NEW o \in OpIds, Apply(r, o)
    PROVE  LedgerFaithful' /\ GraphGrows
  <1> USE DEF InductiveInv, GateTypeOK
  <1>1. \A d \in OpIds : FactOf(d)
    BY FactOfDef
  <1>2. ledger' = ledger \cup {o}
    BY DEF Apply, Applies, ApplyCreateNode, ApplyUpdateNodeProps, ApplyMergeInto,
       ApplyAssertEdge, ApplyInvalidateEdge, ApplyReinforceEdge
  <1>0. o \in OpsOf(patch[r]) /\ pc[r] # "idle"
    BY DEF Apply, Applies, ApplyCreateNode, ApplyUpdateNodeProps, ApplyMergeInto,
       ApplyAssertEdge, ApplyInvalidateEdge, ApplyReinforceEdge, CallInv, RunInv
  <1> SUFFICES (\A d \in OpIds : FactOf(d)') /\ GraphGrows
    BY DEF LedgerFaithful, FactOf
  <1>3. CASE ApplyCreateNode(r, o)
    <2> DEFINE new == [name |-> op[o].name, description |-> op[o].value]
    <2>1. new # None
      <3>1. new \in NodeRecords
        BY OpTypes DEF NodeRecords
      <3> QED
        BY <3>1, EngineAssumption
    <2>2. node' = [node EXCEPT ![Mint(o)] = new] /\ op[o].kind = "CreateNode"
          /\ UNCHANGED <<edge, aliases>>
      BY <1>3 DEF ApplyCreateNode, Applies
    <2> HIDE DEF new
    <2>3. node'[Mint(o)] # None /\ \A n \in NodeIds : n # Mint(o) => node'[n] = node[n]
      BY <2>1, <2>2, MintFacts DEF EngineTypeOK
    <2>4. GraphGrows
      BY <2>2, <2>3 DEF GraphGrows
    <2>5. \A d \in OpIds : FactOf(d)'
      BY <1>1, <1>2, <2>2, <2>3, MintFacts DEF FactOf, StandsFor
    <2> QED
      BY <2>4, <2>5
  <1>4. CASE ApplyUpdateNodeProps(r, o)
    <2> DEFINE t == op[o].target
               new == [node[t] EXCEPT !.description = op[o].value]
    <2>1. op[o].kind = "UpdateNodeProps" /\ UNCHANGED <<edge, aliases>>
      BY <1>4 DEF ApplyUpdateNodeProps, Applies
    <2>2. \A n \in NodeIds : node'[n] # None <=> node[n] # None
      <3>1. CASE Live(t)
        <4>1. node[t] \in NodeRecords
          BY <3>1 DEF EngineTypeOK, Live
        <4>2. node' = [node EXCEPT ![t] = new]
          BY <1>4, <3>1 DEF ApplyUpdateNodeProps
        <4> HIDE DEF t
        <4>3. new \in NodeRecords
          BY <4>1, OpTypes DEF NodeRecords
        <4> HIDE DEF new
        <4> QED
          BY <3>1, <4>2, <4>3, EngineAssumption DEF EngineTypeOK, Live
      <3>2. CASE ~Live(t)
        BY <1>4, <3>2 DEF ApplyUpdateNodeProps
      <3> QED
        BY <3>1, <3>2
    <2>3. GraphGrows
      BY <2>1, <2>2 DEF GraphGrows
    <2>4. \A d \in OpIds : FactOf(d)'
      BY <1>1, <1>2, <2>1, <2>2, MintFacts DEF FactOf, StandsFor
    <2> QED
      BY <2>3, <2>4
  <1>5. CASE ApplyMergeInto(r, o)
    <2>1. op[o].kind = "MergeInto" /\ UNCHANGED <<node, edge>>
      BY <1>5 DEF ApplyMergeInto, Applies
    <2>2. Live(op[o].target)
      BY <1>0, <2>1, RunRefers DEF Refers
    <2>3. aliases' = aliases \cup {<<Mint(o), op[o].target>>}
      BY <1>5, <2>2 DEF ApplyMergeInto
    <2>4. \A d \in OpIds : FactOf(d)'
      BY <1>1, <1>2, <2>1, <2>3, MintFacts DEF FactOf, StandsFor
    <2> QED
      BY <2>1, <2>4 DEF GraphGrows
  <1>6. CASE ApplyAssertEdge(r, o)
    <2> DEFINE s == ResolveRef(r, op[o].subject)
               b == ResolveRef(r, op[o].object)
               new == [subject |-> s, predicate |-> op[o].predicate, object |-> b,
                       valid_to |-> None,
                       support |-> IF edge[Mint(o)] = None THEN 1 ELSE edge[Mint(o)].support]
    <2>1. /\ op[o].kind = "AssertEdge" /\ UNCHANGED <<node, aliases>>
          /\ pc[r] = "write" /\ o = current[r]
      BY <1>6 DEF ApplyAssertEdge, Applies
    <2>2. /\ Live(s) /\ StandsFor(o, op[o].subject, s)
          /\ Live(b) /\ StandsFor(o, op[o].object, b)
      BY <2>1, ReferenceResolves
    <2>3. edge' = [edge EXCEPT ![Mint(o)] = new]
      BY <1>6, <2>2 DEF ApplyAssertEdge
    <2>4. new \in EdgeRecords /\ new.subject = s /\ new.object = b
      <3>1. s \in NodeIds /\ b \in NodeIds
        BY <2>2 DEF Live
      <3>2. (IF edge[Mint(o)] = None THEN 1 ELSE edge[Mint(o)].support) \in Nat
        BY MintFacts DEF EngineTypeOK, EdgeRecords
      <3> HIDE DEF s, b
      <3> QED
        BY <3>1, <3>2, OpTypes DEF EdgeRecords
    <2> HIDE DEF new, s, b
    <2>5. /\ edge'[Mint(o)] = new /\ new # None
          /\ \A e \in EdgeIds : e # Mint(o) => edge'[e] = edge[e]
      BY <2>3, <2>4, MintFacts, EngineAssumption DEF EngineTypeOK
    <2>6. ASSUME NEW d \in OpIds PROVE FactOf(d)'
      <3>1. CASE d = o
        BY <3>1, <1>2, <2>1, <2>2, <2>4, <2>5 DEF FactOf, StandsFor
      <3>2. CASE d # o
        <4>1. edge'[Mint(d)] = edge[Mint(d)]
          BY <3>2, <2>5, MintFacts
        <4> QED
          BY <3>2, <1>1, <1>2, <2>1, <4>1 DEF FactOf, StandsFor
      <3> QED
        BY <3>1, <3>2
    <2> QED
      BY <2>1, <2>5, <2>6 DEF GraphGrows
  <1>7. CASE ApplyInvalidateEdge(r, o) \/ ApplyReinforceEdge(r, o)
    <2>1. op[o].kind \in {"InvalidateEdge", "ReinforceEdge"} /\ UNCHANGED <<node, aliases>>
      BY <1>7 DEF ApplyInvalidateEdge, ApplyReinforceEdge, Applies
    <2>2. \A d \in OpIds : /\ edge'[Mint(d)] # None <=> edge[Mint(d)] # None
                           /\ edge[Mint(d)] # None =>
                                /\ edge'[Mint(d)].subject = edge[Mint(d)].subject
                                /\ edge'[Mint(d)].object = edge[Mint(d)].object
      BY <1>7, EdgeShape, MintFacts
    <2>3. \A d \in OpIds : FactOf(d)'
      BY <1>1, <1>2, <2>1, <2>2 DEF FactOf, StandsFor
    <2>4. GraphGrows
      BY <1>7, <2>1, EdgeShape DEF GraphGrows
    <2> QED
      BY <2>3, <2>4
  <1> QED
    BY <1>3, <1>4, <1>5, <1>6, <1>7 DEF Apply

\* A write is made only when all the dependencies are in the ledger.
LEMMA ApplyDependencies ==
    ASSUME InductiveInv, NEW r \in RunIds, NEW o \in OpIds, Apply(r, o)
    PROVE  DependencyClosed'
  <1>1. ledger' = ledger \cup {o} /\ pc[r] = "write" /\ o = current[r]
    BY DEF Apply, Applies, ApplyCreateNode, ApplyUpdateNodeProps, ApplyMergeInto,
       ApplyAssertEdge, ApplyInvalidateEdge, ApplyReinforceEdge
  <1>2. op[o].depends_on \subseteq ledger
    BY <1>1, OpTypes DEF InductiveInv, CallInv, RunInv
  <1> QED
    BY <1>1, <1>2 DEF DependencyClosed, InductiveInv

\* A step of the gate or of a dying process does not touch the graph.
LEMMA GraphUntouched ==
    ASSUME DependencyClosed, LedgerFaithful, UNCHANGED graph
    PROVE  DependencyClosed' /\ LedgerFaithful' /\ GraphGrows
  BY DEF graph, DependencyClosed, LedgerFaithful, GraphGrows, StandsFor

LEMMA StepGraph ==
    ASSUME InductiveInv, NEW r \in RunIds, EngineStep(r)
    PROVE  DependencyClosed' /\ LedgerFaithful' /\ GraphGrows
  <1>1. ASSUME NEW o \in OpIds, Apply(r, o)
        PROVE  DependencyClosed' /\ LedgerFaithful' /\ GraphGrows
    BY <1>1, ApplyFaithful, ApplyDependencies
  <1>2. CASE UNCHANGED graph
    BY <1>2, GraphUntouched DEF InductiveInv
  <1> QED
    BY <1>1, <1>2 DEF EngineStep, Skip, Block, LedgerHit, LedgerMiss, Requeue,
       RebaseHolds, LedgerCollision, Retry

\* A step of the engine takes up no patch and starts no run.
LEMMA EngineFrame ==
    ASSUME EngineTypeOK, NEW r \in RunIds, EngineStep(r)
    PROVE  /\ pc[r] # "idle"
           /\ \A q \in RunIds : patch'[q] = patch[q] \/ (patch'[q] = None /\ pc'[q] = "idle")
           /\ \A q \in RunIds \ {r} : pc'[q] = pc[q]
  <1> USE DEF EngineTypeOK, Goto
  <1>1. ASSUME NEW o \in OpIds, Apply(r, o)
        PROVE  /\ pc[r] # "idle" /\ patch' = patch
               /\ \A q \in RunIds \ {r} : pc'[q] = pc[q]
    BY <1>1 DEF Apply, Applies, ApplyCreateNode, ApplyUpdateNodeProps, ApplyMergeInto,
       ApplyAssertEdge, ApplyInvalidateEdge, ApplyReinforceEdge
  <1>2. ASSUME NEW o \in OpIds,
               Skip(r, o) \/ Block(r, o) \/ LedgerHit(r, o) \/ LedgerMiss(r, o) \/ Retry(r, o)
        PROVE  /\ pc[r] # "idle" /\ patch' = patch
               /\ \A q \in RunIds \ {r} : pc'[q] = pc[q]
    BY <1>2 DEF Skip, Block, LedgerHit, LedgerMiss, Retry, Reached
  <1>3. CASE Requeue(r) \/ RebaseHolds(r)
    BY <1>3 DEF Requeue, RebaseHolds
  <1>4. CASE LedgerCollision(r)
    BY <1>4 DEF LedgerCollision, Forget
  <1> QED
    BY <1>1, <1>2, <1>3, <1>4 DEF EngineStep

LEMMA InductiveInit == Init => InductiveInv
  <1> SUFFICES ASSUME Init, GateTypeOK PROVE InductiveInv
    BY InitType
  <1>1. CallInv
    BY OutcomeFacts DEF Init, EngineInit, CallInv, RunInv, NoReport, NoIds
  <1>2. DiffKept
    BY DEF Init, EngineInit, DiffKept
  <1>3. DependencyClosed
    BY DEF Init, EngineInit, DependencyClosed
  <1>4. LedgerFaithful
    BY MintFacts DEF Init, EngineInit, LedgerFaithful
  <1> QED
    BY <1>1, <1>2, <1>3, <1>4 DEF InductiveInv

LEMMA InductiveStep == InductiveInv /\ [Next]_vars => InductiveInv'
  <1> SUFFICES ASSUME InductiveInv, [Next]_vars PROVE InductiveInv'
    OBVIOUS
  <1> USE DEF InductiveInv
  <1>1. GateTypeOK'
    BY NextType
  <1>2. ASSUME NEW r \in RunIds, NEW p \in PatchIds, Resume(r, p) PROVE InductiveInv'
    <2>1. CallInv'
      <3> SUFFICES ASSUME NEW q \in RunIds PROVE RunInv(q)'
        BY DEF CallInv
      <3>1. CASE q = r
        <4>1. patch'[r] = p /\ pc'[r] \in {"gate", "loop"}
          BY <1>2 DEF Resume, GateTypeOK, EngineTypeOK
        <4>2. /\ \A o \in OpIds : report[r][o] # "committed"
              /\ \A t \in TempIds : id_map[r][t] = None
          BY <1>2, OutcomeFacts DEF Resume, CallInv, RunInv, NoReport, NoIds
        <4> QED
          BY <1>2, <3>1, <4>1, <4>2 DEF Resume, RunInv
      <3>2. CASE q # r
        BY <1>2, <3>2, RunInvFrame DEF Resume, graph, CallInv, GateTypeOK, EngineTypeOK
      <3> QED
        BY <3>1, <3>2
    <2>2. DependencyClosed' /\ LedgerFaithful' /\ GraphGrows
      BY <1>2, GraphUntouched DEF Resume
    <2>3. \A q \in RunIds : pc'[q] # "idle" => at'[patch'[q]] # "new"
      BY <1>2 DEF Resume, DiffKept, GateTypeOK, EngineTypeOK
    <2>4. DiffKept'
      BY <1>2, <2>2, <2>3, DiffStays DEF Resume
    <2> QED
      BY <1>1, <2>1, <2>2, <2>4
  <1>3. ASSUME NEW r \in RunIds, Review(r) PROVE InductiveInv'
    <2>1. CallInv'
      <3> SUFFICES ASSUME NEW q \in RunIds PROVE RunInv(q)'
        BY DEF CallInv
      <3>1. CASE q = r
        <4>1. pc'[r] = "loop"
          BY <1>3 DEF Review, Goto, GateTypeOK, EngineTypeOK
        <4> QED
          BY <1>3, <3>1, <4>1, RunInvStep DEF Review, graph, CallInv
      <3>2. CASE q # r
        BY <1>3, <3>2, RunInvFrame
           DEF Review, Goto, graph, CallInv, GateTypeOK, EngineTypeOK
      <3> QED
        BY <3>1, <3>2
    <2>2. DependencyClosed' /\ LedgerFaithful' /\ GraphGrows
      BY <1>3, GraphUntouched DEF Review
    <2>3. /\ patch' = patch /\ pc[r] # "idle" /\ \A q \in RunIds \ {r} : pc'[q] = pc[q]
          /\ at' = [at EXCEPT ![patch[r]] = "commit"]
      BY <1>3 DEF Review, Goto, GateTypeOK, EngineTypeOK
    <2>4. /\ \A p \in PatchIds : at'[p] # "new" => at[p] # "new"
          /\ \A q \in RunIds : pc'[q] # "idle" => at'[patch'[q]] # "new"
      BY <2>3 DEF DiffKept, CallInv, RunInv, GateTypeOK
    <2> QED
      BY <1>1, <2>1, <2>2, <2>4, DiffStays
  <1>4. ASSUME NEW r \in RunIds, Commit(r) PROVE InductiveInv'
    <2>1. CallInv' /\ DependencyClosed' /\ LedgerFaithful' /\ GraphGrows
      BY <1>4, StepCallInv, StepGraph DEF Commit, GateTypeOK
    <2>2. \A q \in RunIds : pc'[q] # "idle" => at'[patch'[q]] # "new"
      BY <1>4, EngineFrame DEF Commit, DiffKept, GateTypeOK
    <2> QED
      BY <1>1, <1>4, <2>1, <2>2, DiffStays DEF Commit
  <1>5. ASSUME NEW r \in RunIds, Return(r) \/ Crash(r) PROVE InductiveInv'
    <2>1. CallInv' /\ DependencyClosed' /\ LedgerFaithful' /\ GraphGrows
      BY <1>5, ForgetRunInv, GraphUntouched DEF Return, Crash, graph, GateTypeOK
    <2>2. /\ pc[r] # "idle" /\ pc'[r] = "idle"
          /\ \A q \in RunIds \ {r} : pc'[q] = pc[q] /\ patch'[q] = patch[q]
      BY <1>5 DEF Return, Crash, Walked, Forget, GateTypeOK, EngineTypeOK
    <2>3. /\ \A p \in PatchIds : at'[p] # "new" => at[p] # "new"
          /\ \A p \in PatchIds : at[p] # "new" => at'[p] # "new"
      BY <1>5, <2>2 DEF Return, Crash, DiffKept, GateTypeOK
    <2>4. \A q \in RunIds : pc'[q] # "idle" => at'[patch'[q]] # "new"
      BY <2>2, <2>3 DEF DiffKept, CallInv, RunInv
    <2> QED
      BY <1>1, <2>1, <2>3, <2>4, DiffStays
  <1>6. CASE UNCHANGED vars
    <2>1. CallInv'
      BY <1>6, RunInvFrame DEF CallInv, vars, engine, graph, call
    <2>2. DependencyClosed' /\ LedgerFaithful' /\ GraphGrows
      BY <1>6, GraphUntouched DEF vars, engine
    <2>3. DiffKept'
      BY <1>6, <2>2, DiffStays DEF vars, engine, call, DiffKept
    <2> QED
      BY <1>1, <2>1, <2>2, <2>3
  <1>7. ASSUME NEW p \in PatchIds, Arrive(p) PROVE InductiveInv'
    <2>1. CallInv'
      BY <1>7, RunInvFrame DEF CallInv, Arrive, engine, graph, call
    <2>2. DependencyClosed' /\ LedgerFaithful' /\ GraphGrows
      BY <1>7, GraphUntouched DEF Arrive, engine
    <2>3. /\ at'[p] # "new" /\ \A x \in PatchIds \ {p} : at'[x] = at[x]
          /\ UNCHANGED <<pc, patch>>
      BY <1>7 DEF Arrive, Begin, engine, call, GateTypeOK
    <2>4. \A o \in OpsOf(p) : Refers(o)'
      BY <1>7, <2>2, RefersStays DEF Arrive, Diffable
    <2>5. \A x \in PatchIds : at'[x] # "new" => \A o \in OpsOf(x) : Refers(o)'
      BY <2>2, <2>3, <2>4, RefersStays DEF DiffKept
    <2>6. \A q \in RunIds : pc'[q] # "idle" => at'[patch'[q]] # "new"
      BY <2>3 DEF DiffKept, CallInv, RunInv
    <2> QED
      BY <1>1, <2>1, <2>2, <2>5, <2>6 DEF DiffKept, OpsOf
  <1> QED
    BY <1>2, <1>3, <1>4, <1>5, <1>6, <1>7 DEF Next, Done

\* InductiveInv is an invariant: the base of the theorems below.
THEOREM InductiveInvHolds == Spec => []InductiveInv
  BY InductiveInit, InductiveStep, PTL DEF Spec

\* No op is ever applied without its dependencies: a rejected, deferred or
\* requeued entity takes its edges with it, for any interleaving of processes
\* and crashes.
THEOREM DependenciesFirst == Spec => []DependencyClosed
  BY InductiveInvHolds, PTL DEF InductiveInv

\* The ledger never claims a fact that the graph does not have, and the graph
\* has no minted fact that the ledger does not account for.
THEOREM LedgerMatchesGraph == Spec => []LedgerFaithful
  BY InductiveInvHolds, PTL DEF InductiveInv

\* The KeyError of _resolve is unreachable, also on the re-run after a crash.
THEOREM NoMissingReference == Spec => []RefsResolve
  <1>1. InductiveInv => RefsResolve
    <2> SUFFICES ASSUME InductiveInv, NEW r \in RunIds, pc[r] = "write",
                        op[current[r]].kind = "AssertEdge"
                 PROVE  /\ ResolveRef(r, op[current[r]].subject) # None
                        /\ ResolveRef(r, op[current[r]].object) # None
      BY DEF RefsResolve
    <2>1. current[r] \in OpIds
      BY DEF InductiveInv, CallInv, RunInv, OpsOf
    <2>2. /\ Live(ResolveRef(r, op[current[r]].subject))
          /\ Live(ResolveRef(r, op[current[r]].object))
      BY <2>1, ReferenceResolves
    <2> QED
      BY <2>2, EngineAssumption DEF Live
  <1> QED
    BY <1>1, InductiveInvHolds, PTL

-----------------------------------------------------------------------------
(* One committing process at a time. *)

\* What an open transaction has verified still holds when it writes.
StillRebased == \A r \in RunIds : pc[r] = "write" => Rebased(current[r])

\* With a single process the rebase check and the write see the same graph, so
\* nothing is applied on a precondition that no longer holds.  (With two it is
\* false: see the run of NoTwins.)
THEOREM SerialRebase ==
    ASSUME \A q, r \in RunIds : q = r
    PROVE  Spec => RebasedWrites
  <1>1. Init => StillRebased
    BY DEF Init, EngineInit, StillRebased
  <1>2. GateTypeOK /\ StillRebased /\ [Next]_vars => StillRebased'
    <2> SUFFICES ASSUME GateTypeOK, StillRebased, [Next]_vars,
                        NEW r \in RunIds, pc'[r] = "write"
                 PROVE  Rebased(current[r])'
      BY DEF StillRebased
    <2> USE DEF GateTypeOK, EngineTypeOK
    <2>1. CASE RebaseHolds(r)
      BY <2>1 DEF RebaseHolds, graph, Rebased, CheckPrecondition, Live, Current,
         NameAbsent, EdgeAbsent
    <2>2. CASE UNCHANGED vars
      BY <2>2 DEF vars, engine, graph, call, StillRebased, Rebased, CheckPrecondition,
         Live, Current, NameAbsent, EdgeAbsent
    <2>3. ASSUME NEW p \in PatchIds, Resume(r, p) PROVE FALSE
      BY <2>3 DEF Resume
    <2>4. CASE Review(r)
      BY <2>4 DEF Review, Goto
    <2>5. CASE Return(r) \/ Crash(r) \/ LedgerCollision(r)
      BY <2>5 DEF Return, Crash, LedgerCollision, Forget
    <2>6. ASSUME NEW o \in OpIds, Apply(r, o) PROVE FALSE
      BY <2>6 DEF Apply, Applies, ApplyCreateNode, ApplyUpdateNodeProps, ApplyMergeInto,
         ApplyAssertEdge, ApplyInvalidateEdge, ApplyReinforceEdge, Goto
    <2>7. CASE Requeue(r)
      BY <2>7 DEF Requeue, Goto
    <2>8. ASSUME NEW o \in OpIds,
                 Skip(r, o) \/ Block(r, o) \/ LedgerHit(r, o) \/ LedgerMiss(r, o)
          PROVE  FALSE
      BY <2>8 DEF Skip, Block, LedgerHit, LedgerMiss, Reached, Goto
    <2>9. ASSUME NEW o \in OpIds, Retry(r, o) PROVE FALSE
      BY <2>9 DEF Retry, Goto
    <2>10. ASSUME NEW p \in PatchIds, Arrive(p) PROVE Rebased(current[r])'
      BY <2>10 DEF Arrive, engine, graph, call, StillRebased, Rebased, CheckPrecondition,
         Live, Current, NameAbsent, EdgeAbsent
    <2> QED
      BY <2>1, <2>2, <2>3, <2>4, <2>5, <2>6, <2>7, <2>8, <2>9, <2>10
         DEF Next, Done, Commit, EngineStep
  <1>3. GateTypeOK /\ StillRebased /\ [Next]_vars
           => [\A o \in ledger' \ ledger : Rebased(o)]_vars
    <2> SUFFICES ASSUME GateTypeOK, StillRebased, [Next]_vars,
                        NEW o \in ledger' \ ledger
                 PROVE  Rebased(o)
      OBVIOUS
    <2>1. PICK r \in RunIds, d \in OpIds : Apply(r, d)
      BY DEF Next, Done, Arrive, Commit, EngineStep, Resume, Review, Return, Crash, Skip,
         Block, LedgerHit, LedgerMiss, Requeue, RebaseHolds, LedgerCollision, Retry, vars,
         engine, graph
    <2>2. pc[r] = "write" /\ d = current[r] /\ ledger' = ledger \cup {d}
      BY <2>1 DEF Apply, Applies, ApplyCreateNode, ApplyUpdateNodeProps, ApplyMergeInto,
         ApplyAssertEdge, ApplyInvalidateEdge, ApplyReinforceEdge
    <2> QED
      BY <2>2 DEF StillRebased
  <1> QED
    BY <1>1, <1>2, <1>3, TypeCorrect, PTL DEF Spec, RebasedWrites
=============================================================================
