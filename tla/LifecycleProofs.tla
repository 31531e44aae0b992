--------------------------- MODULE LifecycleProofs ---------------------------
(***************************************************************************)
(* The gate and the commit engine implement the op lifecycle, for any      *)
(* number of processes, patches and ops, as long as no two processes run   *)
(* one thread at the same time.  (If two do, each overwrites the other's   *)
(* checkpoint, and a saved status may be false.)                           *)
(***************************************************************************)
EXTENDS GateLoopProofs

\* The deployment keeps two processes off one thread, or has only one process.
OneRunner == Exclusive \/ \A q, r \in RunIds : q = r

\* No two runs share a patch.
Apart == \A q, r \in RunIds : patch[q] = patch[r] /\ patch[r] # None => q = r

\* What a walk knows of an op of its patch: an op it has not reached has the
\* status of the checkpoint, an op it has settled has a status that agrees with
\* the list of the report it is in, and what failed is not in canonical.
OpKnown(r, o) ==
    /\ report[r][o] \in {None, "skipped"} => working[r][o] = ckpt[o]
    /\ report[r][o] = "skipped" => ckpt[o] \notin {"approved", "committed"}
    /\ report[r][o] \in {"requeued", "blocked"} =>
          ckpt[o] = "approved" /\ working[r][o] = report[r][o]
    /\ report[r][o] = "committed" =>
          ckpt[o] \in {"approved", "committed"} /\ working[r][o] = "committed"
    /\ report[r][o] \in Failed => o \notin ledger
    /\ report[r][o] = "requeued" => op[o].depends_on \subseteq ledger
    /\ report[r][o] = "blocked" => Blocked(r, o)

\* A report is about ops of the patch; an open transaction is on an approved op
\* that was never applied; at the gate nothing is settled yet.
WalkKnown(r) ==
    /\ \A o \in OpsOf(patch[r]) : OpKnown(r, o)
    /\ \A o \in OpIds \ OpsOf(patch[r]) : report[r][o] = None
    /\ pc[r] \in {"rebase", "write"} =>
          /\ current[r] \in OpsOf(patch[r])
          /\ report[r][current[r]] = None
          /\ ckpt[current[r]] = "approved"
          /\ current[r] \notin ledger
    /\ pc[r] = "gate" => report[r] = NoReport

VerdictInv ==
    /\ Apart
    /\ StatusTruthful
    /\ \A r \in RunIds : WalkKnown(r)

\* There is no op of no patch, and ops of two patches differ.
LEMMA PatchOps ==
    /\ OpsOf(None) = {}
    /\ \A p, q : OpsOf(p) \cap OpsOf(q) # {} => p = q
    /\ \A p : OpsOf(p) \subseteq OpIds
    /\ \A p : \A o \in OpsOf(p) : op[o].depends_on \subseteq OpsOf(p)
  BY OpTypes, EngineAssumption DEF OpsOf

\* A run that does not move keeps what it knows while others apply or save ops of
\* their own patches.
LEMMA WalkFrame ==
    ASSUME NEW q \in RunIds, WalkKnown(q),
           pc'[q] = pc[q], patch'[q] = patch[q], report'[q] = report[q],
           working'[q] = working[q], current'[q] = current[q],
           \A o \in OpsOf(patch[q]) :
              ckpt'[o] = ckpt[o] /\ (o \in ledger' <=> o \in ledger)
    PROVE  WalkKnown(q)'
  <1>1. ASSUME NEW o \in OpsOf(patch[q]) PROVE OpKnown(q, o)'
    <2>1. op[o].depends_on \subseteq ledger' <=> op[o].depends_on \subseteq ledger
      BY PatchOps
    <2> QED
      BY <2>1 DEF WalkKnown, OpKnown, Blocked
  <1> QED
    BY <1>1 DEF WalkKnown, OpsOf

\* A call that is over knows nothing.
LEMMA ForgetWalk ==
    ASSUME EngineTypeOK, NEW r \in RunIds, Forget(r)
    PROVE  /\ WalkKnown(r)'
           /\ patch'[r] = None
           /\ \A q \in RunIds \ {r} :
                 /\ pc'[q] = pc[q] /\ patch'[q] = patch[q] /\ report'[q] = report[q]
                 /\ working'[q] = working[q] /\ current'[q] = current[q]
  BY PatchOps DEF EngineTypeOK, Forget, WalkKnown, OpsOf, NoReport

-----------------------------------------------------------------------------
(* The walk. *)

\* What the runs know when one of them settles an op of its patch, and applies it
\* if anything.
LEMMA SettleKnown ==
    ASSUME GateTypeOK, VerdictInv, NEW r \in RunIds, NEW o \in OpsOf(patch[r]),
           NEW outcome \in {"committed", "requeued", "blocked", "skipped"},
           report[r][o] = None, Record(r, o, outcome),
           NEW s \in Statuses, working' = [working EXCEPT ![r][o] = s],
           ledger' \in {ledger, ledger \cup {o}}, ledger' # ledger => ckpt[o] = "approved",
           pc'[r] = "loop", \A q \in RunIds \ {r} : pc'[q] = pc[q] /\ current'[q] = current[q],
           UNCHANGED <<patch, ckpt>>,
           OpKnown(r, o)'
    PROVE  VerdictInv'
  <1> USE DEF GateTypeOK, EngineTypeOK, VerdictInv
  <1>1. o \in OpIds
    BY PatchOps
  <1>2. Apart'
    BY DEF Apart
  <1>3. StatusTruthful'
    BY <1>1 DEF StatusTruthful
  <1>4. WalkKnown(r)'
    <2>1. ASSUME NEW d \in OpsOf(patch[r]), d # o PROVE OpKnown(r, d)'
      <3>1. d \in OpIds /\ op[d].depends_on \subseteq OpIds
        BY PatchOps, OpTypes
      <3>2. /\ report'[r][d] = report[r][d] /\ working'[r][d] = working[r][d]
            /\ d \in ledger' <=> d \in ledger
        BY <1>1, <2>1, <3>1 DEF Record
      <3>3. \A x \in OpIds : report[r][x] \in Failed => report'[r][x] \in Failed
        BY <1>1, OutcomeFacts DEF Record
      <3> QED
        BY <2>1, <3>1, <3>2, <3>3 DEF WalkKnown, OpKnown, Blocked
    <2>2. \A d \in OpsOf(patch[r]) : OpKnown(r, d)'
      BY <2>1
    <2>3. \A d \in OpIds \ OpsOf(patch[r]) : report'[r][d] = None
      BY <1>1 DEF WalkKnown, Record
    <2> QED
      BY <2>2, <2>3 DEF WalkKnown, OpsOf
  <1>5. ASSUME NEW q \in RunIds \ {r} PROVE WalkKnown(q)'
    <2>1. ASSUME NEW d \in OpsOf(patch[q]) PROVE d # o
      <3>1. CASE d = o
        <4>1. OpsOf(patch[q]) \cap OpsOf(patch[r]) # {} /\ patch[r] # None
          BY <3>1, PatchOps
        <4>2. patch[q] = patch[r]
          BY <4>1, PatchOps
        <4> QED
          BY <4>1, <4>2 DEF Apart
      <3> QED
        BY <3>1
    <2> QED
      BY <1>1, <2>1, WalkFrame DEF Record
  <1> QED
    BY <1>2, <1>3, <1>4, <1>5

\* What is in canonical has its dependencies there: an op that lacks one is not.
LEMMA FailedAbsent ==
    ASSUME InductiveInv, VerdictInv, NEW r \in RunIds, NEW o \in OpsOf(patch[r]), Blocked(r, o)
    PROVE  o \notin ledger /\ ~(op[o].depends_on \subseteq ledger)
  <1>1. PICK d \in op[o].depends_on : report[r][d] \in Failed
    BY DEF Blocked
  <1>2. d \notin ledger
    BY <1>1, PatchOps DEF VerdictInv, WalkKnown, OpKnown
  <1> QED
    BY <1>1, <1>2 DEF InductiveInv, DependencyClosed

\* A step of the engine.
LEMMA EngineVerdicts ==
    ASSUME InductiveInv, VerdictInv, NEW r \in RunIds, EngineStep(r), UNCHANGED ckpt
    PROVE  VerdictInv'
  <1> USE DEF InductiveInv, GateTypeOK, EngineTypeOK
  <1>1. ASSUME NEW o \in OpsOf(patch[r]), report[r][o] = None
        PROVE  working[r][o] = ckpt[o] /\ o \in OpIds
    BY <1>1, PatchOps DEF VerdictInv, WalkKnown, OpKnown
  <1>2. ASSUME NEW o \in OpIds, Reached(r, o)
        PROVE  o \in OpsOf(patch[r]) /\ report[r][o] = None /\ pc[r] = "loop"
    BY <1>2 DEF Reached, Remaining
  <1>3. ASSUME NEW o \in OpIds, Skip(r, o) PROVE VerdictInv'
    <2>1. o \in OpsOf(patch[r]) /\ report[r][o] = None /\ pc[r] = "loop" /\ working[r][o] = ckpt[o]
      BY <1>1, <1>2, <1>3 DEF Skip
    <2>2. o \notin ledger /\ ckpt[o] \notin {"approved", "committed"}
      BY <1>3, <2>1 DEF Skip, Committable, VerdictInv, StatusTruthful, Statuses
    <2>3. report'[r][o] = "skipped"
      BY <1>3 DEF Skip, Record
    <2>4. OpKnown(r, o)'
      BY <1>3, <2>1, <2>2, <2>3 DEF Skip, OpKnown, graph, Failed
    <2>5. working' = [working EXCEPT ![r][o] = ckpt[o]]
      BY <1>3, <2>1 DEF Skip
    <2> QED
      BY <1>3, <2>1, <2>4, <2>5, SettleKnown DEF Skip, graph
  <1>4. ASSUME NEW o \in OpIds, Block(r, o) PROVE VerdictInv'
    <2>1. o \in OpsOf(patch[r]) /\ report[r][o] = None /\ pc[r] = "loop" /\ working[r][o] = ckpt[o]
      BY <1>1, <1>2, <1>4 DEF Block
    <2>2. o \notin ledger /\ Blocked(r, o)
      BY <1>4, <2>1, FailedAbsent DEF Block
    <2>3. ckpt[o] = "approved"
      BY <1>4, <2>1, <2>2 DEF Block, Committable, VerdictInv, StatusTruthful
    <2>4. report'[r][o] = "blocked" /\ working'[r][o] = "blocked"
      BY <1>4 DEF Block, Record, SetStatus
    <2>5. Blocked(r, o)'
      BY <1>4, <2>1, <2>2, OpTypes, OutcomeFacts DEF Block, Blocked, Record
    <2>6. OpKnown(r, o)'
      BY <1>4, <2>2, <2>3, <2>4, <2>5, OutcomeFacts DEF Block, OpKnown, graph
    <2> QED
      BY <1>4, <2>1, <2>6, SettleKnown DEF Block, SetStatus, Statuses, graph
  <1>5. ASSUME NEW o \in OpIds, o \in OpsOf(patch[r]), report[r][o] = None, o \in ledger',
               Record(r, o, "committed"), SetStatus(r, o, "committed"),
               ledger' \in {ledger, ledger \cup {o}}, ledger' # ledger => ckpt[o] = "approved",
               ckpt[o] \in {"approved", "committed"}, UNCHANGED patch, pc'[r] = "loop",
               \A q \in RunIds \ {r} : pc'[q] = pc[q] /\ current'[q] = current[q]
        PROVE  VerdictInv'
    <2>1. report'[r][o] = "committed" /\ working'[r][o] = "committed"
      BY <1>5 DEF Record, SetStatus
    <2>2. OpKnown(r, o)'
      BY <1>5, <2>1, OutcomeFacts DEF OpKnown, Failed
    <2> QED
      BY <1>5, <2>2, SettleKnown DEF SetStatus, Statuses
  <1>6. ASSUME NEW o \in OpIds, LedgerHit(r, o) PROVE VerdictInv'
    <2>1. o \in OpsOf(patch[r]) /\ report[r][o] = None /\ pc[r] = "loop" /\ working[r][o] = ckpt[o]
      BY <1>1, <1>2, <1>6 DEF LedgerHit
    <2> QED
      BY <1>5, <1>6, <2>1 DEF LedgerHit, Committable, graph
  <1>7. ASSUME NEW o \in OpIds, Apply(r, o) PROVE VerdictInv'
    <2>1. /\ pc[r] = "write" /\ o = current[r] /\ ledger' = ledger \cup {o}
          /\ Record(r, o, "committed") /\ SetStatus(r, o, "committed")
          /\ UNCHANGED patch /\ Goto(r, "loop") /\ current' = [current EXCEPT ![r] = None]
      BY <1>7 DEF Apply, Applies, ApplyCreateNode, ApplyUpdateNodeProps, ApplyMergeInto,
         ApplyAssertEdge, ApplyInvalidateEdge, ApplyReinforceEdge
    <2>2. o \in OpsOf(patch[r]) /\ report[r][o] = None /\ ckpt[o] = "approved"
      BY <2>1 DEF VerdictInv, WalkKnown
    <2>3. pc'[r] = "loop" /\ \A q \in RunIds \ {r} : pc'[q] = pc[q] /\ current'[q] = current[q]
      BY <2>1 DEF Goto
    <2> QED
      BY <1>5, <2>1, <2>2, <2>3
  <1>8. CASE Requeue(r)
    <2>1. PICK o \in OpIds :
             /\ o = current[r] /\ o \in OpsOf(patch[r]) /\ report[r][o] = None
             /\ ckpt[o] = "approved" /\ o \notin ledger
      BY <1>8, PatchOps DEF Requeue, VerdictInv, WalkKnown
    <2>2. op[o].depends_on \subseteq ledger
      BY <1>8, <2>1, OpTypes DEF Requeue, CallInv, RunInv
    <2>3. report'[r][o] = "requeued" /\ working'[r][o] = "requeued"
      BY <1>8, <2>1 DEF Requeue, Record, SetStatus
    <2>4. OpKnown(r, o)'
      BY <1>8, <2>1, <2>2, <2>3, OutcomeFacts DEF Requeue, OpKnown, graph
    <2>5. /\ Record(r, o, "requeued") /\ working' = [working EXCEPT ![r][o] = "requeued"]
          /\ pc' = [pc EXCEPT ![r] = "loop"] /\ current' = [current EXCEPT ![r] = None]
          /\ UNCHANGED <<ledger, patch, ckpt>> /\ "requeued" \in Statuses
      BY <1>8, <2>1 DEF Requeue, SetStatus, Goto, graph, Statuses
    <2> QED
      BY <2>1, <2>4, <2>5, SettleKnown
  \* Steps of r that settle nothing.
  <1>9. ASSUME UNCHANGED <<ledger, patch, working, report>>,
               \A q \in RunIds \ {r} : pc'[q] = pc[q] /\ current'[q] = current[q],
               pc'[r] # "gate",
               pc'[r] \in {"rebase", "write"} =>
                  /\ current'[r] \in OpsOf(patch[r]) /\ report[r][current'[r]] = None
                  /\ ckpt[current'[r]] = "approved" /\ current'[r] \notin ledger
        PROVE  VerdictInv'
    <2>1. \A o \in OpsOf(patch[r]) : OpKnown(r, o)'
      BY <1>9 DEF VerdictInv, WalkKnown, OpKnown, Blocked
    <2>2. WalkKnown(r)'
      BY <1>9, <2>1 DEF VerdictInv, WalkKnown, OpsOf
    <2>3. \A q \in RunIds \ {r} : WalkKnown(q)'
      BY <1>9, WalkFrame DEF VerdictInv
    <2> QED
      BY <1>9, <2>2, <2>3 DEF VerdictInv, Apart, StatusTruthful
  <1>10. ASSUME NEW o \in OpIds, LedgerMiss(r, o) PROVE VerdictInv'
    <2>1. o \in OpsOf(patch[r]) /\ report[r][o] = None /\ working[r][o] = ckpt[o]
      BY <1>1, <1>2, <1>10 DEF LedgerMiss
    <2>2. ckpt[o] = "approved" /\ o \notin ledger
      BY <1>10, <2>1 DEF LedgerMiss, Committable, VerdictInv, StatusTruthful
    <2>3. pc' = [pc EXCEPT ![r] = "rebase"] /\ current' = [current EXCEPT ![r] = o]
      BY <1>10 DEF LedgerMiss, Goto
    <2> QED
      BY <1>9, <1>10, <2>1, <2>2, <2>3 DEF LedgerMiss, graph
  <1>11. ASSUME NEW o \in OpIds, Retry(r, o) PROVE VerdictInv'
    BY <1>9, <1>11 DEF Retry, Goto, graph
  <1>12. CASE RebaseHolds(r)
    <2>1. pc[r] = "rebase" /\ pc' = [pc EXCEPT ![r] = "write"] /\ current' = current
      BY <1>12 DEF RebaseHolds, Goto
    <2> QED
      BY <1>9, <1>12, <2>1 DEF RebaseHolds, graph, VerdictInv, WalkKnown
  <1>13. CASE LedgerCollision(r)
    BY <1>13 DEF LedgerCollision, VerdictInv, WalkKnown
  <1> QED
    BY <1>3, <1>4, <1>6, <1>7, <1>8, <1>10, <1>11, <1>12, <1>13 DEF EngineStep

-----------------------------------------------------------------------------
(* The gate, the checkpoints, the deaths. *)

LEMMA ResumeVerdicts ==
    ASSUME OneRunner, InductiveInv, VerdictInv, NEW r \in RunIds, NEW p \in PatchIds, Resume(r, p)
    PROVE  VerdictInv'
  <1> USE DEF InductiveInv, GateTypeOK, EngineTypeOK, Resume
  <1>1. /\ report[r] = NoReport /\ patch[r] = None
        /\ \A q \in RunIds \ {r} : patch[q] # p
    BY DEF CallInv, RunInv, OneRunner
  <1>2. Apart' /\ StatusTruthful'
    BY <1>1 DEF VerdictInv, Apart, StatusTruthful, graph
  <1>3. WalkKnown(r)'
    <2>1. \A o \in OpIds : report'[r][o] = None /\ working'[r][o] = ckpt[o]
      BY <1>1 DEF NoReport
    <2>2. \A o \in OpsOf(p) : OpKnown(r, o)'
      BY <2>1, PatchOps, OutcomeFacts DEF OpKnown
    <2>3. patch'[r] = p /\ pc'[r] \in {"gate", "loop"} /\ report'[r] = NoReport
      BY <1>1
    <2> QED
      BY <2>1, <2>2, <2>3 DEF WalkKnown, OpsOf
  <1>4. \A q \in RunIds \ {r} : WalkKnown(q)'
    BY WalkFrame DEF VerdictInv, graph
  <1> QED
    BY <1>2, <1>3, <1>4 DEF VerdictInv

\* What the reviewer decides is a decision of the lifecycle.
LEMMA ReviewVerdicts ==
    ASSUME InductiveInv, VerdictInv, NEW r \in RunIds, Review(r)
    PROVE  /\ VerdictInv'
           /\ \E accepted, rejected \in SUBSET OpIds : Lifecycle!Decide(accepted, rejected)
  <1> USE DEF InductiveInv, GateTypeOK, EngineTypeOK
  <1>1. PICK accepted, rejected \in SUBSET Pending(patch[r], working[r]) :
           /\ accepted \cap rejected = {}
           /\ working' = [working EXCEPT ![r] = Decided(working[r], accepted, rejected)]
           /\ ckpt' = OfPatch(patch[r], Decided(working[r], accepted, rejected), ckpt)
    BY DEF Review
  <1>2. /\ UNCHANGED <<ledger, patch, report, current>> /\ pc[r] = "gate"
        /\ pc' = [pc EXCEPT ![r] = "loop"]
    BY DEF Review, graph, Goto
  <1>3. \A o \in OpsOf(patch[r]) : o \in OpIds /\ report[r][o] = None /\ working[r][o] = ckpt[o]
    BY <1>2, PatchOps DEF VerdictInv, WalkKnown, OpKnown, NoReport
  <1>4. /\ accepted \cup rejected \subseteq OpsOf(patch[r])
        /\ \A o \in accepted \cup rejected : ckpt[o] = "pending"
    BY <1>1, <1>3 DEF Pending
  <1>5. \A o \in OpIds : ckpt'[o] = IF o \in accepted THEN "approved"
                                     ELSE IF o \in rejected THEN "rejected" ELSE ckpt[o]
    BY <1>1, <1>3, <1>4 DEF OfPatch, Decided
  <1>6. \A o \in OpsOf(patch[r]) : working'[r][o] = ckpt'[o] /\ report'[r][o] = None
    BY <1>1, <1>2, <1>3 DEF OfPatch
  <1>7. StatusTruthful'
    BY <1>2, <1>4, <1>5 DEF VerdictInv, StatusTruthful
  <1>8. WalkKnown(r)'
    <2>1. \A o \in OpsOf(patch[r]) : OpKnown(r, o)'
      BY <1>6, OutcomeFacts DEF OpKnown
    <2> QED
      BY <1>2, <2>1 DEF VerdictInv, WalkKnown, OpsOf
  <1>9. ASSUME NEW q \in RunIds \ {r} PROVE WalkKnown(q)'
    <2>1. OpsOf(patch[q]) \cap OpsOf(patch[r]) = {}
      BY PatchOps DEF VerdictInv, Apart
    <2>2. \A o \in OpsOf(patch[q]) : ckpt'[o] = ckpt[o]
      BY <1>4, <1>5, <2>1, PatchOps
    <2> QED
      BY <1>1, <1>2, <2>2, WalkFrame DEF VerdictInv
  <1>10. VerdictInv'
    BY <1>2, <1>7, <1>8, <1>9 DEF VerdictInv, Apart
  <1>11. Lifecycle!Decide(accepted, rejected)
    <2>1. ckpt' = [o \in OpIds |-> IF o \in accepted THEN "approved"
                                   ELSE IF o \in rejected THEN "rejected" ELSE ckpt[o]]
      BY <1>1, <1>5 DEF OfPatch
    <2> QED
      BY <1>1, <1>2, <1>4, <2>1 DEF Lifecycle!Decide
  <1> QED
    BY <1>4, <1>10, <1>11, PatchOps

\* The statuses saved at the end of a pass are the verdicts of the lifecycle.
LEMMA ReturnVerdicts ==
    ASSUME InductiveInv, VerdictInv, NEW r \in RunIds, Return(r)
    PROVE  VerdictInv' /\ \E settled \in SUBSET OpIds : Lifecycle!Settle(settled)
  <1> USE DEF InductiveInv, GateTypeOK, EngineTypeOK
  <1> DEFINE settled == {o \in OpsOf(patch[r]) : ckpt[o] = "approved"}
  <1>1. /\ Walked(r) /\ Forget(r) /\ UNCHANGED ledger
        /\ ckpt' = [o \in OpIds |-> IF o \in OpsOf(patch[r]) THEN working[r][o] ELSE ckpt[o]]
    BY DEF Return, graph, OfPatch
  <1>2. ASSUME NEW o \in OpsOf(patch[r])
        PROVE  working[r][o] = IF o \in settled THEN Lifecycle!Verdict(o) ELSE ckpt[o]
    <2>1. report[r][o] \in {"committed", "requeued", "blocked", "skipped"} /\ OpKnown(r, o)
      BY <1>1, PatchOps, OutcomeFacts DEF Walked, Remaining, VerdictInv, WalkKnown, Failed
    <2>2. report[r][o] = "committed" => o \in ledger
      BY PatchOps DEF CallInv, RunInv
    <2>3. report[r][o] = "blocked" => ~(op[o].depends_on \subseteq ledger)
      BY <2>1, FailedAbsent DEF OpKnown
    <2>4. Lifecycle!Verdict(o) = IF o \in ledger THEN "committed"
                                 ELSE IF op[o].depends_on \subseteq ledger THEN "requeued"
                                 ELSE "blocked"
      BY PatchOps DEF Lifecycle!Verdict
    <2> QED
      BY <2>1, <2>2, <2>3, <2>4, OutcomeFacts DEF OpKnown, Failed
  <1>3. ckpt' = [o \in OpIds |-> IF o \in settled THEN Lifecycle!Verdict(o) ELSE ckpt[o]]
    BY <1>1, <1>2
  <1>4. settled \in SUBSET OpIds /\ Lifecycle!Settle(settled)
    BY <1>1, <1>3, PatchOps DEF Lifecycle!Settle
  <1>5. StatusTruthful'
    BY <1>1, <1>3 DEF VerdictInv, StatusTruthful, Lifecycle!Verdict
  <1>6. ASSUME NEW q \in RunIds \ {r} PROVE WalkKnown(q)'
    <2>1. OpsOf(patch[q]) \cap OpsOf(patch[r]) = {}
      BY PatchOps DEF VerdictInv, Apart
    <2>2. \A o \in OpsOf(patch[q]) : ckpt'[o] = ckpt[o]
      BY <1>1, <2>1, PatchOps
    <2> QED
      BY <1>1, <2>2, ForgetWalk, WalkFrame DEF VerdictInv
  <1>7. Apart'
    BY <1>1, ForgetWalk DEF VerdictInv, Apart
  <1> QED
    BY <1>1, <1>4, <1>5, <1>6, <1>7, ForgetWalk DEF VerdictInv

\* A call that ends without a checkpoint leaves the verdicts as they are.
LEMMA CrashVerdicts ==
    ASSUME EngineTypeOK, VerdictInv, NEW r \in RunIds, Forget(r), UNCHANGED <<ledger, ckpt>>
    PROVE  VerdictInv'
  <1>1. \A q \in RunIds \ {r} : WalkKnown(q)'
    BY ForgetWalk, WalkFrame DEF VerdictInv
  <1> QED
    BY <1>1, ForgetWalk DEF VerdictInv, Apart, StatusTruthful

LEMMA VerdictInit == Init => VerdictInv
  <1> SUFFICES ASSUME Init PROVE VerdictInv
    OBVIOUS
  <1>1. Apart /\ \A r \in RunIds : WalkKnown(r)
    BY PatchOps DEF Init, EngineInit, Apart, WalkKnown, NoReport
  <1> QED
    BY <1>1 DEF Init, EngineInit, VerdictInv, StatusTruthful

\* Every step keeps the verdicts true and is a step of the lifecycle or none.
LEMMA VerdictStep ==
    ASSUME OneRunner, InductiveInv, VerdictInv, [Next]_vars
    PROVE  VerdictInv' /\ [Lifecycle!Next]_<<ckpt, ledger>>
  <1> USE DEF InductiveInv, GateTypeOK
  <1>1. ASSUME NEW r \in RunIds, NEW p \in PatchIds, Resume(r, p)
        PROVE  VerdictInv' /\ UNCHANGED <<ckpt, ledger>>
    BY <1>1, ResumeVerdicts DEF Resume, graph
  <1>2. ASSUME NEW r \in RunIds, Review(r) PROVE VerdictInv' /\ Lifecycle!Next
    BY <1>2, ReviewVerdicts DEF Lifecycle!Next
  <1>3. ASSUME NEW r \in RunIds, Commit(r)
        PROVE  VerdictInv' /\ [Lifecycle!Next]_<<ckpt, ledger>>
    <2>1. EngineStep(r) /\ UNCHANGED ckpt
      BY <1>3 DEF Commit
    <2>2. VerdictInv'
      BY <2>1, EngineVerdicts
    <2>3. ASSUME NEW o \in OpIds, Apply(r, o) PROVE Lifecycle!Next
      <3>1. /\ pc[r] = "write" /\ o = current[r] /\ ledger' = ledger \cup {o}
        BY <2>3 DEF Apply, Applies, ApplyCreateNode, ApplyUpdateNodeProps, ApplyMergeInto,
           ApplyAssertEdge, ApplyInvalidateEdge, ApplyReinforceEdge
      <3>2. ckpt[o] = "approved" /\ o \notin ledger
        BY <3>1 DEF VerdictInv, WalkKnown
      <3>3. op[o].depends_on \subseteq ledger
        BY <3>1, OpTypes DEF CallInv, RunInv
      <3>4. Lifecycle!Apply(o)
        BY <2>1, <3>1, <3>2, <3>3 DEF Lifecycle!Apply
      <3> QED
        BY <3>4 DEF Lifecycle!Next
    <2>4. (\E o \in OpIds : Apply(r, o)) \/ UNCHANGED ledger
      BY <2>1 DEF EngineStep, Skip, Block, LedgerHit, LedgerMiss, Retry, Requeue, RebaseHolds,
         LedgerCollision, graph
    <2> QED
      BY <2>1, <2>2, <2>3, <2>4
  <1>4. ASSUME NEW r \in RunIds, Return(r) PROVE VerdictInv' /\ Lifecycle!Next
    BY <1>4, ReturnVerdicts DEF Lifecycle!Next
  <1>5. ASSUME NEW r \in RunIds, Crash(r) PROVE VerdictInv' /\ UNCHANGED <<ckpt, ledger>>
    BY <1>5, CrashVerdicts DEF Crash, graph
  <1>6. CASE UNCHANGED vars
    <2>1. /\ UNCHANGED <<ckpt, ledger, pc, patch, working, report, current>>
      BY <1>6 DEF vars, engine, graph, call
    <2>2. \A q \in RunIds : WalkKnown(q)'
      BY <2>1, WalkFrame DEF VerdictInv
    <2> QED
      BY <2>1, <2>2 DEF VerdictInv, Apart, StatusTruthful
  <1>7. ASSUME NEW p \in PatchIds, Arrive(p) PROVE VerdictInv' /\ UNCHANGED <<ckpt, ledger>>
    <2>1. UNCHANGED <<ckpt, ledger, pc, patch, working, report, current>>
      BY <1>7 DEF Arrive, engine, graph, call
    <2>2. \A q \in RunIds : WalkKnown(q)'
      BY <2>1, WalkFrame DEF VerdictInv
    <2> QED
      BY <2>1, <2>2 DEF VerdictInv, Apart, StatusTruthful
  <1> QED
    BY <1>1, <1>2, <1>3, <1>4, <1>5, <1>6, <1>7 DEF Next, Done

\* What the thread's checkpoint says of an op is true of canonical, wherever
\* processes die: rejected, undecided, requeued and blocked ops are not in it,
\* committed ones are.
THEOREM StatusesTruthful ==
    ASSUME OneRunner
    PROVE  Spec => []StatusTruthful
  <1>1. VerdictInv => StatusTruthful
    BY DEF VerdictInv
  <1> QED
    BY <1>1, InductiveInvHolds, VerdictInit, VerdictStep, PTL DEF Spec

\* The review gate and commit_patch, with their ledger, their report and their
\* re-runs, implement the op lifecycle: an op is decided once, takes effect once,
\* after the ops it depends on, and its verdict says whether it did.  (Which missing
\* dependency a blocked op may be blocked by is not part of the lifecycle: see
\* BlockedByVerdict.)
THEOREM GateImplementsLifecycle ==
    ASSUME OneRunner
    PROVE  Spec => ImplementsLifecycle
  <1>1. Init => Lifecycle!Init
    <2> SUFFICES ASSUME Init PROVE Lifecycle!Init
      OBVIOUS
    <2> QED
      BY DEF Init, EngineInit, Lifecycle!Init
  <1>2. OneRunner /\ InductiveInv /\ VerdictInv /\ [Next]_vars => [Lifecycle!Next]_(Lifecycle!lifecycle)
    BY VerdictStep DEF Lifecycle!lifecycle
  <1>3. InductiveInv /\ VerdictInv /\ [Next]_vars => VerdictInv'
    BY VerdictStep
  <1> QED
    BY <1>1, <1>2, <1>3, InductiveInvHolds, VerdictInit, PTL
       DEF Spec, ImplementsLifecycle, Lifecycle!Spec
=============================================================================
