------------------------ MODULE CanonicalGraphProofs ------------------------
(***************************************************************************)
(* What the commit engine promises of the canonical graph: support is      *)
(* counted once for any number of processes; entities have names of their  *)
(* own and history is kept while one process commits at a time (with two,  *)
(* NoTwins is false).                                                      *)
(***************************************************************************)
EXTENDS GateLoopProofs, FiniteSetTheorems

Verified == \A o \in ledger' \ ledger : Rebased(o)

\* A step that is no write of an op leaves the graph alone.
LEMMA OnlyApplyWrites ==
    ASSUME [Next]_vars
    PROVE  UNCHANGED graph \/ \E r \in RunIds, o \in OpIds : Apply(r, o)
  BY DEF Next, Done, Arrive, Commit, EngineStep, Resume, Review, Return, Crash, Skip, Block,
     LedgerHit, LedgerMiss, Requeue, RebaseHolds, LedgerCollision, Retry, vars, engine

\* A write that was verified.
LEMMA VerifiedWrite ==
    ASSUME NEW r \in RunIds, NEW o \in OpIds, Apply(r, o), Verified
    PROVE  Rebased(o) /\ o \notin ledger
  BY DEF Verified, Apply, Applies, ApplyCreateNode, ApplyUpdateNodeProps, ApplyMergeInto,
     ApplyAssertEdge, ApplyInvalidateEdge, ApplyReinforceEdge

\* A new entity gets a name no entity had; an update keeps the name.
LEMMA TwinStep ==
    ASSUME InductiveInv, NoTwins, NEW r \in RunIds, NEW o \in OpIds, Apply(r, o), Verified
    PROVE  NoTwins'
  <1> USE DEF InductiveInv, GateTypeOK, EngineTypeOK
  <1>1. CASE ApplyCreateNode(r, o)
    <2> DEFINE new == [name |-> op[o].name, description |-> op[o].value]
    <2>1. node' = [node EXCEPT ![Mint(o)] = new] /\ new.name = op[o].name
      BY <1>1 DEF ApplyCreateNode
    <2> HIDE DEF new
    <2>2. NameAbsent(op[o].name)
      BY <1>1, VerifiedWrite, GuardAssumption
         DEF ApplyCreateNode, Applies, Rebased, CheckPrecondition
    <2>3. \A n \in NodeIds : n # Mint(o) => node'[n] = node[n]
      BY <2>1
    <2>4. node'[Mint(o)].name = op[o].name
      BY <2>1, MintFacts
    <2>5. \A n \in NodeIds \ {Mint(o)} : Live(n)' => Live(n) /\ node'[n].name # op[o].name
      BY <2>2, <2>3 DEF NameAbsent, Live
    <2>6. ASSUME NEW m \in NodeIds, NEW n \in NodeIds, Live(m)', Live(n)',
                 node'[m].name = node'[n].name
          PROVE  m = n
      BY <2>3, <2>4, <2>5, <2>6 DEF NoTwins
    <2> QED
      BY <2>6 DEF NoTwins
  <1>2. CASE ApplyUpdateNodeProps(r, o)
    <2> DEFINE t == op[o].target
               new == [node[t] EXCEPT !.description = op[o].value]
    <2>1. \A n \in NodeIds : Live(n)' => Live(n) /\ node'[n].name = node[n].name
      <3>1. CASE Live(t)
        <4>1. node[t] \in NodeRecords /\ node' = [node EXCEPT ![t] = new]
          BY <1>2, <3>1 DEF ApplyUpdateNodeProps, Live
        <4>2. new.name = node[t].name
          BY <4>1 DEF NodeRecords
        <4> HIDE DEF new, t
        <4> QED
          BY <3>1, <4>1, <4>2 DEF Live
      <3>2. CASE ~Live(t)
        BY <1>2, <3>2 DEF ApplyUpdateNodeProps, Live
      <3> QED
        BY <3>1, <3>2
    <2> QED
      BY <2>1 DEF NoTwins
  <1>3. CASE UNCHANGED node
    BY <1>3 DEF NoTwins, Live
  <1> QED
    BY <1>1, <1>2, <1>3 DEF Apply, ApplyMergeInto, ApplyAssertEdge, ApplyInvalidateEdge,
       ApplyReinforceEdge

\* What a step may do to an edge that is there.
EdgeKept(e) ==
    edge[e] # None =>
        /\ edge'[e] # None
        /\ edge[e].valid_to # None => edge'[e].valid_to = edge[e].valid_to
        /\ edge'[e].support >= edge[e].support

\* An assertion writes a new edge, a closing meets a current one.
LEMMA HistoryStep ==
    ASSUME InductiveInv, NEW r \in RunIds, NEW o \in OpIds, Apply(r, o), Verified,
           NEW e \in EdgeIds
    PROVE  EdgeKept(e)
  <1> USE DEF InductiveInv, GateTypeOK, EngineTypeOK
  <1> SUFFICES ASSUME edge[e] # None PROVE EdgeKept(e)
    BY DEF EdgeKept
  <1>1. edge[e] \in EdgeRecords /\ edge[e].support \in Nat
    BY DEF EdgeRecords
  <1>2. CASE edge'[e] = edge[e]
    BY <1>1, <1>2 DEF EdgeKept
  <1>3. CASE ApplyAssertEdge(r, o)
    <2>1. edge[Mint(o)] = None
      BY <1>3, VerifiedWrite DEF ApplyAssertEdge, Applies, LedgerFaithful
    <2>2. edge'[e] = edge[e]
      BY <1>3, <2>1 DEF ApplyAssertEdge
    <2> QED
      BY <1>2, <2>2
  <1>4. CASE ApplyInvalidateEdge(r, o)
    <2> DEFINE t == op[o].target
               new == [edge[t] EXCEPT !.valid_to = op[o].value]
    <2>1. Current(t)
      BY <1>4, VerifiedWrite, GuardAssumption
         DEF ApplyInvalidateEdge, Applies, Rebased, CheckPrecondition
    <2>2. edge' = [edge EXCEPT ![t] = new] /\ edge[t] \in EdgeRecords
      BY <1>4, <2>1 DEF ApplyInvalidateEdge, EdgeTarget, Current
    <2>3. new \in EdgeRecords /\ new.support = edge[t].support
      BY <2>2, OpTypes DEF EdgeRecords
    <2> HIDE DEF new, t
    <2>4. CASE e = t
      BY <1>1, <2>1, <2>2, <2>3, <2>4, EngineAssumption DEF EdgeKept, Current
    <2>5. CASE e # t
      BY <1>2, <2>2, <2>5
    <2> QED
      BY <2>4, <2>5
  <1>5. CASE ApplyReinforceEdge(r, o)
    <2> DEFINE t == op[o].target
               new == [edge[t] EXCEPT !.support = edge[t].support + 1]
    <2>1. CASE e = t
      <3>1. edge' = [edge EXCEPT ![t] = new] /\ edge[t] \in EdgeRecords
        BY <1>1, <1>5, <2>1 DEF ApplyReinforceEdge, EdgeTarget
      <3> HIDE DEF t
      <3>2. new \in EdgeRecords /\ new.support = edge[t].support + 1
            /\ new.valid_to = edge[t].valid_to
        <4>1. edge[t].support \in Nat /\ edge[t].support + 1 \in Nat
          BY <3>1 DEF EdgeRecords
        <4> QED
          BY <3>1, <4>1 DEF EdgeRecords
      <3> HIDE DEF new
      <3>3. edge'[e] = new
        BY <2>1, <3>1
      <3>4. new # None
        BY <3>2, EngineAssumption
      <3>5. new.support >= edge[e].support
        BY <1>1, <2>1, <3>2
      <3> QED
        BY <2>1, <3>2, <3>3, <3>4, <3>5 DEF EdgeKept
    <2>2. CASE e # t
      BY <1>2, <1>5, <2>2 DEF ApplyReinforceEdge
    <2> QED
      BY <2>1, <2>2
  <1> QED
    BY <1>2, <1>3, <1>4, <1>5 DEF Apply, ApplyCreateNode, ApplyUpdateNodeProps, ApplyMergeInto

-----------------------------------------------------------------------------
(* Any number of processes. *)

\* What a committed op reinforced is there: so an edge that is just being asserted
\* has been reinforced by nobody.
ReinforcedKept ==
    \A o \in ledger : op[o].kind = "ReinforceEdge" => EdgeTarget(o)

SupportInv ==
    /\ \A e \in Edge0 : edge[e] # None
    /\ ReinforcedKept
    /\ SupportCounted

\* A write other than a reinforcement leaves the reinforcements as they were, and
\* one adds itself.
LEMMA ReinforcementsAfter ==
    ASSUME NEW o \in OpIds, ledger' = ledger \cup {o}, NEW e
    PROVE  Reinforcements(e)' =
              IF op[o].kind = "ReinforceEdge" /\ op[o].target = e
              THEN Reinforcements(e) \cup {o} ELSE Reinforcements(e)
  BY DEF Reinforcements

LEMMA SupportStep ==
    ASSUME IsFiniteSet(OpIds), InductiveInv, SupportInv,
           NEW r \in RunIds, NEW o \in OpIds, Apply(r, o)
    PROVE  SupportInv'
  <1> USE DEF InductiveInv, GateTypeOK, EngineTypeOK
  <1> DEFINE Base(e) == IF e \in Edge0 THEN edge0[e].support ELSE 1
  <1>1. ledger' = ledger \cup {o} /\ o \notin ledger
    BY DEF Apply, Applies, ApplyCreateNode, ApplyUpdateNodeProps, ApplyMergeInto,
       ApplyAssertEdge, ApplyInvalidateEdge, ApplyReinforceEdge
  <1>2. \A e : IsFiniteSet(Reinforcements(e)) /\ Cardinality(Reinforcements(e)) \in Nat
    <2>1. \A e : Reinforcements(e) \subseteq OpIds
      BY DEF Reinforcements
    <2> QED
      BY <2>1, FS_Subset, FS_CardinalityType
  <1>3. \A e : o \notin Reinforcements(e)
    BY <1>1 DEF Reinforcements
  <1>4. \A e \in EdgeIds : edge[e] # None => edge[e].support = Base(e) + Cardinality(Reinforcements(e))
    BY DEF SupportInv, SupportCounted
  \* Writes that leave the support of every edge and are no reinforcement.
  <1>5. ASSUME op[o].kind # "ReinforceEdge",
               \A e \in EdgeIds : /\ edge[e] # None => edge'[e] # None
                                  /\ edge'[e] # None /\ edge[e] # None => edge'[e].support = edge[e].support
                                  /\ edge'[e] # None /\ edge[e] = None =>
                                        edge'[e].support = 1 /\ e \notin Edge0
        PROVE  SupportInv'
    <2>1. \A e : Reinforcements(e)' = Reinforcements(e)
      BY <1>1, <1>5, ReinforcementsAfter
    <2>2. /\ \A e \in Edge0 : edge'[e] # None
          /\ ReinforcedKept'
      BY <1>1, <1>5 DEF SupportInv, ReinforcedKept, EdgeTarget, EdgeIds
    <2>3. ASSUME NEW e \in EdgeIds, edge'[e] # None
          PROVE  edge'[e].support = Base(e) + Cardinality(Reinforcements(e)')
      <3>1. CASE edge[e] # None
        BY <1>4, <1>5, <2>1, <2>3, <3>1
      <3>2. CASE edge[e] = None
        <4>1. edge'[e].support = 1 /\ e \notin Edge0
          BY <1>5, <2>3, <3>2
        <4>2. Reinforcements(e) = {}
          BY <3>2 DEF SupportInv, ReinforcedKept, Reinforcements, EdgeTarget
        <4>3. Cardinality(Reinforcements(e)') = 0
          BY <2>1, <4>2, FS_EmptySet
        <4> QED
          BY <4>1, <4>3
      <3> QED
        BY <3>1, <3>2
    <2> QED
      BY <2>2, <2>3 DEF SupportInv, SupportCounted
  <1>6. CASE UNCHANGED edge /\ op[o].kind # "ReinforceEdge"
    BY <1>5, <1>6
  <1>7. CASE ApplyAssertEdge(r, o)
    <2> DEFINE s == ResolveRef(r, op[o].subject)
               b == ResolveRef(r, op[o].object)
               new == [subject |-> s, predicate |-> op[o].predicate, object |-> b,
                       valid_to |-> None,
                       support |-> IF edge[Mint(o)] = None THEN 1 ELSE edge[Mint(o)].support]
    <2>1. op[o].kind = "AssertEdge" /\ edge[Mint(o)] = None
      BY <1>1, <1>7 DEF ApplyAssertEdge, Applies, LedgerFaithful
    <2>2. edge' \in {edge, [edge EXCEPT ![Mint(o)] = new]} /\ new.support = 1
      BY <1>7, <2>1 DEF ApplyAssertEdge
    <2> HIDE DEF new, s, b
    <2> QED
      BY <1>5, <2>1, <2>2, MintFacts
  <1>8. CASE ApplyInvalidateEdge(r, o)
    <2> DEFINE t == op[o].target
               new == [edge[t] EXCEPT !.valid_to = op[o].value]
    <2>1. op[o].kind = "InvalidateEdge"
      BY <1>8 DEF ApplyInvalidateEdge, Applies
    <2>2. CASE EdgeTarget(o)
      <3>1. edge' = [edge EXCEPT ![t] = new] /\ t \in EdgeIds /\ edge[t] \in EdgeRecords
        BY <1>8, <2>2 DEF ApplyInvalidateEdge, EdgeTarget
      <3>2. new \in EdgeRecords /\ new.support = edge[t].support
        BY <3>1, OpTypes DEF EdgeRecords
      <3>3. new # None /\ edge[t] # None
        BY <2>2, <3>2, EngineAssumption DEF EdgeTarget
      <3> HIDE DEF new, t
      <3> QED
        BY <1>5, <2>1, <3>1, <3>2, <3>3
    <2>3. CASE ~EdgeTarget(o)
      BY <1>6, <1>8, <2>1, <2>3 DEF ApplyInvalidateEdge
    <2> QED
      BY <2>2, <2>3
  <1>9. CASE ApplyReinforceEdge(r, o)
    <2> DEFINE new(t) == [edge[t] EXCEPT !.support = edge[t].support + 1]
    <2>1. PICK t \in EdgeIds :
             /\ op[o].kind = "ReinforceEdge" /\ op[o].target = t
             /\ edge[t] # None /\ edge' = [edge EXCEPT ![t] = new(t)]
      <3>1. /\ op[o].kind = "ReinforceEdge" /\ o \in OpsOf(patch[r]) /\ pc[r] # "idle"
        BY <1>9 DEF ApplyReinforceEdge, Applies, CallInv, RunInv
      <3>2. EdgeTarget(o)
        BY <3>1, RunRefers DEF Refers
      <3> QED
        BY <1>9, <3>1, <3>2 DEF ApplyReinforceEdge, EdgeTarget
    <2>2. /\ new(t) # None /\ new(t).support = edge[t].support + 1
      <3>1. edge[t] \in EdgeRecords
        BY <2>1
      <3>2. edge[t].support \in Nat /\ edge[t].support + 1 \in Nat
        BY <3>1 DEF EdgeRecords
      <3>3. new(t) \in EdgeRecords /\ new(t).support = edge[t].support + 1
        BY <3>1, <3>2 DEF EdgeRecords
      <3> QED
        BY <3>3, EngineAssumption
    <2> HIDE DEF new
    <2>3. edge'[t] = new(t) /\ \A e \in EdgeIds \ {t} : edge'[e] = edge[e]
      BY <2>1
    <2>4. /\ Reinforcements(t)' = Reinforcements(t) \cup {o}
          /\ \A e : e # t => Reinforcements(e)' = Reinforcements(e)
      BY <1>1, <2>1, ReinforcementsAfter
    <2>5. Cardinality(Reinforcements(t)') = Cardinality(Reinforcements(t)) + 1
      BY <1>2, <1>3, <2>4, FS_AddElement
    <2>6. Base(t) \in Nat
      BY EngineAssumption DEF EdgeRecords
    <2>7. edge'[t].support = Base(t) + Cardinality(Reinforcements(t)')
      <3>1. edge[t].support = Base(t) + Cardinality(Reinforcements(t))
        BY <1>4, <2>1
      <3>2. edge'[t].support = edge[t].support + 1
        BY <2>2, <2>3
      <3>3. Cardinality(Reinforcements(t)) \in Nat
        BY <1>2
      <3> HIDE DEF Base
      <3>4. ASSUME NEW b \in Nat, NEW c \in Nat PROVE (b + c) + 1 = b + (c + 1)
        OBVIOUS
      <3> QED
        BY <2>5, <2>6, <3>1, <3>2, <3>3, <3>4, Zenon
    <2>8. ASSUME NEW e \in EdgeIds, edge'[e] # None
          PROVE  edge'[e].support = Base(e) + Cardinality(Reinforcements(e)')
      BY <1>4, <2>3, <2>4, <2>7, <2>8
    <2>9. /\ \A e \in Edge0 : edge'[e] # None
          /\ ReinforcedKept'
      BY <1>1, <2>1, <2>2, <2>3 DEF SupportInv, ReinforcedKept, EdgeTarget, EdgeIds
    <2> QED
      BY <2>8, <2>9 DEF SupportInv, SupportCounted
  <1> QED
    BY <1>6, <1>7, <1>8, <1>9
       DEF Apply, ApplyCreateNode, ApplyUpdateNodeProps, ApplyMergeInto, Applies

\* Support is counted once for each reinforcing op, however many processes walk the
\* patch, on one thread or several, and whatever is re-run after a death.
THEOREM SupportOnce ==
    ASSUME IsFiniteSet(OpIds)
    PROVE  Spec => []SupportCounted
  <1>1. Init => SupportInv
    <2> SUFFICES ASSUME Init PROVE SupportInv
      OBVIOUS
    <2>1. (\A e \in Edge0 : edge[e] # None) /\ ReinforcedKept
      BY EngineAssumption DEF Init, EngineInit, ReinforcedKept, EdgeIds
    <2>2. \A e \in EdgeIds : edge[e] # None => e \in Edge0 /\ edge[e].support = edge0[e].support
      BY DEF Init, EngineInit
    <2>3. \A e : Cardinality(Reinforcements(e)) = 0
      <3>1. \A e : Reinforcements(e) = {}
        BY DEF Init, EngineInit, Reinforcements
      <3> QED
        BY <3>1, FS_EmptySet
    <2>4. \A e \in Edge0 : edge0[e].support \in Nat
      BY EngineAssumption DEF EdgeRecords
    <2> QED
      BY <2>1, <2>2, <2>3, <2>4 DEF SupportInv, SupportCounted
  <1>2. InductiveInv /\ SupportInv /\ [Next]_vars => SupportInv'
    <2> SUFFICES ASSUME InductiveInv, SupportInv, [Next]_vars PROVE SupportInv'
      OBVIOUS
    <2>1. CASE UNCHANGED graph
      BY <2>1 DEF graph, SupportInv, ReinforcedKept, EdgeTarget, SupportCounted, Reinforcements
    <2> QED
      BY <2>1, OnlyApplyWrites, SupportStep
  <1>3. SupportInv => SupportCounted
    BY DEF SupportInv
  <1> QED
    BY <1>1, <1>2, <1>3, InductiveInvHolds, PTL DEF Spec

-----------------------------------------------------------------------------
(* One process at a time. *)

\* However many patches that introduce an entity are parked, and in whatever order
\* they are committed, canonical has one entity of each name (name_absent, re-checked
\* at the write).
THEOREM SerialNames ==
    ASSUME \A q, r \in RunIds : q = r
    PROVE  Spec => []NoTwins
  <1>1. Init => NoTwins
    BY GuardAssumption, EngineAssumption DEF Init, EngineInit, NoTwins, Live
  <1>2. InductiveInv /\ NoTwins /\ [Next]_vars /\ [Verified]_vars => NoTwins'
    <2> SUFFICES ASSUME InductiveInv, NoTwins, [Next]_vars, [Verified]_vars PROVE NoTwins'
      OBVIOUS
    <2>1. CASE UNCHANGED graph
      BY <2>1 DEF graph, NoTwins, Live
    <2>2. ASSUME NEW r \in RunIds, NEW o \in OpIds, Apply(r, o), ~UNCHANGED vars PROVE NoTwins'
      BY <2>2, TwinStep
    <2> QED
      BY <2>1, <2>2, OnlyApplyWrites DEF vars, engine
  <1>3. Spec => [][Verified]_vars
    BY SerialRebase DEF RebasedWrites, Verified
  <1> QED
    BY <1>1, <1>2, <1>3, InductiveInvHolds, PTL DEF Spec

\* Facts change only by closing a window that is open: no closed window is opened
\* or moved, no fact disappears, and no support is taken away.
THEOREM SerialHistory ==
    ASSUME \A q, r \in RunIds : q = r
    PROVE  Spec => HistoryKept
  <1>1. InductiveInv /\ [Next]_vars /\ [Verified]_vars => [\A e \in EdgeIds : EdgeKept(e)]_vars
    <2> SUFFICES ASSUME InductiveInv, [Next]_vars, [Verified]_vars, ~UNCHANGED vars,
                        NEW e \in EdgeIds
                 PROVE  EdgeKept(e)
      OBVIOUS
    <2>1. CASE UNCHANGED graph
      BY <2>1 DEF graph, EdgeKept, InductiveInv, GateTypeOK, EngineTypeOK, EdgeRecords
    <2> QED
      BY <2>1, OnlyApplyWrites, HistoryStep
  <1>2. Spec => [][Verified]_vars
    BY SerialRebase DEF RebasedWrites, Verified
  <1> QED
    BY <1>1, <1>2, InductiveInvHolds, PTL DEF Spec, HistoryKept, EdgeKept
=============================================================================
