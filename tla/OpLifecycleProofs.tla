-------------------------- MODULE OpLifecycleProofs --------------------------
(***************************************************************************)
(* What the op lifecycle guarantees whatever implements it.                *)
(***************************************************************************)
EXTENDS OpLifecycle, TLAPS

LifecycleTypeOK ==
    /\ status \in [Ops -> {"pending", "approved", "rejected",
                           "committed", "requeued", "blocked"}]
    /\ applied \subseteq Ops

\* Applied ops are closed under dependencies.
AppliedClosed == \A o \in applied : DependsOn[o] \subseteq applied

LifecycleInv == LifecycleTypeOK /\ AppliedClosed /\ VerdictsTrue

LEMMA InitLifecycle == Init => LifecycleInv
  BY DEF Init, LifecycleInv, LifecycleTypeOK, AppliedClosed, VerdictsTrue

\* A verdict is the truth about the op it is given to, and it is one of the
\* three final statuses.
LEMMA SettleTrue ==
    ASSUME LifecycleInv, NEW settled \in SUBSET Ops, Settle(settled)
    PROVE  LifecycleInv'
  <1> USE DEF LifecycleInv, Settle
  <1>1. LifecycleTypeOK'
    BY DEF LifecycleTypeOK, Verdict
  <1>2. AppliedClosed'
    BY DEF AppliedClosed
  <1>3. VerdictsTrue'
    <2> SUFFICES ASSUME NEW o \in Ops
                 PROVE  /\ status'[o] \in {"pending", "rejected", "requeued", "blocked"}
                              => o \notin applied'
                        /\ status'[o] = "committed" => o \in applied'
      BY DEF VerdictsTrue
    <2>1. CASE o \in settled
      BY <2>1 DEF Verdict
    <2>2. CASE o \notin settled
      BY <2>2 DEF VerdictsTrue
    <2> QED
      BY <2>1, <2>2
  <1> QED
    BY <1>1, <1>2, <1>3

LEMMA NextLifecycle == LifecycleInv /\ [Next]_lifecycle => LifecycleInv'
  <1> SUFFICES ASSUME LifecycleInv, [Next]_lifecycle PROVE LifecycleInv'
    OBVIOUS
  <1>1. ASSUME NEW accepted \in SUBSET Ops, NEW rejected \in SUBSET Ops,
               Decide(accepted, rejected)
        PROVE  LifecycleInv'
    BY <1>1 DEF Decide, LifecycleInv, LifecycleTypeOK, AppliedClosed, VerdictsTrue
  <1>2. ASSUME NEW o \in Ops, Apply(o) PROVE LifecycleInv'
    BY <1>2 DEF Apply, LifecycleInv, LifecycleTypeOK, AppliedClosed, VerdictsTrue
  <1>3. ASSUME NEW settled \in SUBSET Ops, Settle(settled) PROVE LifecycleInv'
    BY <1>3, SettleTrue
  <1>4. CASE UNCHANGED lifecycle
    BY <1>4 DEF lifecycle, LifecycleInv, LifecycleTypeOK, AppliedClosed, VerdictsTrue
  <1> QED
    BY <1>1, <1>2, <1>3, <1>4 DEF Next

\* In every implementation of the lifecycle the statuses tell the truth: what is
\* rejected, undecided, requeued or blocked has no effect in canonical, and what
\* is committed has.
THEOREM LifecycleTruthful == Spec => []VerdictsTrue
  <1>1. LifecycleInv => VerdictsTrue
    BY DEF LifecycleInv
  <1> QED
    BY <1>1, InitLifecycle, NextLifecycle, PTL DEF Spec
=============================================================================
