----------------------------- MODULE OpLifecycle -----------------------------
(***************************************************************************)
(* What the review gate and the commit engine promise of the ops of a      *)
(* patch, without saying how: the states of OpStatus (models/patch.py) and *)
(* the set of ops whose effect is in canonical.  GateLoop implements it.   *)
(* It is weaker than docs/lifecycle.md, which lets an op be blocked only   *)
(* by a dependency that was rejected or requeued: commit_patch blocks it   *)
(* for good by one that was merely deferred, too (GateLoop's               *)
(* BlockedByVerdict, which the code violates).                             *)
(***************************************************************************)
CONSTANTS
    Ops,
    DependsOn   \* op -> the ops it depends on

VARIABLES
    status,     \* op -> its OpStatus, as last saved
    applied     \* the ops whose effect is in canonical

lifecycle == <<status, applied>>

Init ==
    /\ status \in [Ops -> {"pending", "approved", "rejected"}]
    /\ applied = {}

\* A reviewer decides some pending ops; the others are deferred.
Decide(accepted, rejected) ==
    /\ \A o \in accepted \cup rejected : status[o] = "pending"
    /\ accepted \cap rejected = {}
    /\ status' = [o \in Ops |-> IF o \in accepted THEN "approved"
                                ELSE IF o \in rejected THEN "rejected" ELSE status[o]]
    /\ UNCHANGED applied

\* An approved op takes effect, once, after the ops it depends on.
Apply(o) ==
    /\ status[o] = "approved"
    /\ o \notin applied
    /\ DependsOn[o] \subseteq applied
    /\ applied' = applied \cup {o}
    /\ UNCHANGED status

\* The verdicts of one commit pass: an approved op that took effect is
\* committed, one that could have but did not is requeued, one that lacked a
\* dependency (for whatever reason, a deferral included) is blocked.
Verdict(o) ==
    IF o \in applied THEN "committed"
    ELSE IF DependsOn[o] \subseteq applied THEN "requeued" ELSE "blocked"

Settle(settled) ==
    /\ \A o \in settled : status[o] = "approved"
    /\ status' = [o \in Ops |-> IF o \in settled THEN Verdict(o) ELSE status[o]]
    /\ UNCHANGED applied

Next ==
    \/ \E accepted, rejected \in SUBSET Ops : Decide(accepted, rejected)
    \/ \E o \in Ops : Apply(o)
    \/ \E settled \in SUBSET Ops : Settle(settled)

Spec == Init /\ [][Next]_lifecycle

\* The verdicts are final and true: an op takes effect only while it is
\* approved, and never after a verdict that says it did not.
VerdictsTrue ==
    \A o \in Ops :
        /\ status[o] \in {"pending", "rejected", "requeued", "blocked"} => o \notin applied
        /\ status[o] = "committed" => o \in applied
=============================================================================
