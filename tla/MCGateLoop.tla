----------------------------- MODULE MCGateLoop -----------------------------
(* Small patches for TLC.  Canonical holds two entities, c1 and c2, and the *)
(* current fact e1 = (c1)-[p]->(c2).  The ops are those resolve_node builds *)
(* against that graph, with the preconditions it gives them; those of C are *)
(* on what patch A put there.                                               *)
EXTENDS GateLoop, TLC

CONSTANTS A, B, C, a1, a2, a3, a4, a5, a6, b1, b2, b3, b4, b5, b6, x1, x2, x3,
          t1, t2, t3, n1, k1, k2, c1, c2, e1, p, q, v1, v2, w1, w2

MCNode0 == {c1, c2}
MCEdge0 == {e1}
mc_node0 == c1 :> [name |-> k1, description |-> v1] @@ c2 :> [name |-> k2, description |-> None]
mc_edge0 == e1 :> [subject |-> c1, predicate |-> p, object |-> c2,
                   valid_to |-> None, support |-> 1]

Blank(patch_id, kind) ==
    [patch_id |-> patch_id, kind |-> kind, depends_on |-> {}, preconditions |-> {},
     temp_id |-> None, name |-> None, target |-> None, subject |-> None,
     predicate |-> None, object |-> None, value |-> None]

Pre(kind, subject) ==
    [kind |-> kind, subject |-> subject, predicate |-> None, value |-> None]

CreateN1(x, t) ==
    [Blank(x, "CreateNode") EXCEPT !.temp_id = t, !.name = n1,
                                   !.preconditions = {Pre("name_absent", n1)}]
MergeC1(x, t) ==
    [Blank(x, "MergeInto") EXCEPT !.temp_id = t, !.target = c1,
                                  !.preconditions = {Pre("node_exists", c1)}]
UpdateC1(x, v, deps) ==
    [Blank(x, "UpdateNodeProps") EXCEPT
        !.target = c1, !.value = v, !.depends_on = deps,
        !.preconditions = {Pre("node_exists", c1),
                           [Pre("prop_equals", c1) EXCEPT !.value = v1]}]
AssertOp(x, s, pred, b, deps) ==
    [Blank(x, "AssertEdge") EXCEPT !.subject = s, !.predicate = pred, !.object = b,
                                   !.depends_on = deps]
AssertC1C2(x, pred) ==
    [AssertOp(x, c1, pred, c2, {}) EXCEPT
        !.preconditions = {[kind |-> "edge_absent", subject |-> c1,
                            predicate |-> pred, value |-> c2]}]
CloseE1(x, w) ==
    [Blank(x, "InvalidateEdge") EXCEPT !.target = e1, !.value = w,
                                       !.preconditions = {Pre("edge_exists", e1)}]
Reinforce(x, e) ==
    [Blank(x, "ReinforceEdge") EXCEPT !.target = e,
                                      !.preconditions = {Pre("edge_exists", e)}]
Minted(x, o) == <<x, o>>
MergeMinted(x, t, n, deps) ==
    [Blank(x, "MergeInto") EXCEPT !.temp_id = t, !.target = n, !.depends_on = deps,
                                  !.preconditions = {Pre("node_exists", n)}]

AllOps ==
    a1 :> CreateN1(A, t1) @@ a2 :> AssertOp(A, t1, p, c1, {a1}) @@
    a3 :> CloseE1(A, w1) @@ a4 :> UpdateC1(A, v2, {}) @@
    a5 :> Reinforce(A, e1) @@ a6 :> MergeC1(A, t2) @@
    b1 :> CreateN1(B, t2) @@ b2 :> MergeC1(B, t3) @@ b3 :> UpdateC1(B, v2, {b2}) @@
    b4 :> Reinforce(B, e1) @@ b5 :> AssertC1C2(B, q) @@
    b6 :> CloseE1(B, w2) @@
    x1 :> MergeMinted(C, t3, Minted(A, a1), {}) @@
    x2 :> Reinforce(C, Minted(A, a2)) @@
    x3 :> AssertOp(C, Minted(A, a1), q, c2, {})

mc_op == [o \in OpIds |-> AllOps[o]]

\* The confidence a CreateNode or an AssertEdge can reach stays under the
\* auto-approve threshold; the other kinds can be settled without a reviewer.
MCRoutes ==
    [o \in OpIds |->
        CASE AllOps[o].kind = "InvalidateEdge" -> {"auto_approve"}
          [] AllOps[o].kind = "UpdateNodeProps" -> {"review", "auto_reject"}
          [] OTHER -> {"review"}]
RunSymmetry == Permutations(RunIds)
AllReviewed == [o \in OpIds |-> {"review"}]
=============================================================================
