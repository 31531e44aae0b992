-------------------------- MODULE MCIngestPipeline --------------------------
(* Two documents that introduce the same entity n1, one with a fact on it,   *)
(* and a second patch C for document d1 should it be ingested again.         *)
EXTENDS IngestPipeline, TLC

CONSTANTS A, B, C, d1, d2, a1, a2, b1, x1, t1, t2, n1, k1, k2, c1, c2, e1, p1, w1

MCNode0 == {c1, c2}
MCEdge0 == {e1}
mc_node0 == c1 :> [name |-> k1, description |-> None] @@ c2 :> [name |-> k2, description |-> None]
mc_edge0 == e1 :> [subject |-> c1, predicate |-> p1, object |-> c2,
                   valid_to |-> None, support |-> 1]

Blank(patch_id, kind) ==
    [patch_id |-> patch_id, kind |-> kind, depends_on |-> {}, preconditions |-> {},
     temp_id |-> None, name |-> None, target |-> None, subject |-> None,
     predicate |-> None, object |-> None, value |-> None]

Pre(kind, subject) ==
    [kind |-> kind, subject |-> subject, predicate |-> None, value |-> None]

CreateN1(x, t) ==
    [Blank(x, "CreateNode") EXCEPT !.temp_id = t, !.name = n1,
                                   !.preconditions = {Pre("name_absent", n1)}]
AssertOnNew(x, t, o) ==
    [Blank(x, "AssertEdge") EXCEPT !.subject = t, !.predicate = p1, !.object = c1,
                                   !.depends_on = {o}]
ReinforceE1(x) ==
    [Blank(x, "ReinforceEdge") EXCEPT !.target = e1,
                                      !.preconditions = {Pre("edge_exists", e1)}]

AllOps ==
    a1 :> CreateN1(A, t1) @@ a2 :> AssertOnNew(A, t1, a1) @@
    b1 :> CreateN1(B, t2) @@ x1 :> ReinforceE1(C)

mc_op == [o \in OpIds |-> AllOps[o]]
MCDocOf == [x \in PatchIds |-> IF x = B THEN d2 ELSE d1]
MCRoutes ==
    [o \in OpIds |-> IF AllOps[o].kind = "ReinforceEdge" THEN {"review", "auto_approve"}
                     ELSE {"review"}]
AllReviewed == [o \in OpIds |-> {"review"}]
AllApproved == [o \in OpIds |-> {"auto_approve"}]
=============================================================================
