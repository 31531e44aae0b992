SPECIFICATION FairPipelineSpec
CONSTANTS
    A = A  B = B  C = C  d1 = d1  d2 = d2
    a1 = a1  a2 = a2  b1 = b1  x1 = x1
    t1 = t1  t2 = t2  n1 = n1  k1 = k1  k2 = k2
    c1 = c1  c2 = c2  e1 = e1  p1 = p1  w1 = w1
    None = None
    RunIds = {r1}
    PatchIds = {C}
    OpIds = {x1}
    op <- mc_op
    TempIds = {t1, t2}
    Names = {n1, k1, k2}
    Values = {w1}
    Predicates = {p1}
    Node0 <- MCNode0
    Edge0 <- MCEdge0
    node0 <- mc_node0
    edge0 <- mc_edge0
    Routes <- AllApproved
    Exclusive = TRUE
    Docs = {d1}
    DocOf <- MCDocOf
    ThreadReuse = TRUE
PROPERTY
    KilledRunResumes
