SPECIFICATION Spec
CONSTANTS
    A = A  B = B  C = C
    a1 = a1  a2 = a2  a3 = a3  a4 = a4  a5 = a5  a6 = a6  b1 = b1  b2 = b2  b3 = b3  b4 = b4  b5 = b5  b6 = b6
    x1 = x1  x2 = x2  x3 = x3
    t1 = t1  t2 = t2  t3 = t3  n1 = n1  k1 = k1  k2 = k2
    c1 = c1  c2 = c2  e1 = e1  p = p  q = q  v1 = v1  v2 = v2  w1 = w1  w2 = w2
    None = None
    RunIds = {r1, r2}
    PatchIds = {A, C}
    OpIds = {a1, a2, x2}
    op <- mc_op
    TempIds = {t1, t2, t3}
    Names = {n1, k1, k2}
    Values = {v1, v2, w1, w2}
    Predicates = {p, q}
    Node0 <- MCNode0
    Edge0 <- MCEdge0
    node0 <- mc_node0
    edge0 <- mc_edge0
    Routes <- AllReviewed
    Exclusive = FALSE
SYMMETRY RunSymmetry
INVARIANTS
    LedgerFaithful SupportCounted RefsResolve
