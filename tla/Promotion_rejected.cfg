SPECIFICATION Spec
CHECK_DEADLOCK FALSE
CONSTANTS
    Acme = Acme  AcmeCorp = AcmeCorp  Basel = Basel  Zurich = Zurich  ZurichBlank = ZurichBlank  TheCity = TheCity
    Start = Start  Sign = Sign
    Move = Move  Alias1 = Alias1  Both = Both  Flow = Flow
    None = None
    Docs = {Alias1}
    Fold <- mc_Fold
    Content <- mc_Content
    SeedTypes = {"Company", "City", "Task"}
    Unnamed = {TheCity}
    Key <- mc_Key
    PredicateKey <- mc_PredicateKey
    Cosines <- mc_Cosines
    Paraphrase <- mc_Paraphrase
    DescCap = 3
    Today = 9
    Confidences = {95}
    Graph0 <- mc_Graph0
    MaxPatches = 2
    MaxDocs = 2
    MaxHeld = 1
    AsOf = {None, 2, 3}
    Limits = {1, 2, 60}
INVARIANT
    RejectedMergeHolds
