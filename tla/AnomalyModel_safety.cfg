CONSTANTS
    web1 = web1
    web2 = web2
    in = in
    out = out
    Web = {web1, web2}
    Reader = {in, out}
    MinRows = 1
    Cap = 2
    DumpCanFail = TRUE
    MaxTrainings = 3
SPECIFICATION Spec
SYMMETRY ThreadSymmetry
INVARIANTS
    ScoringHasModel
    ExplainedByOwnTraining
    SavedTogether
