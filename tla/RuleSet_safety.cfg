CONSTANTS
    web1 = web1
    web2 = web2
    main = main
    p1 = p1
    p2 = p2
    Web = {web1, web2}
    Main = main
    Packet = {p1, p2}
    Content <- BothKinds
    Starter <- FreshInstall
    SaveCanFail = TRUE
    MaxRules = 3
    MaxId = 4
SPECIFICATION Spec
SYMMETRY WebSymmetry
INVARIANTS
    JudgedByStoredRules
PROPERTIES
    IdsNotReused
    EditIsLocal
